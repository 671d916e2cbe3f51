-------------------------- MODULE AdminWizardProofs --------------------------
(***************************************************************************)
(* Proofs about AdminWizard.tla, for any bots, channels, handlers and      *)
(* bounds.                                                                 *)
(***************************************************************************)
EXTENDS AdminWizard, FiniteSetTheorems, TLAPS

Fits(j) == IsJob(j) /\ FitsNext(j) /\ FitsRow(j) /\ FitsButton(j)

-----------------------------------------------------------------------------
(* The tables. *)

(* What each state promises the rest of its wizard. *)
LEMMA NeedsOfStates ==
    /\ Needs("none") = {} /\ Needs("bc_content") = {"target"}
    /\ Needs("bc_buttons") = {"target", "content"}
    /\ Needs("bc_choice") = {"target", "content", "inline_buttons"}
    /\ Needs("bc_datetime") = {"target", "content", "inline_buttons"}
    /\ Needs("ch_type") = {"target"} /\ Needs("ch_label") = {"target", "channel_type"}
    /\ Needs("ch_chat_id") = {"target", "channel_type", "label"}
    /\ Needs("ch_url") = {"target", "channel_type", "label", "chat_id"}
    /\ Needs("pc_title") = {"target"} /\ Needs("pc_pick") = {"target", "title"}
    /\ Needs("mb_text") = {"target"} /\ Needs("mb_type") = {"target", "text"}
    /\ Needs("mb_url") = {"target", "text", "btn_type"}
    /\ Needs("mb_username") = {"target", "text", "btn_type"}
    /\ Needs("mb_prefilled") = {"target", "text", "btn_type", "payload"}
    /\ Needs("mb_place") = {"target", "text", "btn_type", "payload"}
    /\ Needs("rb_token") = {} /\ Needs("rb_name") = {"token"} /\ Needs("edit") = {"target"}
BY DEF Needs

(* The dictionaries the tables write are of their type. *)
LEMMA DataOfSteps ==
    /\ IsData(Nothing) /\ IsData([text |-> "given"])
    /\ \A t \in ButtonTypes : IsData([btn_type |-> t]) /\ IsData([payload |-> t])
BY DEF Nothing, IsData, Keys, Values

(* The broadcast wizard's handlers fit each other. *)
LEMMA BroadcastFits == \A j \in BroadcastSteps \cup FinishBroadcast : Fits(j)
<1>1. \A j \in BroadcastSteps : Fits(j)
  BY NeedsOfStates
  DEF BroadcastSteps, Step, Nothing, Fits, IsJob, FitsNext, FitsRow, FitsButton, States, IsData,
      Values, Keys
<1>2. \A j \in FinishBroadcast : IsJob(j)
  BY DataOfSteps DEF FinishBroadcast, Last, IsJob, States, Keys
<1>3. \A j \in FinishBroadcast : FitsNext(j) /\ FitsRow(j)
  BY DEF FinishBroadcast, Last, FitsNext, FitsRow
<1>4. \A j \in FinishBroadcast : FitsButton(j)
  BY DEF FinishBroadcast, Last, Nothing, FitsButton
<1>. QED  BY <1>1, <1>2, <1>3, <1>4 DEF Fits

(* So do those that add a channel ... *)
LEMMA ChannelFits == \A j \in ChannelSteps \cup FinishChannel : Fits(j)
BY NeedsOfStates
DEF ChannelSteps, FinishChannel, Step, Last, Nothing, Fits, IsJob, FitsNext, FitsRow, FitsButton,
    States, IsData, Values, Keys

(* ... that ask for a tier's title ... *)
LEMMA TierFits == \A j \in TierSteps : Fits(j)
BY NeedsOfStates
DEF TierSteps, Step, Fits, IsJob, FitsNext, FitsRow, FitsButton, States, IsData, Values, Keys

(* ... the taps on a keyboard of channels ... *)
LEMMA PickFits == \A j \in Picks : Fits(j)
BY NamesAreFree
DEF Picks, PickChannel, Last, Nothing, Fits, IsJob, FitsNext, FitsRow, FitsButton, States, IsData,
    Keys

(* ... the buttons that open a wizard ... *)
LEMMA OpeningFits == \A j \in Openings : Fits(j)
BY NeedsOfStates
DEF Openings, Step, Fits, IsJob, FitsNext, FitsRow, FitsButton, States, IsData, Values, Keys

(* ... those that register a bot ... *)
LEMMA RegisterFits == \A j \in RegisterSteps \cup FinishRegister : Fits(j)
BY NeedsOfStates
DEF RegisterSteps, FinishRegister, Step, Last, Nothing, Fits, IsJob, FitsNext, FitsRow,
    FitsButton, States, IsData, Values, Keys

(* ... the last ones of the menu and the edits, and those outside any      *)
(* wizard ...                                                              *)
LEMMA OthersFit == \A j \in FinishButton \cup FinishEdit \cup {BotDetail, Home, Idle} : Fits(j)
BY DEF FinishButton, FinishEdit, BotDetail, Home, Idle, Step, Last, Nothing, Fits, IsJob,
       FitsNext, FitsRow, FitsButton, States, IsData, Keys

(* Dictionaries of different keys differ. *)
LEMMA RecordsDiffer ==
    /\ \A t : [payload |-> t] # Nothing /\ [btn_type |-> t] # Nothing
    /\ DOMAIN Nothing = {} /\ \A t : DOMAIN [payload |-> t] = {"payload"}
    /\ \A t : DOMAIN [btn_type |-> t] = {"btn_type"} /\ DOMAIN [title |-> t] = {"title"}
BY DEF Nothing

(* ... and those that add a menu button. *)
LEMMA MenuFits == \A j \in MenuSteps : Fits(j)
<1> USE NeedsOfStates, NamesAreFree DEF MenuSteps, Step
<1>1. \A j \in MenuSteps : IsJob(j)
  BY DataOfSteps DEF IsJob, States, Keys, ButtonTypes
<1>2. \A j \in MenuSteps : FitsNext(j)
  BY DEF FitsNext, Nothing
<1>3. \A j \in MenuSteps : FitsRow(j)
  BY DEF FitsRow
<1>4. \A j \in MenuSteps : FitsButton(j)
  BY DEF FitsButton, Nothing
<1>. QED  BY <1>1, <1>2, <1>3, <1>4 DEF Fits

(* Every handler fits, and only a bot's page leaves the state alone. *)
LEMMA HandlersFit == \A j \in Handlers \cup Picks \cup {Idle} :
    /\ Fits(j) /\ j.from # "none" /\ (j.to = "stay" => j = Idle)
    /\ j.from = "mb_prefilled" => j.reads # {}
<1>1. \A j \in Handlers \cup Picks \cup {Idle} : Fits(j)
  BY BroadcastFits, ChannelFits, TierFits, PickFits, OpeningFits, RegisterFits, OthersFit,
     MenuFits
  DEF Handlers
<1>2. \A j \in Openings \cup RegisterSteps \cup BroadcastSteps \cup ChannelSteps \cup TierSteps
                \cup MenuSteps \cup {BotDetail} :
        j.from # "none" /\ (j.to = "stay" => j = Idle) /\ (j.from = "mb_prefilled" => j.reads # {})
  BY DEF Openings, RegisterSteps, BroadcastSteps, ChannelSteps, TierSteps, MenuSteps, BotDetail,
         Idle, Step
<1>3. \A j \in FinishBroadcast \cup FinishChannel \cup FinishButton \cup FinishRegister
                \cup FinishEdit \cup {Home} \cup Picks :
        j.from \notin {"none", "mb_prefilled"} /\ j.to # "stay"
  BY DEF FinishBroadcast, FinishChannel, FinishButton, FinishRegister, FinishEdit, Home, Picks,
         PickChannel, Last
<1>. QED  BY <1>1, <1>2, <1>3 DEF Handlers, Idle

(* The payload written after the state is a handler that fits. *)
LEMMA FollowUpFits ==
    ASSUME NEW j, Fits(j), j.then # Nothing
    PROVE  LET f == Step("any", {}, j.then, "stay", Nothing) IN
           Fits(f) /\ f.sets = [payload |-> "callback"]
<1>1. j.then = [payload |-> "callback"]
  BY DEF Fits, IsJob
<1>2. IsData(j.then)
  BY <1>1, DataOfSteps DEF ButtonTypes
<1>. QED
  BY <1>2 DEF Fits, IsJob, FitsNext, FitsRow, FitsButton, Step

(* So is the prefilled text's, once it has read the payload it adds to. *)
LEMMA RebuiltFits ==
    ASSUME NEW j, Fits(j), j.to # "none", j.reads # {}, NEW d, IsData(d), j.reads \subseteq DOMAIN d
    PROVE  Fits(Step(j.from, {}, [k \in j.reads |-> d[k]], j.to, Nothing))
<1>1. j.from = "mb_prefilled" /\ j.to = "mb_place" /\ j.reads = {"payload"}
  BY DEF Fits, FitsNext, FitsButton
<1>2. IsData([k \in j.reads |-> d[k]])
  BY DEF IsData
<1>. QED
  BY <1>2, NeedsOfStates DEF Fits, IsJob, FitsNext, FitsRow, FitsButton, Step

-----------------------------------------------------------------------------
(* Helpers. *)

(* Every job at hand fits. *)
LEMMA JobsAreFit == IInv => \A h \in Calls : Fits(job[h])
BY DEF IInv, TypeOK, CallsTypeOK, JobsFit, Fits

(* What is left of handler h once it has proceeded: nothing, or the        *)
(* payload of a callback button to be written.                             *)
LEMMA AfterProceed ==
    ASSUME IInv, NEW h \in Calls, Proceed(h)
    PROVE  /\ pc' \in [Calls -> {"idle", "fetch", "read", "write", "look", "move", "clear", "wipe", "commit"}]
           /\ DOMAIN job' = Calls /\ DOMAIN snap' = Calls
           /\ \A k \in Calls : IsData(snap'[k]) /\ Fits(job'[k])
           /\ \A k \in Calls \ {h} : pc'[k] = pc[k] /\ job'[k] = job[k] /\ snap'[k] = snap[k]
           /\ job'[h].from = "any" /\ job'[h].to = "stay" /\ job'[h].reads = {}
           /\ job'[h].adds = "none" /\ job'[h].pick = NoChannel /\ job'[h].then = Nothing
           /\ pc[h] # "move" \/ job[h].then = Nothing =>
                  pc'[h] = "idle" /\ job'[h] = Idle /\ job'[h].sets = Nothing
           /\ pc[h] = "move" /\ job[h].then # Nothing =>
                  /\ pc'[h] = "read" /\ job[h].to = "mb_place" /\ job[h].from = "mb_type"
                  /\ job[h].sets = [btn_type |-> "callback"]
                  /\ job[h].then = [payload |-> "callback"]
                  /\ job'[h].sets = [payload |-> "callback"]
           /\ doubtful' = doubtful \ {h} /\ doubtful' \subseteq Busy'
<1>1. Fits(job[h]) /\ Fits(Idle) /\ IsData(Nothing)
  BY JobsAreFit, HandlersFit, DataOfSteps
<1>2. ASSUME job[h].then # Nothing
      PROVE  /\ Fits(Step("any", {}, job[h].then, "stay", Nothing))
             /\ job[h].then = [payload |-> "callback"]
             /\ job[h].to = "mb_place" /\ job[h].from = "mb_type"
             /\ job[h].sets = [btn_type |-> "callback"]
  BY <1>1, <1>2, FollowUpFits DEF Fits, IsJob, FitsButton
<1>3. \A s : LET f == Step("any", {}, s, "stay", Nothing) IN
        /\ f.from = "any" /\ f.to = "stay" /\ f.reads = {} /\ f.adds = "none"
        /\ f.pick = NoChannel /\ f.then = Nothing /\ f.sets = s
  BY DEF Step
<1>4. Idle = Step("any", {}, Nothing, "stay", Nothing)
  BY DEF Idle, BotDetail
<1>. QED
  BY <1>1, <1>2, <1>3, <1>4, JobsAreFit DEF IInv, TypeOK, CallsTypeOK, Proceed, Goto, Busy

(* Rows are owed to the handlers that are left and to the state.           *)
LEMMA CallsAreCounted ==
    /\ IsFiniteSet(Carriers) /\ IsFiniteSet(Creators)
    /\ Cardinality(Carriers) \in Nat /\ Cardinality(Creators) \in Nat
    /\ Carriers # {} => Cardinality(Carriers) >= 1
<1>1. Carriers \subseteq Calls /\ Creators \subseteq Calls
  BY DEF Carriers, Creators, Busy
<1>2. IsFiniteSet(Carriers) /\ IsFiniteSet(Creators)
  BY <1>1, CallsAreFinite, FS_Subset
<1>3. Cardinality(Carriers) \in Nat /\ Cardinality(Creators) \in Nat
  BY <1>2, FS_CardinalityType
<1>4. Carriers # {} => Cardinality(Carriers) # 0
  BY <1>2, FS_EmptySet
<1>. QED  BY <1>2, <1>3, <1>4

(* A step that adds no carrier and no creator, and enters a wizard only    *)
(* from a carrier, owes no more rows than before.                          *)
LEMMA FewerRows ==
    ASSUME IInv, Carriers' \subseteq Carriers, Creators' \subseteq Creators,
           state' # "none" => state # "none" \/ Carriers # {}, UNCHANGED <<made, opened, overlaps>>
    PROVE  RowsFit'
<1>1. /\ Cardinality(Carriers') \in Nat /\ Cardinality(Creators') \in Nat
      /\ Cardinality(Carriers') <= Cardinality(Carriers)
      /\ Cardinality(Creators') <= Cardinality(Creators)
  BY CallsAreCounted, FS_Subset, FS_CardinalityType
<1>. QED
  BY <1>1, CallsAreCounted DEF IInv, TypeOK, CountsTypeOK, RowsFit

(* What data holds after update_data. *)
LEMMA PutIs ==
    ASSUME NEW d, NEW s, IsData(d), IsData(s)
    PROVE  /\ IsData(Put(d, s)) /\ DOMAIN Put(d, s) = DOMAIN d \cup DOMAIN s
           /\ \A k \in DOMAIN s : Put(d, s)[k] = s[k]
           /\ \A k \in DOMAIN d \ DOMAIN s : Put(d, s)[k] = d[k]
BY DEF Put, IsData

(* The fields of an idle handler. *)
LEMMA IdleIs ==
    /\ Fits(Idle) /\ Idle.from = "any" /\ Idle.to = "stay" /\ Idle.reads = {}
    /\ Idle.adds = "none" /\ Idle.pick = NoChannel /\ Idle.then = Nothing
    /\ Idle.sets = Nothing
<1>1. Fits(Idle)
  BY HandlersFit
<1>. QED  BY <1>1 DEF Idle, BotDetail, Step

(* Handlers that are at work in an FSM that is not torn are alone.         *)
LEMMA Alone ==
    ASSUME IInv, NEW h \in Busy, ~ torn \/ overlaps = 0
    PROVE  Busy = {h}
BY DEF IInv, OneAtATime
-----------------------------------------------------------------------------
(* The steps of a handler. *)

(* A handler can be reached in a state only through the updates that are   *)
(* counted, and finds the draft that the state needs.                      *)
LEMMA ArriveGood ==
    ASSUME IInv, NEW h \in Calls, NEW j \in Handlers \cup Picks, Arrive(h, j)
    PROVE  IInv'
<1> USE NamesAreFree DEF IInv, TypeOK, fsm, channels, gates, call, events, counters
<1>a. /\ Fits(j) /\ IsJob(j) /\ FitsNext(j) /\ FitsRow(j) /\ FitsButton(j)
      /\ j.from # "none" /\ (j.to = "stay" => j.sets = Nothing)
      /\ j.from = "mb_prefilled" => j.reads # {}
  BY HandlersFit, IdleIs DEF Fits
<1>b. /\ FirstStep(j) \in {"fetch", "read", "move", "clear"}
      /\ FirstStep(j) = "fetch" => j.reads # {}
      /\ FirstStep(j) # "fetch" => j.reads = {} /\ j.adds = "none"
      /\ FirstStep(j) = "read" => j.to # "none"
      /\ FirstStep(j) = "clear" => j.to = "none"
      /\ FirstStep(j) = "move" => j.to \notin {"none", "stay"} /\ j.sets = Nothing /\ DOMAIN j.sets = {}
                                  /\ j.from # "pc_title"
  BY <1>a, RecordsDiffer DEF FirstStep, FitsNext, FitsRow, FitsButton
<1>c. /\ pc[h] = "idle" /\ j.from \in {"any", state} /\ (j.pick # NoChannel => j.pick \in offered)
      /\ pc' = [pc EXCEPT ![h] = FirstStep(j)] /\ job' = [job EXCEPT ![h] = j]
      /\ opened' = IF Opens(j) THEN opened + 1 ELSE opened
      /\ overlaps' = IF Busy # {} THEN overlaps + 1 ELSE overlaps
      /\ torn' = (torn \/ Busy # {})
      /\ UNCHANGED <<fsm, channels, gates, buttons, offered, latest, toggles, snap, doubtful,
                     made, others>>
      /\ Spent' <= MaxEvents /\ overlaps' <= MaxOverlaps
  BY DEF Arrive, Goto
<1>d. ~ torn' \/ overlaps' = 0 => Busy = {} /\ Busy' = {h} /\ (~ torn' => ~ torn) /\ (overlaps' = 0 => overlaps = 0)
  <2>2. Busy' = Busy \cup {h}
    BY <1>b, <1>c DEF Busy, CallsTypeOK
  <2>1. /\ torn' = (torn \/ Busy # {}) /\ overlaps \in Nat
        /\ overlaps' = IF Busy # {} THEN overlaps + 1 ELSE overlaps
    BY <1>c DEF CountsTypeOK
  <2> HIDE DEF IInv, Arrive
  <2>3. ~ torn' => ~ torn /\ Busy = {}
    BY <2>1, Zenon
  <2>4. overlaps' = 0 => overlaps = 0 /\ Busy = {}
    BY <2>1
  <2>. QED  BY <2>2, <2>3, <2>4
<1>1. FsmTypeOK'
  BY <1>c DEF FsmTypeOK
<1>2. RowsTypeOK'
  BY <1>c DEF RowsTypeOK
<1>3. CallsTypeOK'
  BY <1>a, <1>b, <1>c DEF CallsTypeOK, Busy
<1>4. CountsTypeOK'
  BY <1>c DEF CountsTypeOK
<1>5. JobsFit'
  BY <1>a, <1>b, <1>c DEF JobsFit, CallsTypeOK
<1>6. GatesFit'
  BY <1>c DEF GatesFit, CallsTypeOK
<1>7. OneAtATime'
  BY <1>b, <1>c, <1>d DEF OneAtATime, CallsTypeOK
<1>8. RequirementsAreCheckable' /\ TierIsOfItsBot'
  BY <1>c DEF RequirementsAreCheckable, TierIsOfItsBot
<1>9. PicksFit'
  BY <1>b, <1>c DEF PicksFit, CallsTypeOK
<1>10. DraftsFit'
  <2>1. ASSUME ~ torn' PROVE Has(Needs(state))
    BY <1>d, <2>1 DEF DraftsFit
  <2>2. ASSUME ~ torn', FirstStep(j) = "move" PROVE Needs(j.to) \ DOMAIN j.then \subseteq Needs(state)
    BY <1>a, <1>b, <1>c, <2>2 DEF FitsNext
  <2>. QED  BY <1>b, <1>c, <1>d, <2>1, <2>2 DEF DraftsFit, Has, CallsTypeOK
<1>11. RowsFit'
  <2>1. Creators' = Creators /\ Carriers' \subseteq Carriers \cup {h}
    BY <1>b, <1>c DEF Creators, Carriers, Busy
  <2>2. CASE j.from = "any" /\ ~ Opens(j)
    <3>1. Carriers' \subseteq Carriers
      BY <1>c, <2>2 DEF Carriers, Busy, CallsTypeOK
    <3>2. Cardinality(Carriers') <= Cardinality(Carriers) /\ Cardinality(Carriers') \in Nat
      BY <3>1, CallsAreCounted, FS_Subset, FS_CardinalityType
    <3>. QED  BY <1>c, <2>1, <3>2, CallsAreCounted DEF RowsFit, CountsTypeOK
  <2>3. /\ IsFiniteSet(Carriers \cup {h}) /\ Cardinality(Carriers \cup {h}) \in Nat
        /\ Cardinality(Carriers \cup {h}) <= Cardinality(Carriers) + 1
    <3>1. IsFiniteSet(Carriers) /\ Cardinality(Carriers) \in Nat
      BY CallsAreCounted
    <3>2. /\ IsFiniteSet(Carriers \cup {h})
          /\ Cardinality(Carriers \cup {h})
                = IF h \in Carriers THEN Cardinality(Carriers) ELSE Cardinality(Carriers) + 1
      BY <3>1, FS_AddElement
    <3>. QED  BY <3>1, <3>2
  <2>4. Cardinality(Carriers') <= Cardinality(Carriers) + 1 /\ Cardinality(Carriers') \in Nat
    <3>1. Cardinality(Carriers') <= Cardinality(Carriers \cup {h}) /\ Cardinality(Carriers') \in Nat
      BY <2>1, <2>3, FS_Subset, FS_CardinalityType
    <3>. QED  BY <2>3, <3>1, CallsAreCounted
  <2>5. CASE Opens(j) \/ Busy # {}
    <3>1. opened' + overlaps' >= opened + overlaps + 1 /\ opened' \in Nat /\ overlaps' \in Nat
      BY <1>c, <2>5 DEF CountsTypeOK
    <3>. QED  BY <1>c, <2>1, <2>4, <3>1, CallsAreCounted DEF RowsFit, CountsTypeOK
  <2>6. CASE j.from # "any" /\ Busy = {}
    <3>1. Carriers = {} /\ state # "none" /\ opened' >= opened /\ opened' \in Nat /\ overlaps' = overlaps
      BY <1>a, <1>c, <2>6 DEF Carriers, CountsTypeOK
    <3>2. Cardinality(Carriers) = 0
      BY <3>1, FS_EmptySet
    <3>. QED  BY <1>c, <2>1, <2>4, <3>1, <3>2, CallsAreCounted DEF RowsFit, CountsTypeOK
  <2>. QED  BY <2>2, <2>5, <2>6
<1>12. ButtonsFit'
  <2>1. FirstStep(j) = "move" => j.to \notin {"mb_url", "mb_username", "mb_prefilled", "mb_place"}
                                 /\ j.then = Nothing
    BY <1>a, <1>b DEF FitsButton
  <2>. QED  BY <1>a, <1>b, <1>c, <1>d, <2>1 DEF ButtonsFit, Agrees, CallsTypeOK
<1>. QED  BY <1>1, <1>2, <1>3, <1>4, <1>5, <1>6, <1>7, <1>8, <1>9, <1>10, <1>11, <1>12

(* A missing key or a vanished channel ends the handler elsewhere: what    *)
(* Fetch takes is there.                                                   *)
LEMMA FetchGood == ASSUME IInv, NEW h \in Calls, Fetch(h) PROVE IInv'
<1> USE NamesAreFree
    DEF IInv, TypeOK, fsm, channels, gates, call, events, counters, Fetch, Goto
<1>a. /\ Fits(job[h]) /\ IsJob(job[h]) /\ FitsNext(job[h]) /\ FitsRow(job[h]) /\ FitsButton(job[h])
      /\ IsData(snap[h]) /\ IsData(data) /\ IsData(Nothing)
  BY JobsAreFit, DataOfSteps DEF Fits, CallsTypeOK, FsmTypeOK
<1> DEFINE j == Step(job[h].from, {}, [k \in job[h].reads |-> data[k]], job[h].to, Nothing)
<1>b. ASSUME job[h].to # "none"
      PROVE  /\ Fits(j) /\ j.from = job[h].from /\ j.to = job[h].to /\ j.reads = {}
             /\ j.then = Nothing /\ j.adds = "none" /\ j.pick = NoChannel
             /\ DOMAIN j.sets = {"payload"} /\ j.sets["payload"] = data["payload"]
             /\ j.from = "mb_prefilled" /\ j.to = "mb_place"
             /\ job' = [job EXCEPT ![h] = j] /\ pc' = [pc EXCEPT ![h] = "read"]
             /\ UNCHANGED <<snap, doubtful>>
  <2>1. Fits(j)
    BY <1>a, <1>b, RebuiltFits DEF JobsFit
  <2>2. job[h].reads = {"payload"} /\ job[h].from = "mb_prefilled" /\ job[h].to = "mb_place"
    BY <1>b DEF JobsFit, FitsNext, FitsButton
  <2>. QED  BY <2>1, <2>2 DEF Step
<1>c. ASSUME job[h].to = "none"
      PROVE  /\ job' = job /\ snap' = [snap EXCEPT ![h] = data] /\ pc' = [pc EXCEPT ![h] = "clear"]
             /\ doubtful' = IF job[h].pick # NoChannel /\ (torn \/ job[h].pick \notin latest)
                             THEN doubtful \cup {h} ELSE doubtful
  BY <1>c
<1>d. /\ pc[h] = "fetch" /\ job[h].reads \subseteq DOMAIN data /\ job[h].reads # {}
      /\ UNCHANGED <<fsm, channels, gates, buttons, offered, latest, toggles, torn, counters>>
  BY DEF JobsFit
<1> HIDE DEF Fetch, j
<1>1. FsmTypeOK' /\ CountsTypeOK' /\ RowsTypeOK' /\ RequirementsAreCheckable' /\ TierIsOfItsBot'
  BY <1>d DEF FsmTypeOK, CountsTypeOK, Spent, RowsTypeOK, RequirementsAreCheckable, TierIsOfItsBot
<1>2. CallsTypeOK'
  BY <1>b, <1>c DEF CallsTypeOK, Busy, Fits, FsmTypeOK
<1>3. JobsFit'
  BY <1>b, <1>c, <1>d DEF CallsTypeOK, JobsFit, Fits
<1>4. GatesFit'
  BY <1>b, <1>c, <1>d DEF CallsTypeOK, GatesFit
<1>5. OneAtATime'
  BY <1>b, <1>c, <1>d DEF CallsTypeOK, OneAtATime, Busy
<1>6. PicksFit'
  BY <1>b, <1>c, <1>d DEF CallsTypeOK, PicksFit, OneAtATime, Busy, FitsRow, JobsFit
<1>7. DraftsFit'
  BY <1>b, <1>c, <1>d DEF CallsTypeOK, DraftsFit, Has, Busy
<1>8. RowsFit'
  <2>1. Carriers' \subseteq Carriers /\ Creators' \subseteq Creators
    BY <1>b, <1>c, <1>d DEF Carriers, Creators, Busy, CallsTypeOK
  <2>. QED
    BY <1>d, <2>1, FewerRows
<1>9. ButtonsFit'
  BY <1>b, <1>c, <1>d
  DEF CallsTypeOK, ButtonsFit, OneAtATime, Agrees, Busy, JobsFit, FitsRow, PayloadIs
<1>. QED  BY <1>1, <1>2, <1>3, <1>4, <1>5, <1>6, <1>7, <1>8, <1>9

(* The handler is over; nothing else changes.                              *)
LEMMA FetchFailsGood == ASSUME IInv, NEW h \in Calls, FetchFails(h) PROVE IInv'
<1> USE NamesAreFree
    DEF IInv, TypeOK, fsm, channels, gates, call, events, counters, FetchFails, Goto
<1>a. /\ Fits(job[h]) /\ IsJob(job[h]) /\ FitsNext(job[h]) /\ FitsRow(job[h]) /\ FitsButton(job[h])
      /\ IsData(snap[h]) /\ IsData(data) /\ IsData(Nothing)
  BY JobsAreFit, DataOfSteps DEF Fits, CallsTypeOK, FsmTypeOK
<1>b. Proceed(h)
  OBVIOUS
<1>1. FsmTypeOK' /\ CountsTypeOK' /\ RowsTypeOK' /\ RequirementsAreCheckable' /\ TierIsOfItsBot'
  BY DEF FsmTypeOK, CountsTypeOK, Spent, RowsTypeOK, RequirementsAreCheckable, TierIsOfItsBot
<1>2. CallsTypeOK'
  BY AfterProceed DEF CallsTypeOK, Fits
<1>3. JobsFit'
  BY AfterProceed DEF JobsFit, Fits
<1>4. GatesFit'
  BY AfterProceed DEF RowsTypeOK, GatesFit
<1>5. OneAtATime'
  BY AfterProceed DEF OneAtATime, Busy
<1>6. PicksFit'
  BY AfterProceed DEF PicksFit, Busy
<1>7. DraftsFit'
  BY AfterProceed DEF DraftsFit, Has, Busy
<1>8. RowsFit'
  <2>1. Carriers' \subseteq Carriers /\ Creators' \subseteq Creators
    BY AfterProceed DEF Carriers, Creators, Busy
  <2>. QED
    BY <2>1, FewerRows DEF JobsFit
<1>9. ButtonsFit'
  BY AfterProceed DEF ButtonsFit, Busy
<1>. QED  BY <1>1, <1>2, <1>3, <1>4, <1>5, <1>6, <1>7, <1>8, <1>9

(* The handler is over; nothing else changes.                              *)
LEMMA RefuseGood == ASSUME IInv, NEW h \in Calls, Refuse(h) PROVE IInv'
<1> USE NamesAreFree
    DEF IInv, TypeOK, fsm, channels, gates, call, events, counters, Refuse, Goto
<1>a. /\ Fits(job[h]) /\ IsJob(job[h]) /\ FitsNext(job[h]) /\ FitsRow(job[h]) /\ FitsButton(job[h])
      /\ IsData(snap[h]) /\ IsData(data) /\ IsData(Nothing)
  BY JobsAreFit, DataOfSteps DEF Fits, CallsTypeOK, FsmTypeOK
<1>b. Proceed(h)
  OBVIOUS
<1>1. FsmTypeOK' /\ CountsTypeOK' /\ RowsTypeOK' /\ RequirementsAreCheckable' /\ TierIsOfItsBot'
  BY DEF FsmTypeOK, CountsTypeOK, Spent, RowsTypeOK, RequirementsAreCheckable, TierIsOfItsBot
<1>2. CallsTypeOK'
  BY AfterProceed DEF CallsTypeOK, Fits
<1>3. JobsFit'
  BY AfterProceed DEF JobsFit, Fits
<1>4. GatesFit'
  BY AfterProceed DEF RowsTypeOK, GatesFit
<1>5. OneAtATime'
  BY AfterProceed DEF OneAtATime, Busy
<1>6. PicksFit'
  BY AfterProceed DEF PicksFit, Busy
<1>7. DraftsFit'
  BY AfterProceed DEF DraftsFit, Has, Busy
<1>8. RowsFit'
  <2>1. Carriers' \subseteq Carriers /\ Creators' \subseteq Creators
    BY AfterProceed DEF Carriers, Creators, Busy
  <2>. QED
    BY <2>1, FewerRows DEF JobsFit
<1>9. ButtonsFit'
  BY AfterProceed DEF ButtonsFit, Busy
<1>. QED  BY <1>1, <1>2, <1>3, <1>4, <1>5, <1>6, <1>7, <1>8, <1>9

(* Only the snapshot changes, and equals the dictionary.                   *)
LEMMA ReadGood == ASSUME IInv, NEW h \in Calls, Read(h) PROVE IInv'
<1> USE NamesAreFree
    DEF IInv, TypeOK, fsm, channels, gates, call, events, counters, Read, Goto
<1>a. /\ Fits(job[h]) /\ IsJob(job[h]) /\ FitsNext(job[h]) /\ FitsRow(job[h]) /\ FitsButton(job[h])
      /\ IsData(snap[h]) /\ IsData(data) /\ IsData(Nothing)
  BY JobsAreFit, DataOfSteps DEF Fits, CallsTypeOK, FsmTypeOK
<1>1. FsmTypeOK' /\ CountsTypeOK' /\ RowsTypeOK' /\ RequirementsAreCheckable' /\ TierIsOfItsBot'
  BY DEF FsmTypeOK, CountsTypeOK, Spent, RowsTypeOK, RequirementsAreCheckable, TierIsOfItsBot
<1>2. CallsTypeOK'
  BY DEF CallsTypeOK, Busy, FsmTypeOK
<1>3. JobsFit'
  BY DEF CallsTypeOK, JobsFit, Fits
<1>4. GatesFit'
  BY DEF CallsTypeOK, RowsTypeOK, GatesFit
<1>5. OneAtATime'
  BY DEF CallsTypeOK, OneAtATime, Busy
<1>6. PicksFit'
  BY DEF PicksFit, Busy, Opens
<1>7. DraftsFit'
  BY DEF DraftsFit, Has, Busy
<1>8. RowsFit'
  <2>1. Carriers' \subseteq Carriers /\ Creators' \subseteq Creators
    BY DEF Carriers, Creators, Busy
  <2>. QED
    BY <2>1, FewerRows DEF JobsFit
<1>9. ButtonsFit'
  BY DEF ButtonsFit, Busy, FitsNext
<1>. QED  BY <1>1, <1>2, <1>3, <1>4, <1>5, <1>6, <1>7, <1>8, <1>9

(* The keys of the step are added to a snapshot that is the dictionary     *)
(* unless updates overlap.                                                 *)
LEMMA WriteGood == ASSUME IInv, NEW h \in Calls, Write(h) PROVE IInv'
<1> USE NamesAreFree
    DEF IInv, TypeOK, fsm, channels, gates, call, events, counters, Write, Goto
<1>a. /\ Fits(job[h]) /\ IsJob(job[h]) /\ FitsNext(job[h]) /\ FitsRow(job[h]) /\ FitsButton(job[h])
      /\ IsData(snap[h]) /\ IsData(data) /\ IsData(Nothing)
  BY JobsAreFit, DataOfSteps DEF Fits, CallsTypeOK, FsmTypeOK
<1>c. /\ IsData(data') /\ DOMAIN data' = DOMAIN snap[h] \cup DOMAIN job[h].sets
      /\ \A k \in DOMAIN job[h].sets : data'[k] = job[h].sets[k]
      /\ \A k \in DOMAIN snap[h] \ DOMAIN job[h].sets : data'[k] = snap[h][k]
      /\ DOMAIN job[h].sets \subseteq Keys
  <2> DEFINE d == snap[h]
             s == job[h].sets
  <2>1. data' = Put(d, s) /\ IsData(d) /\ IsData(s)
    BY <1>a DEF IsJob
  <2> HIDE DEF Write, d, s
  <2>2. /\ IsData(Put(d, s)) /\ DOMAIN Put(d, s) = DOMAIN d \cup DOMAIN s
        /\ \A k \in DOMAIN s : Put(d, s)[k] = s[k]
        /\ \A k \in DOMAIN d \ DOMAIN s : Put(d, s)[k] = d[k]
    BY <2>1, PutIs
  <2>3. DOMAIN s \subseteq Keys
    BY <2>1 DEF IsData
  <2>4. IsData(data') /\ DOMAIN data' = DOMAIN d \cup DOMAIN s
    BY <2>1, <2>2
  <2>5. /\ \A k \in DOMAIN s : data'[k] = s[k]
        /\ \A k \in DOMAIN d \ DOMAIN s : data'[k] = d[k]
    BY <2>1, <2>2
  <2>. QED  BY <2>3, <2>4, <2>5 DEF d, s
<1>1. CountsTypeOK' /\ RowsTypeOK' /\ RequirementsAreCheckable' /\ TierIsOfItsBot'
  BY DEF CountsTypeOK, Spent, RowsTypeOK, RequirementsAreCheckable, TierIsOfItsBot
<1>2. FsmTypeOK'
  BY <1>c, AfterProceed DEF FsmTypeOK
<1>3. CallsTypeOK'
  BY AfterProceed DEF CallsTypeOK, Busy, Fits
<1>4. JobsFit'
  BY AfterProceed DEF CallsTypeOK, JobsFit, Fits
<1>5. GatesFit'
  BY AfterProceed DEF RowsTypeOK, GatesFit
<1>6. OneAtATime'
  BY AfterProceed DEF CallsTypeOK, OneAtATime, Busy
<1>7. PicksFit'
  <2>1. \A k \in Calls : job'[k].adds = "tier" => pc'[k] = pc[k] /\ job'[k] = job[k] /\ snap'[k] = snap[k]
    BY AfterProceed DEF CallsTypeOK, JobsFit, FitsRow
  <2>2. ~ torn => Busy = {h} /\ snap[h] = data
    BY DEF Busy, OneAtATime, CallsTypeOK
  <2>3. ASSUME ~ torn, state = "pc_pick", \A k \in Busy' : Opens(job'[k]) => pc'[k] # "move"
        PROVE  "target" \in DOMAIN data' /\ data'["target"] = data["target"] /\ "target" \in DOMAIN data
    <3>1. "target" \notin DOMAIN job[h].sets
      BY <2>3, RecordsDiffer DEF FitsNext, Opens, Busy, CallsTypeOK, JobsFit
    <3>2. "target" \in DOMAIN data
      BY <2>2, <2>3 DEF PicksFit
    <3>. QED  BY <1>c, <2>2, <2>3, <3>1, <3>2
  <2>4. ~ torn => \A k \in Busy : Opens(job[k]) => pc[k] # "move"
    BY <2>2
  <2>5. \A k \in Calls \ doubtful' : job'[k].adds = "tier" => k \notin doubtful
    BY <2>1, AfterProceed
  <2>. QED  BY <2>1, <2>2, <2>3, <2>4, <2>5 DEF PicksFit
<1>8. DraftsFit'
  <2> DEFINE j == job[h]
  <2>1. ~ torn => Busy = {h} /\ Busy' \subseteq {h} /\ snap[h] = data
    BY AfterProceed DEF Busy, OneAtATime, CallsTypeOK
  <2>2. CASE j.to = "stay"
    BY <1>c, <2>1, <2>2, AfterProceed DEF DraftsFit, Has, Opens
  <2>3. CASE j.to # "stay" /\ j.from = "any"
    <3>1. Opens(j) /\ j.then = Nothing /\ Needs(j.to) \subseteq DOMAIN j.sets /\ j.from # "pc_title"
      BY <2>3 DEF Opens, FitsNext, JobsFit
    <3>. QED  BY <1>c, <2>1, <2>3, <3>1 DEF DraftsFit, Has, CallsTypeOK
  <2>4. CASE j.to # "stay" /\ j.from # "any"
    <3>1. /\ ~ Opens(j) /\ Needs(j.to) \subseteq Needs(j.from) \cup DOMAIN j.sets \cup DOMAIN j.then
          /\ j.from = "pc_title" => j.to = "pc_pick" /\ DOMAIN j.then = {}
          /\ ~ torn => j.from = state
      BY <2>4, RecordsDiffer DEF Opens, FitsNext, FitsButton, JobsFit, OneAtATime, Busy
    <3>. QED  BY <1>c, <2>1, <2>4, <3>1 DEF DraftsFit, Has, CallsTypeOK
  <2>. QED  BY <2>2, <2>3, <2>4
<1>9. RowsFit'
  <2>1. Carriers' \subseteq Carriers /\ Creators' \subseteq Creators
    BY AfterProceed DEF Carriers, Creators, Busy, CallsTypeOK
  <2>. QED
    BY <2>1, FewerRows DEF JobsFit
<1>10. ButtonsFit'
  <2> DEFINE j == job[h]
  <2>1. overlaps = 0 => Busy = {h} /\ Busy' \subseteq {h} /\ snap[h] = data /\ j.from \in {"any", state}
    BY AfterProceed DEF Busy, OneAtATime, CallsTypeOK
  <2>2. CASE j.to = "stay"
    BY <1>a, <1>c, <2>1, <2>2, AfterProceed, RecordsDiffer
    DEF ButtonsFit, Agrees, Drawable, TypeIs, PayloadIs, CallsTypeOK, FitsNext
  <2>3. CASE j.to # "stay" /\ DOMAIN j.sets \cap {"btn_type", "payload"} = {}
    <3>1. j.from \notin {"mb_type", "mb_url", "mb_username"} /\ j.then = Nothing
      BY <1>a, <2>3 DEF FitsButton
    <3>2. j.from # "mb_prefilled"
      BY <2>3 DEF FitsButton, JobsFit
    <3>3. j.to \notin {"mb_url", "mb_username", "mb_prefilled", "mb_place"}
      BY <1>a, <3>1, <3>2 DEF FitsButton
    <3>. QED
      BY <1>c, <2>1, <2>3, <3>1, <3>3
      DEF ButtonsFit, Agrees, Drawable, TypeIs, PayloadIs, CallsTypeOK
  <2>4. CASE j.to # "stay" /\ DOMAIN j.sets \cap {"btn_type", "payload"} # {}
    <3>1. j.from \in {"mb_type", "mb_url", "mb_username", "mb_prefilled"}
      BY <1>a, <2>4 DEF FitsButton
    <3>2. /\ j.to \in {"mb_url", "mb_username", "mb_prefilled", "mb_place"} /\ j.adds = "none"
          /\ pc'[h] = "move"
      BY <1>a, <3>1 DEF FitsButton, FitsRow, CallsTypeOK
    <3>. QED
      BY <1>c, <2>1, <3>2
      DEF ButtonsFit, Agrees, Drawable, TypeIs, PayloadIs, ButtonTypes, FitsButton, JobsFit
  <2>. QED  BY <2>2, <2>3, <2>4
<1>. QED  BY <1>1, <1>2, <1>3, <1>4, <1>5, <1>6, <1>7, <1>8, <1>9, <1>10

(* The next state needs what the step has given.                           *)
LEMMA MoveGood == ASSUME IInv, NEW h \in Calls, Move(h) PROVE IInv'
<1> USE NamesAreFree
    DEF IInv, TypeOK, fsm, channels, gates, call, events, counters, Move, Goto
<1>a. /\ Fits(job[h]) /\ IsJob(job[h]) /\ FitsNext(job[h]) /\ FitsRow(job[h]) /\ FitsButton(job[h])
      /\ IsData(snap[h]) /\ IsData(data) /\ IsData(Nothing)
  BY JobsAreFit, DataOfSteps DEF Fits, CallsTypeOK, FsmTypeOK
<1>b. Proceed(h)
  OBVIOUS
<1>1. CountsTypeOK' /\ RowsTypeOK' /\ RequirementsAreCheckable' /\ TierIsOfItsBot'
  BY DEF CountsTypeOK, Spent, RowsTypeOK, RequirementsAreCheckable, TierIsOfItsBot
<1>2. FsmTypeOK'
  BY <1>a DEF FsmTypeOK, IsJob, JobsFit
<1>3. CallsTypeOK'
  BY AfterProceed DEF CallsTypeOK, Fits
<1>4. JobsFit'
  BY AfterProceed DEF JobsFit, Fits
<1>5. GatesFit'
  BY AfterProceed DEF RowsTypeOK, GatesFit
<1>6. OneAtATime'
  BY AfterProceed DEF OneAtATime, Busy
<1>7. PicksFit'
  BY AfterProceed DEF PicksFit, FitsButton, JobsFit
<1>8. DraftsFit'
  BY <1>a, <1>b, AfterProceed, RecordsDiffer, NeedsOfStates
  DEF CallsTypeOK, DraftsFit, Has, OneAtATime, Busy, Opens, FitsNext
<1>9. RowsFit'
  <2>1. Carriers' \subseteq Carriers /\ Creators' \subseteq Creators
    BY AfterProceed DEF Carriers, Creators, Busy
  <2>. QED
    BY <2>1, FewerRows DEF Carriers, Busy, Opens, JobsFit
<1>10. ButtonsFit'
  BY AfterProceed DEF CallsTypeOK, ButtonsFit, OneAtATime, Busy
<1>. QED  BY <1>1, <1>2, <1>3, <1>4, <1>5, <1>6, <1>7, <1>8, <1>9, <1>10

(* The bot of the wizard is read again.                                    *)
LEMMA LookGood == ASSUME IInv, NEW h \in Calls, Look(h) PROVE IInv'
<1> USE NamesAreFree
    DEF IInv, TypeOK, fsm, channels, gates, call, events, counters, Look, Goto
<1>a. /\ Fits(job[h]) /\ IsJob(job[h]) /\ FitsNext(job[h]) /\ FitsRow(job[h]) /\ FitsButton(job[h])
      /\ IsData(snap[h]) /\ IsData(data) /\ IsData(Nothing)
  BY JobsAreFit, DataOfSteps DEF Fits, CallsTypeOK, FsmTypeOK
<1>1. FsmTypeOK' /\ CountsTypeOK' /\ RowsTypeOK' /\ RequirementsAreCheckable' /\ TierIsOfItsBot'
  BY DEF FsmTypeOK, CountsTypeOK, Spent, RowsTypeOK, RequirementsAreCheckable, TierIsOfItsBot
<1>2. CallsTypeOK'
  BY DEF CallsTypeOK, Busy, FsmTypeOK
<1>3. JobsFit'
  BY DEF CallsTypeOK, JobsFit, FitsButton
<1>4. GatesFit'
  BY DEF CallsTypeOK, RowsTypeOK, GatesFit
<1>5. OneAtATime'
  BY DEF CallsTypeOK, OneAtATime, Busy
<1>6. PicksFit'
  BY DEF PicksFit, Busy, Opens
<1>7. DraftsFit'
  BY DEF DraftsFit, Has, Busy, JobsFit, FitsButton
<1>8. RowsFit'
  <2>1. Carriers' \subseteq Carriers /\ Creators' \subseteq Creators
    BY DEF Carriers, Creators, Busy
  <2>. QED
    BY <2>1, FewerRows DEF JobsFit
<1>9. ButtonsFit'
  BY DEF ButtonsFit, Agrees, Busy, JobsFit, FitsButton
<1>. QED  BY <1>1, <1>2, <1>3, <1>4, <1>5, <1>6, <1>7, <1>8, <1>9

(* The keyboard shows channels of the bot the wizard is for.               *)
LEMMA OfferChannelsGood == ASSUME IInv, NEW h \in Calls, OfferChannels(h) PROVE IInv'
<1> USE NamesAreFree
    DEF IInv, TypeOK, fsm, channels, gates, call, events, counters, OfferChannels, Goto
<1>a. /\ Fits(job[h]) /\ IsJob(job[h]) /\ FitsNext(job[h]) /\ FitsRow(job[h]) /\ FitsButton(job[h])
      /\ IsData(snap[h]) /\ IsData(data) /\ IsData(Nothing)
  BY JobsAreFit, DataOfSteps DEF Fits, CallsTypeOK, FsmTypeOK
<1>1. CountsTypeOK' /\ RequirementsAreCheckable' /\ TierIsOfItsBot'
  BY DEF CountsTypeOK, Spent, RequirementsAreCheckable, TierIsOfItsBot
<1>2. FsmTypeOK'
  BY <1>a DEF FsmTypeOK, IsJob, JobsFit
<1>3. RowsTypeOK'
  BY AfterProceed DEF RowsTypeOK, Available
<1>4. CallsTypeOK'
  BY AfterProceed DEF CallsTypeOK, Busy, Fits
<1>5. JobsFit'
  BY AfterProceed DEF CallsTypeOK, JobsFit, Fits
<1>6. GatesFit'
  BY AfterProceed DEF GatesFit, Available
<1>7. OneAtATime'
  BY AfterProceed DEF CallsTypeOK, OneAtATime, Busy
<1>8. PicksFit'
  BY AfterProceed DEF CallsTypeOK, PicksFit, OneAtATime, Busy, Available, JobsFit, FitsNext
<1>9. DraftsFit'
  BY AfterProceed, RecordsDiffer
  DEF CallsTypeOK, DraftsFit, Has, OneAtATime, Busy, Opens, FitsNext
<1>10. RowsFit'
  <2>1. Carriers' \subseteq Carriers /\ Creators' \subseteq Creators
    BY AfterProceed DEF Carriers, Creators, Busy, CallsTypeOK
  <2>. QED
    BY <2>1, FewerRows DEF Carriers, Busy
<1>11. ButtonsFit'
  BY AfterProceed DEF CallsTypeOK, ButtonsFit, OneAtATime, Busy, JobsFit, FitsNext
<1>. QED  BY <1>1, <1>2, <1>3, <1>4, <1>5, <1>6, <1>7, <1>8, <1>9, <1>10, <1>11

(* The handler has its row in hand and no state is left that could make    *)
(* another.                                                                *)
LEMMA ClearGood == ASSUME IInv, NEW h \in Calls, Clear(h) PROVE IInv'
<1> USE NamesAreFree
    DEF IInv, TypeOK, fsm, channels, gates, call, events, counters, Clear, Goto
<1>a. /\ Fits(job[h]) /\ IsJob(job[h]) /\ FitsNext(job[h]) /\ FitsRow(job[h]) /\ FitsButton(job[h])
      /\ IsData(snap[h]) /\ IsData(data) /\ IsData(Nothing)
  BY JobsAreFit, DataOfSteps DEF Fits, CallsTypeOK, FsmTypeOK
<1>1. CountsTypeOK' /\ RowsTypeOK' /\ RequirementsAreCheckable' /\ TierIsOfItsBot'
  BY DEF CountsTypeOK, Spent, RowsTypeOK, RequirementsAreCheckable, TierIsOfItsBot
<1>2. FsmTypeOK'
  BY <1>a DEF FsmTypeOK, States
<1>3. CallsTypeOK'
  BY DEF CallsTypeOK, Busy, FsmTypeOK
<1>4. JobsFit'
  BY DEF CallsTypeOK, JobsFit, Fits
<1>5. GatesFit'
  BY DEF CallsTypeOK, RowsTypeOK, GatesFit
<1>6. OneAtATime'
  BY DEF CallsTypeOK, OneAtATime, Busy
<1>7. PicksFit'
  BY DEF PicksFit, Busy, Opens
<1>8. DraftsFit'
  BY DEF CallsTypeOK, DraftsFit, OneAtATime, Busy
<1>9. RowsFit'
  <2>1. /\ Carriers' \subseteq Carriers \ {h} /\ Creators' \subseteq Creators \cup {h}
        /\ Creates(job[h]) => h \in Carriers
        /\ ~ Creates(job[h]) => Creators' \subseteq Creators
    BY DEF Carriers, Creators, Creates, Busy, CallsTypeOK, JobsFit, FitsNext
  <2>2. CASE Creates(job[h])
    <3>1. Cardinality(Carriers') <= Cardinality(Carriers) - 1
      <4>1. IsFiniteSet(Carriers \ {h}) /\ Cardinality(Carriers \ {h}) = Cardinality(Carriers) - 1
        BY <2>1, <2>2, CallsAreCounted, FS_RemoveElement
      <4>. QED  BY <2>1, <4>1, FS_Subset
    <3>2. Cardinality(Creators') <= Cardinality(Creators) + 1
      <4>1. /\ IsFiniteSet(Creators \cup {h})
            /\ Cardinality(Creators \cup {h}) <= Cardinality(Creators) + 1
            /\ Cardinality(Creators \cup {h}) \in Nat
        <5>1. IsFiniteSet(Creators) /\ Cardinality(Creators) \in Nat
          BY CallsAreCounted
        <5> HIDE DEF Clear
        <5>. QED  BY <5>1, FS_AddElement
      <4>2. Cardinality(Creators') <= Cardinality(Creators \cup {h}) /\ Cardinality(Creators') \in Nat
        BY <2>1, <4>1, FS_Subset, FS_CardinalityType
      <4>. QED  BY <4>1, <4>2, CallsAreCounted
    <3>3. Cardinality(Carriers') \in Nat /\ Cardinality(Creators') \in Nat
      BY <2>1, CallsAreCounted, FS_Subset, FS_CardinalityType, FS_AddElement
    <3>. QED  BY <3>1, <3>2, <3>3, CallsAreCounted DEF RowsFit, CountsTypeOK
  <2>3. CASE ~ Creates(job[h])
    BY <2>1, <2>3, FewerRows
  <2>. QED  BY <2>2, <2>3
<1>10. ButtonsFit'
  BY DEF ButtonsFit, OneAtATime, Agrees, Busy, JobsFit
<1>. QED  BY <1>1, <1>2, <1>3, <1>4, <1>5, <1>6, <1>7, <1>8, <1>9, <1>10

(* With the dictionary empty and no state set, the FSM is whole again.     *)
LEMMA WipeGood == ASSUME IInv, NEW h \in Calls, Wipe(h) PROVE IInv'
<1> USE NamesAreFree
    DEF IInv, TypeOK, fsm, channels, gates, call, events, counters, Wipe, Goto
<1>a. /\ Fits(job[h]) /\ IsJob(job[h]) /\ FitsNext(job[h]) /\ FitsRow(job[h]) /\ FitsButton(job[h])
      /\ IsData(snap[h]) /\ IsData(data) /\ IsData(Nothing)
  BY JobsAreFit, DataOfSteps DEF Fits, CallsTypeOK, FsmTypeOK
<1>1. CountsTypeOK' /\ RowsTypeOK' /\ RequirementsAreCheckable' /\ TierIsOfItsBot'
  BY DEF CountsTypeOK, Spent, RowsTypeOK, RequirementsAreCheckable, TierIsOfItsBot
<1>2. FsmTypeOK'
  BY <1>a, AfterProceed DEF FsmTypeOK
<1>3. CallsTypeOK'
  BY AfterProceed DEF CallsTypeOK, Busy, Fits
<1>4. JobsFit'
  BY AfterProceed DEF CallsTypeOK, JobsFit, Fits
<1>5. GatesFit'
  BY AfterProceed DEF RowsTypeOK, GatesFit
<1>6. OneAtATime'
  BY AfterProceed DEF CallsTypeOK, FsmTypeOK, OneAtATime, Busy
<1>7. PicksFit'
  <2>1. ~ torn' => state = "none" /\ Busy' \subseteq {h} /\ UNCHANGED state
    BY <1>a, AfterProceed, Alone DEF Busy, OneAtATime, CallsTypeOK
  <2>2. \A k \in Calls : job'[k].adds = "tier" =>
            job'[k] = job[k] /\ snap'[k] = snap[k] /\ (k = h => pc[k] = "wipe") /\ (k # h => pc'[k] = pc[k])
    BY <1>a, AfterProceed DEF CallsTypeOK
  <2>3. \A k \in Calls \ doubtful' : job'[k].adds = "tier" => k \notin doubtful
    BY <2>2, AfterProceed
  <2>. QED  BY <2>1, <2>2, <2>3 DEF PicksFit
<1>8. DraftsFit'
  <2>1. ~ torn' => state = "none" /\ Busy' \subseteq {h} /\ UNCHANGED state
    BY <1>a, AfterProceed, Alone DEF Busy, OneAtATime, CallsTypeOK
  <2>2. pc'[h] \in {"idle", "commit"}
    BY <1>a, AfterProceed DEF CallsTypeOK
  <2>. QED  BY <2>1, <2>2, NeedsOfStates DEF DraftsFit, Has
<1>9. RowsFit'
  <2>1. Carriers' \subseteq Carriers /\ Creators' \subseteq Creators
    BY AfterProceed DEF Carriers, Creators, Busy, CallsTypeOK
  <2>. QED
    BY <2>1, FewerRows DEF JobsFit
<1>10. ButtonsFit'
  BY AfterProceed DEF CallsTypeOK, ButtonsFit, OneAtATime, Agrees, Busy
<1>. QED  BY <1>1, <1>2, <1>3, <1>4, <1>5, <1>6, <1>7, <1>8, <1>9, <1>10

(* The row is built from the snapshot, whose keys fit together.            *)
LEMMA CommitGood == ASSUME IInv, NEW h \in Calls, Commit(h) PROVE IInv'
<1> USE NamesAreFree
    DEF IInv, TypeOK, fsm, channels, gates, call, events, counters, Commit, Goto, AddBroadcast,
        AddButton, AddChannel, AddTier,
        EditConfig, Creates
<1>a. /\ Fits(job[h]) /\ IsJob(job[h]) /\ FitsNext(job[h]) /\ FitsRow(job[h]) /\ FitsButton(job[h])
      /\ IsData(snap[h]) /\ IsData(data) /\ IsData(Nothing)
  BY JobsAreFit, DataOfSteps DEF Fits, CallsTypeOK, FsmTypeOK
<1>b. Proceed(h)
  OBVIOUS
<1>c. /\ job[h].adds \in {"channel", "tier"} => "target" \in DOMAIN snap[h] /\ snap[h].target \in Bots
      /\ job[h].adds = "channel" => snap[h].channel_type \in {"private", "public"}
      /\ job[h].adds = "button" => snap[h].btn_type \in ButtonTypes /\ snap[h].payload \in ButtonTypes
  BY <1>a DEF JobsFit, FitsRow, IsData, Values
<1>d. job[h].adds = "tier" <=> job[h].pick # NoChannel
  BY <1>a DEF FitsRow
<1>e. /\ pc[h] = "commit" /\ UNCHANGED <<fsm, offered, latest, toggles, torn, events>>
      /\ AddBroadcast(h) \/ AddButton(h) \/ AddChannel(h) \/ AddTier(h) \/ EditConfig(h)
  OBVIOUS
<1>1. FsmTypeOK'
  BY <1>d, AfterProceed DEF FsmTypeOK
<1>2. RowsTypeOK'
  <2> HIDE DEF Commit, AddBroadcast, AddButton, AddChannel, AddTier, EditConfig
  <2>1. CASE AddBroadcast(h) \/ EditConfig(h)
    BY <1>e, <2>1 DEF RowsTypeOK, AddBroadcast, EditConfig
  <2>2. CASE AddButton(h)
    BY <1>c, <1>e, <2>2 DEF RowsTypeOK, AddButton
  <2>3. CASE AddChannel(h)
    BY <1>c, <1>e, <2>3 DEF RowsTypeOK, AddChannel
  <2>4. CASE AddTier(h)
    BY <1>c, <1>e, <2>4 DEF RowsTypeOK, AddTier
  <2>. QED  BY <1>e, <2>1, <2>2, <2>3, <2>4
<1>3. CallsTypeOK'
  BY AfterProceed DEF CallsTypeOK, Fits
<1>4. CountsTypeOK'
  BY AfterProceed DEF CountsTypeOK, Spent
<1>5. JobsFit'
  BY AfterProceed DEF JobsFit, Fits
<1>6. GatesFit'
  <2> HIDE DEF Commit, AddBroadcast, AddButton, AddChannel, AddTier, EditConfig
  <2>1. CASE AddBroadcast(h) \/ EditConfig(h)
    BY <1>b, <1>e, <2>1, AfterProceed DEF GatesFit, AddBroadcast, EditConfig
  <2>2. CASE AddButton(h)
    BY <1>b, <1>e, <2>2, AfterProceed DEF GatesFit, AddButton
  <2>3. CASE AddChannel(h)
    BY <1>b, <1>c, <1>e, <2>3, AfterProceed DEF RowsTypeOK, GatesFit, AddChannel
  <2>4. CASE AddTier(h)
    BY <1>b, <1>e, <2>4, AfterProceed DEF RowsTypeOK, GatesFit, AddTier
  <2>. QED  BY <1>e, <2>1, <2>2, <2>3, <2>4
<1>7. OneAtATime'
  BY AfterProceed DEF OneAtATime, Busy
<1>8. RequirementsAreCheckable'
  BY DEF RowsTypeOK, RequirementsAreCheckable, GatesFit
<1>9. TierIsOfItsBot'
  <2> HIDE DEF Commit, AddBroadcast, AddButton, AddChannel, AddTier, EditConfig
  <2>1. CASE AddBroadcast(h) \/ EditConfig(h)
    BY <2>1 DEF TierIsOfItsBot, AddBroadcast, EditConfig
  <2>2. CASE AddButton(h)
    BY <2>2 DEF TierIsOfItsBot, AddButton
  <2>3. CASE AddChannel(h)
    BY <2>3 DEF TierIsOfItsBot, GatesFit, AddChannel
  <2>4. CASE AddTier(h)
    BY <1>e, <2>4 DEF RowsTypeOK, TierIsOfItsBot, PicksFit, AddTier
  <2>. QED  BY <1>e, <2>1, <2>2, <2>3, <2>4
<1>10. PicksFit'
  <2> HIDE DEF Commit, AddBroadcast, AddButton, AddChannel, AddTier, EditConfig
  <2>1. CASE AddBroadcast(h) \/ EditConfig(h)
    BY <1>b, <1>e, <2>1, AfterProceed DEF PicksFit, Busy, AddBroadcast, EditConfig
  <2>2. CASE AddButton(h)
    BY <1>b, <1>e, <2>2, AfterProceed DEF PicksFit, Busy, AddButton
  <2>3. CASE AddChannel(h)
    BY <1>b, <1>e, <2>3, AfterProceed DEF GatesFit, PicksFit, OneAtATime, Busy, AddChannel
  <2>4. CASE AddTier(h)
    BY <1>b, <1>e, <2>4, AfterProceed DEF PicksFit, Busy, AddTier
  <2>. QED  BY <1>e, <2>1, <2>2, <2>3, <2>4
<1>11. DraftsFit'
  BY <1>a, <1>b, <1>c, <1>d, AfterProceed, NeedsOfStates
  DEF CallsTypeOK, DraftsFit, Has, OneAtATime, Busy, Opens
<1>12. RowsFit'
  <2>1. /\ Carriers' \subseteq Carriers /\ Creators' \subseteq Creators
        /\ Creates(job[h]) => h \in Creators /\ h \notin Creators'
    BY AfterProceed DEF Carriers, Creators, Busy
  <2>2. CASE Creates(job[h])
    <3>1. Creators' \subseteq Creators \ {h}
      BY <2>1, <2>2
    <3>2. Cardinality(Creators') <= Cardinality(Creators) - 1 /\ Cardinality(Creators') \in Nat
      BY <2>1, <2>2, CallsAreCounted, FS_Subset, FS_CardinalityType
    <3>3. Cardinality(Carriers') <= Cardinality(Carriers) /\ Cardinality(Carriers') \in Nat
      BY <2>1, CallsAreCounted, FS_Subset, FS_CardinalityType
    <3>4. made' = made + 1
      BY <2>2
    <3>5. opened' = opened /\ overlaps' = overlaps /\ state' = state
      OBVIOUS
    <3> HIDE DEF Commit, Creates
    <3>. QED  BY <3>2, <3>3, <3>4, <3>5, CallsAreCounted DEF RowsFit, CountsTypeOK
  <2>3. CASE ~ Creates(job[h])
    BY <2>1, <2>3, FewerRows
  <2>. QED  BY <2>2, <2>3
<1>13. ButtonsFit'
  <2> HIDE DEF Commit, AddBroadcast, AddButton, AddChannel, AddTier, EditConfig
  <2>1. CASE AddBroadcast(h) \/ EditConfig(h)
    BY <1>b, <1>e, <2>1, AfterProceed DEF ButtonsFit, Busy, AddBroadcast, EditConfig
  <2>2. CASE AddButton(h)
    BY <1>b, <1>e, <2>2, AfterProceed DEF ButtonsFit, Busy, Drawable, TypeIs, PayloadIs, AddButton
  <2>3. CASE AddChannel(h)
    BY <1>b, <1>e, <2>3, AfterProceed DEF ButtonsFit, Busy, AddChannel
  <2>4. CASE AddTier(h)
    BY <1>b, <1>e, <2>4, AfterProceed DEF ButtonsFit, Busy, AddTier
  <2>. QED  BY <1>e, <2>1, <2>2, <2>3, <2>4
<1>. QED  BY <1>1, <1>2, <1>3, <1>4, <1>5, <1>6, <1>7, <1>8, <1>9, <1>10, <1>11, <1>12, <1>13

(* The handler is over; nothing else changes.                              *)
LEMMA CommitFailsGood == ASSUME IInv, NEW h \in Calls, CommitFails(h) PROVE IInv'
<1> USE NamesAreFree
    DEF IInv, TypeOK, fsm, channels, gates, call, events, counters, CommitFails, Goto
<1>a. /\ Fits(job[h]) /\ IsJob(job[h]) /\ FitsNext(job[h]) /\ FitsRow(job[h]) /\ FitsButton(job[h])
      /\ IsData(snap[h]) /\ IsData(data) /\ IsData(Nothing)
  BY JobsAreFit, DataOfSteps DEF Fits, CallsTypeOK, FsmTypeOK
<1>b. Proceed(h)
  OBVIOUS
<1>1. FsmTypeOK' /\ CountsTypeOK' /\ RowsTypeOK' /\ RequirementsAreCheckable' /\ TierIsOfItsBot'
  BY DEF FsmTypeOK, CountsTypeOK, Spent, RowsTypeOK, RequirementsAreCheckable, TierIsOfItsBot
<1>2. CallsTypeOK'
  BY AfterProceed DEF CallsTypeOK, Fits
<1>3. JobsFit'
  BY AfterProceed DEF JobsFit, Fits
<1>4. GatesFit'
  BY AfterProceed DEF RowsTypeOK, GatesFit
<1>5. OneAtATime'
  BY AfterProceed DEF OneAtATime, Busy
<1>6. PicksFit'
  BY AfterProceed DEF PicksFit, Busy
<1>7. DraftsFit'
  BY AfterProceed, NeedsOfStates DEF CallsTypeOK, DraftsFit, Has, OneAtATime, Busy
<1>8. RowsFit'
  <2>1. Carriers' \subseteq Carriers /\ Creators' \subseteq Creators
    BY AfterProceed DEF Carriers, Creators, Busy
  <2>. QED
    BY <2>1, FewerRows DEF JobsFit
<1>9. ButtonsFit'
  BY AfterProceed DEF ButtonsFit, Busy
<1>. QED  BY <1>1, <1>2, <1>3, <1>4, <1>5, <1>6, <1>7, <1>8, <1>9

(* What was written stays; the cut is remembered where state and           *)
(* dictionary may differ.                                                  *)
LEMMA AbortGood == ASSUME IInv, NEW h \in Calls, Abort(h) PROVE IInv'
<1> USE NamesAreFree
    DEF IInv, TypeOK, fsm, channels, gates, call, events, counters, Abort, Goto, SpendOne
<1>a. /\ Fits(job[h]) /\ IsJob(job[h]) /\ FitsNext(job[h]) /\ FitsRow(job[h]) /\ FitsButton(job[h])
      /\ IsData(snap[h]) /\ IsData(data) /\ IsData(Nothing)
  BY JobsAreFit, DataOfSteps DEF Fits, CallsTypeOK, FsmTypeOK
<1>b. /\ job'[h] = Idle /\ pc'[h] = "idle" /\ snap'[h] = Nothing
      /\ \A k \in Calls \ {h} : job'[k] = job[k] /\ pc'[k] = pc[k] /\ snap'[k] = snap[k]
  BY DEF CallsTypeOK
<1>1. RowsTypeOK' /\ RequirementsAreCheckable' /\ TierIsOfItsBot'
  BY DEF RowsTypeOK, RequirementsAreCheckable, TierIsOfItsBot
<1>2. FsmTypeOK'
  BY <1>b, IdleIs DEF FsmTypeOK
<1>3. CallsTypeOK'
  BY <1>a, IdleIs DEF CallsTypeOK, Busy, Fits
<1>4. CountsTypeOK'
  BY BoundsAreNumbers DEF CountsTypeOK, Spent
<1>5. JobsFit'
  BY IdleIs DEF CallsTypeOK, JobsFit, Fits
<1>6. GatesFit'
  BY IdleIs DEF RowsTypeOK, GatesFit
<1>7. OneAtATime'
  BY DEF CallsTypeOK, OneAtATime, Busy
<1>8. PicksFit'
  BY DEF CallsTypeOK, PicksFit, Busy
<1>9. DraftsFit'
  BY NeedsOfStates, RecordsDiffer
  DEF CallsTypeOK, DraftsFit, Has, OneAtATime, Busy, FitsNext, JobsFit
<1>10. RowsFit'
  <2>1. Carriers' \subseteq Carriers /\ Creators' \subseteq Creators
    BY DEF Carriers, Creators, Busy, CallsTypeOK
  <2>. QED
    BY <2>1, FewerRows DEF JobsFit
<1>11. ButtonsFit'
  BY DEF CallsTypeOK, ButtonsFit, Busy
<1>. QED  BY <1>1, <1>2, <1>3, <1>4, <1>5, <1>6, <1>7, <1>8, <1>9, <1>10, <1>11

-----------------------------------------------------------------------------
(* Callbacks without FSM. *)

(* A step that leaves the FSM and the handlers alone keeps what fits.      *)
LEMMA CallsKeep ==
    ASSUME IInv, UNCHANGED <<fsm, torn, call, made, opened, overlaps>>
    PROVE  FsmTypeOK' /\ CallsTypeOK' /\ JobsFit' /\ OneAtATime' /\ DraftsFit' /\ RowsFit'
<1> USE DEF IInv, TypeOK, fsm, call
<1>1. FsmTypeOK' /\ CallsTypeOK' /\ JobsFit'
  BY DEF FsmTypeOK, CallsTypeOK, JobsFit, Busy
<1>2. OneAtATime' /\ DraftsFit'
  BY DEF OneAtATime, DraftsFit, Has, Busy
<1>3. Carriers' = Carriers /\ Creators' = Creators
  BY DEF Carriers, Creators, Busy
<1>. QED  BY <1>1, <1>2, <1>3 DEF RowsFit

(* Tiers and requirements of the channel go with it.                       *)
LEMMA DeleteChannelGood == ASSUME IInv, NEW c \in Channels, DeleteChannel(c) PROVE IInv'
<1> USE NamesAreFree
    DEF IInv, TypeOK, fsm, channels, gates, call, events, counters, DeleteChannel, SpendOne,
        CutOff
<1>1. FsmTypeOK' /\ CallsTypeOK' /\ JobsFit' /\ OneAtATime' /\ DraftsFit' /\ RowsFit'
  BY CallsKeep
<1>2. RowsTypeOK'
  BY DEF RowsTypeOK
<1>3. CountsTypeOK'
  BY BoundsAreNumbers DEF CountsTypeOK, Spent
<1>4. GatesFit'
  BY DEF CallsTypeOK, RowsTypeOK, GatesFit
<1>5. RequirementsAreCheckable'
  BY DEF RowsTypeOK, RequirementsAreCheckable, GatesFit
<1>6. TierIsOfItsBot'
  BY DEF RowsTypeOK, TierIsOfItsBot
<1>7. PicksFit'
  BY DEF PicksFit, Busy, Opens
<1>8. ButtonsFit'
  BY DEF ButtonsFit, Busy, FitsNext
<1>. QED  BY <1>1, <1>2, <1>3, <1>4, <1>5, <1>6, <1>7, <1>8

(* Requirements and toggles of the tier go with it.                        *)
LEMMA DeleteTierGood == ASSUME IInv, NEW c \in Channels, DeleteTier(c) PROVE IInv'
<1> USE NamesAreFree
    DEF IInv, TypeOK, fsm, channels, gates, call, events, counters, DeleteTier, SpendOne
<1>1. FsmTypeOK' /\ CallsTypeOK' /\ JobsFit' /\ OneAtATime' /\ DraftsFit' /\ RowsFit'
  BY CallsKeep
<1>2. RowsTypeOK'
  BY DEF RowsTypeOK
<1>3. CountsTypeOK'
  BY BoundsAreNumbers DEF CountsTypeOK, Spent
<1>4. GatesFit'
  BY DEF CallsTypeOK, RowsTypeOK, GatesFit
<1>5. RequirementsAreCheckable'
  BY DEF RowsTypeOK, RequirementsAreCheckable, GatesFit
<1>6. TierIsOfItsBot'
  BY DEF RowsTypeOK, TierIsOfItsBot
<1>7. PicksFit'
  BY DEF PicksFit, Busy, Opens
<1>8. ButtonsFit'
  BY DEF ButtonsFit, Busy, FitsNext
<1>. QED  BY <1>1, <1>2, <1>3, <1>4, <1>5, <1>6, <1>7, <1>8

(* One button less.                                                        *)
LEMMA DeleteButtonGood == ASSUME IInv, NEW b \in buttons, DeleteButton(b) PROVE IInv'
<1> USE NamesAreFree
    DEF IInv, TypeOK, fsm, channels, gates, call, events, counters, DeleteButton, SpendOne
<1>1. FsmTypeOK' /\ CallsTypeOK' /\ JobsFit' /\ OneAtATime' /\ DraftsFit' /\ RowsFit'
  BY CallsKeep
<1>2. RowsTypeOK'
  BY DEF RowsTypeOK
<1>3. CountsTypeOK'
  BY BoundsAreNumbers DEF CountsTypeOK, Spent
<1>4. GatesFit'
  BY DEF CallsTypeOK, RowsTypeOK, GatesFit
<1>5. RequirementsAreCheckable'
  BY DEF RowsTypeOK, RequirementsAreCheckable, GatesFit
<1>6. TierIsOfItsBot'
  BY DEF RowsTypeOK, TierIsOfItsBot
<1>7. PicksFit'
  BY DEF PicksFit, Busy, Opens
<1>8. ButtonsFit'
  BY DEF ButtonsFit, Busy, FitsNext
<1>. QED  BY <1>1, <1>2, <1>3, <1>4, <1>5, <1>6, <1>7, <1>8

(* A toggle is about a listed channel.                                     *)
LEMMA ReadRequirementGood ==
    ASSUME IInv, NEW c \in Channels, NEW d \in Channels, ReadRequirement(c, d)
    PROVE  IInv'
<1> USE NamesAreFree
    DEF IInv, TypeOK, fsm, channels, gates, call, events, counters, ReadRequirement,
        Listed
<1>1. FsmTypeOK' /\ CallsTypeOK' /\ JobsFit' /\ OneAtATime' /\ DraftsFit' /\ RowsFit'
  BY CallsKeep
<1>2. RowsTypeOK'
  <2>1. (<<c, d>> \notin required) \in BOOLEAN
    BY Zenon
  <2> DEFINE b == <<c, d>> \notin required
  <2>2. toggles' = toggles \cup {[tier |-> c, channel |-> d, adds |-> b]} /\ b \in BOOLEAN /\ c \in tiers /\ d \in live
    BY <2>1
  <2> HIDE DEF b, ReadRequirement
  <2>3. toggles' \subseteq [tier : tiers, channel : live, adds : BOOLEAN]
    BY <2>2 DEF RowsTypeOK
  <2>4. UNCHANGED <<channels, gates, buttons, offered, latest>>
    BY DEF ReadRequirement
  <2>. QED  BY <2>3, <2>4 DEF RowsTypeOK
<1>3. CountsTypeOK'
  BY DEF CountsTypeOK, Spent
<1>4. GatesFit'
  BY DEF CallsTypeOK, RowsTypeOK, GatesFit
<1>5. RequirementsAreCheckable'
  BY DEF RowsTypeOK, RequirementsAreCheckable, GatesFit
<1>6. TierIsOfItsBot'
  BY DEF RowsTypeOK, TierIsOfItsBot
<1>7. PicksFit'
  BY DEF PicksFit, Busy, Opens
<1>8. ButtonsFit'
  BY DEF ButtonsFit, Busy, FitsNext
<1>. QED  BY <1>1, <1>2, <1>3, <1>4, <1>5, <1>6, <1>7, <1>8

(* What a toggle adds was listed, and still is.                            *)
LEMMA WriteRequirementGood == ASSUME IInv, NEW t \in toggles, WriteRequirement(t) PROVE IInv'
<1> USE NamesAreFree
    DEF IInv, TypeOK, fsm, channels, gates, call, events, counters, WriteRequirement
<1>1. FsmTypeOK' /\ CallsTypeOK' /\ JobsFit' /\ OneAtATime' /\ DraftsFit' /\ RowsFit'
  BY CallsKeep
<1>2. RowsTypeOK'
  BY DEF RowsTypeOK
<1>3. CountsTypeOK'
  BY DEF CountsTypeOK, Spent
<1>4. GatesFit'
  BY DEF CallsTypeOK, RowsTypeOK, GatesFit
<1>5. RequirementsAreCheckable'
  BY DEF RowsTypeOK, RequirementsAreCheckable, GatesFit
<1>6. TierIsOfItsBot'
  BY DEF RowsTypeOK, TierIsOfItsBot
<1>7. PicksFit'
  BY DEF PicksFit, Busy, Opens
<1>8. ButtonsFit'
  BY DEF ButtonsFit, Busy, FitsNext
<1>. QED  BY <1>1, <1>2, <1>3, <1>4, <1>5, <1>6, <1>7, <1>8

(* One toggle less.                                                        *)
LEMMA DropRequirementGood == ASSUME IInv, NEW t \in toggles, DropRequirement(t) PROVE IInv'
<1> USE NamesAreFree
    DEF IInv, TypeOK, fsm, channels, gates, call, events, counters, DropRequirement
<1>1. FsmTypeOK' /\ CallsTypeOK' /\ JobsFit' /\ OneAtATime' /\ DraftsFit' /\ RowsFit'
  BY CallsKeep
<1>2. RowsTypeOK'
  BY DEF RowsTypeOK
<1>3. CountsTypeOK'
  BY DEF CountsTypeOK, Spent
<1>4. GatesFit'
  BY DEF CallsTypeOK, RowsTypeOK, GatesFit
<1>5. RequirementsAreCheckable'
  BY DEF RowsTypeOK, RequirementsAreCheckable, GatesFit
<1>6. TierIsOfItsBot'
  BY DEF RowsTypeOK, TierIsOfItsBot
<1>7. PicksFit'
  BY DEF PicksFit, Busy, Opens
<1>8. ButtonsFit'
  BY DEF ButtonsFit, Busy, FitsNext
<1>. QED  BY <1>1, <1>2, <1>3, <1>4, <1>5, <1>6, <1>7, <1>8

-----------------------------------------------------------------------------
(* The invariant, and what follows from it. *)

(* The initial states. *)
LEMMA InitGood == Init => IInv
<1> SUFFICES ASSUME Init PROVE IInv
  OBVIOUS
<1> USE NamesAreFree DEF Init
<1>1. FsmTypeOK
  BY DataOfSteps DEF FsmTypeOK, States
<1>2. RowsTypeOK
  BY DEF RowsTypeOK
<1>3. CallsTypeOK /\ Busy = {}
  BY IdleIs, DataOfSteps DEF CallsTypeOK, Busy, Fits
<1>4. CountsTypeOK
  BY BoundsAreNumbers DEF CountsTypeOK, Spent
<1>5. JobsFit
  BY IdleIs DEF JobsFit, Fits
<1>6. GatesFit
  BY IdleIs DEF GatesFit
<1>7. OneAtATime /\ RequirementsAreCheckable /\ TierIsOfItsBot
  BY <1>3 DEF OneAtATime, RequirementsAreCheckable, TierIsOfItsBot
<1>8. PicksFit
  BY IdleIs DEF PicksFit
<1>9. DraftsFit
  BY <1>3, NeedsOfStates DEF DraftsFit, Has
<1>10. RowsFit
  <2>1. Carriers = {} /\ Creators = {}
    BY <1>3 DEF Carriers, Creators
  <2>. QED  BY <2>1, FS_EmptySet DEF RowsFit
<1>11. ButtonsFit
  BY <1>3 DEF ButtonsFit, Agrees
<1>. QED
  BY <1>1, <1>2, <1>3, <1>4, <1>5, <1>6, <1>7, <1>8, <1>9, <1>10, <1>11 DEF IInv, TypeOK

(* Nothing changes. *)
LEMMA StutterGood == ASSUME IInv, UNCHANGED vars PROVE IInv'
<1> USE DEF IInv, vars, fsm, channels, gates, call, events, counters
<1>1. TypeOK'
  BY DEF TypeOK, FsmTypeOK, RowsTypeOK, CallsTypeOK, CountsTypeOK, Busy, Spent
<1>2. JobsFit' /\ GatesFit' /\ OneAtATime' /\ RequirementsAreCheckable' /\ TierIsOfItsBot'
  BY DEF JobsFit, GatesFit, OneAtATime, RequirementsAreCheckable, TierIsOfItsBot, Busy
<1>3. PicksFit' /\ DraftsFit'
  BY DEF PicksFit, DraftsFit, Has, Busy
<1>4. RowsFit'
  <2>1. Carriers' = Carriers /\ Creators' = Creators
    BY DEF Carriers, Creators, Busy
  <2>. QED  BY <2>1 DEF RowsFit
<1>5. ButtonsFit'
  BY DEF ButtonsFit, PayloadIs, Busy
<1>. QED  BY <1>1, <1>2, <1>3, <1>4, <1>5

(* Every step keeps the invariant. *)
LEMMA StepGood == IInv /\ [Next]_vars => IInv'
<1> SUFFICES ASSUME IInv, [Next]_vars PROVE IInv'
  OBVIOUS
<1>1. ASSUME NEW h \in Calls, Advance(h) PROVE IInv'
  BY <1>1, FetchGood, FetchFailsGood, RefuseGood, ReadGood, WriteGood, MoveGood, LookGood,
     OfferChannelsGood, ClearGood, WipeGood, CommitGood, CommitFailsGood, AbortGood
  DEF Advance
<1>2. ASSUME NEW h \in Calls, NEW j \in Handlers \cup Picks, Arrive(h, j) PROVE IInv'
  BY <1>2, ArriveGood
<1>3. CASE Catalog
  BY <1>3, DeleteChannelGood, DeleteTierGood, DeleteButtonGood, ReadRequirementGood,
     WriteRequirementGood, DropRequirementGood
  DEF Catalog
<1>4. CASE UNCHANGED vars
  BY <1>4, StutterGood
<1>. QED  BY <1>1, <1>2, <1>3, <1>4 DEF Next

(* The inductive invariant holds: however the admin's updates interleave,  *)
(* overlap and fail, jobs, draft, keyboards and rows fit together.         *)
THEOREM Invariance == Spec => []IInv
BY InitGood, StepGood, PTL DEF Spec

(* Every variable keeps its type: tiers, requirements and toggles refer to *)
(* rows that exist, as the foreign keys of models/channel.py demand.       *)
THEOREM TypeCorrect == Spec => []TypeOK
<1>1. IInv => TypeOK
  BY DEF IInv
<1>. QED  BY <1>1, Invariance, PTL

(* No gate requires a channel that is gone, gated or of another bot,       *)
(* whatever is deleted and toggled (private_channels.py, models).          *)
THEOREM GatesAreCheckable == Spec => []RequirementsAreCheckable
<1>1. IInv => RequirementsAreCheckable
  BY DEF IInv
<1>. QED  BY <1>1, Invariance, PTL

(* A tier picked on its own wizard's keyboard is of its channel's bot      *)
(* (pc_pick_channel).                                                      *)
THEOREM TiersBelong == Spec => []TierIsOfItsBot
<1>1. IInv => TierIsOfItsBot
  BY DEF IInv
<1>. QED  BY <1>1, Invariance, PTL

(* No last handler meets a missing key or a key of an abandoned wizard, as *)
(* long as updates do not overlap (handlers/admin/*.py).                   *)
THEOREM DraftsAreComplete == Spec => []DraftIsComplete
<1>1. IInv => DraftIsComplete
  BY DEF IInv, DraftsFit, DraftIsComplete, Has
<1>. QED  BY <1>1, Invariance, PTL

(* Rows are paid for by opened wizards and overlapping updates             *)
(* (_finalize_broadcast and its like).                                     *)
THEOREM RowsAreEarned == Spec => []RowsAreBounded
<1>1. IInv => RowsAreBounded
  BY CallsAreCounted DEF IInv, RowsFit, TypeOK, CountsTypeOK, RowsAreBounded
<1>. QED  BY <1>1, Invariance, PTL

(* Without overlapping updates every button can be drawn                   *)
(* (_render_menu_button).                                                  *)
THEOREM ButtonsAreDrawn == Spec => []ButtonsRender
<1>1. IInv => ButtonsRender
  BY DEF IInv, ButtonsFit, ButtonsRender
<1>. QED  BY <1>1, Invariance, PTL

-----------------------------------------------------------------------------
(* The catalogue. *)

(* The tables start alike. *)
LEMMA CatalogueInit == Init => Promise!Init
BY DEF Init, Promise!Init

(* A channel is entered for the bot and with the type of the draft that    *)
(* get_data gave; a tier for a private channel, since only those are ever  *)
(* on a keyboard (private_channels.py, pc_add_title).                      *)
LEMMA CommitEnters ==
    ASSUME IInv, NEW h \in Calls, Commit(h)
    PROVE  Promise!Next \/ UNCHANGED Promise!vars
<1> DEFINE b == snap[h].target
<1> USE DEF IInv, TypeOK, CallsTypeOK, JobsFit, FitsRow, Commit, channels, gates
<1>1. job[h].adds \in {"channel", "tier"} => b \in Bots
  BY DEF IsData, Values
<1>2. CASE AddChannel(h)
  <2>1. PICK c \in Channels :
          /\ owner[c] = NoBot
          /\ live' = live \cup {c}
          /\ owner' = [owner EXCEPT ![c] = b]
          /\ private' = IF snap[h].channel_type = "private" THEN private \cup {c} ELSE private
    BY <1>2 DEF AddChannel
  <2>2. Promise!AddChannel(c, b, snap[h].channel_type = "private")
    BY <1>2, <2>1 DEF AddChannel, Promise!AddChannel
  <2>. QED  BY <1>1, <1>2, <2>2 DEF AddChannel, Promise!Next
<1>3. CASE AddTier(h)
  <2>1. job[h].pick \in private \cap Channels
    BY <1>3 DEF AddTier, GatesFit, RowsTypeOK
  <2>2. Promise!AddTier(job[h].pick, b)
    BY <1>3, <2>1 DEF AddTier, Promise!AddTier
  <2>. QED  BY <1>1, <1>3, <2>1, <2>2 DEF AddTier, Promise!Next
<1>4. CASE AddBroadcast(h) \/ AddButton(h) \/ EditConfig(h)
  BY <1>4 DEF AddBroadcast, AddButton, EditConfig, Promise!vars
<1>. QED  BY <1>2, <1>3, <1>4

(* Whenever the keyboard a toggle came from was sent, and whatever was     *)
(* deleted since, what it adds may be required (pc_req_toggle).            *)
LEMMA ToggleRequires ==
    ASSUME IInv, NEW t \in toggles, WriteRequirement(t)
    PROVE  Promise!Next
<1> DEFINE c == t.tier
           d == t.channel
<1>1. c \in tiers /\ d \in live \ private /\ owner[d] = keeper[c]
  BY DEF IInv, TypeOK, RowsTypeOK, GatesFit
<1>2. c \in Channels /\ d \in Channels
  BY <1>1 DEF IInv, TypeOK, RowsTypeOK
<1>3. CASE t.adds
  BY <1>1, <1>2, <1>3
  DEF WriteRequirement, channels, Promise!Require, Promise!Next
<1>4. CASE ~ t.adds
  BY <1>2, <1>4 DEF WriteRequirement, channels, Promise!Waive, Promise!Next
<1>. QED  BY <1>3, <1>4

(* Deletions cascade as models/channel.py says. *)
LEMMA DeletionsCascade ==
    ASSUME NEW c \in Channels, DeleteChannel(c) \/ DeleteTier(c)
    PROVE  Promise!Next
<1>1. CASE DeleteChannel(c)
  BY <1>1 DEF DeleteChannel, CutOff, Promise!DeleteChannel, Promise!Next
<1>2. CASE DeleteTier(c)
  BY <1>2 DEF DeleteTier, channels, Promise!DeleteTier, Promise!Next
<1>. QED  BY <1>1, <1>2

(* Every other handler leaves the catalogue as it is. *)
LEMMA CatalogueStep == IInv /\ [Next]_vars => [Promise!Next]_(Promise!vars)
<1> SUFFICES ASSUME IInv, [Next]_vars
             PROVE  Promise!Next \/ UNCHANGED Promise!vars
  OBVIOUS
<1> USE DEF channels, gates, Promise!vars
<1>1. ASSUME NEW h \in Calls, Advance(h), ~ Commit(h) PROVE UNCHANGED Promise!vars
  BY <1>1
  DEF Advance, Fetch, FetchFails, Refuse, Read, Write, Move, Look, OfferChannels, Clear, Wipe,
      CommitFails, Abort
<1>2. ASSUME NEW h \in Calls, NEW j \in Handlers \cup Picks, Arrive(h, j)
      PROVE  UNCHANGED Promise!vars
  BY <1>2 DEF Arrive
<1>3. CASE Catalog
  <2>1. ASSUME NEW b \in buttons, DeleteButton(b) PROVE UNCHANGED Promise!vars
    BY <2>1 DEF DeleteButton
  <2>2. ASSUME NEW c \in Channels, NEW d \in Channels, ReadRequirement(c, d)
        PROVE  UNCHANGED Promise!vars
    BY <2>2 DEF ReadRequirement
  <2>3. ASSUME NEW t \in toggles, DropRequirement(t) PROVE UNCHANGED Promise!vars
    BY <2>3 DEF DropRequirement
  <2>. QED  BY <1>3, <2>1, <2>2, <2>3, ToggleRequires, DeletionsCascade DEF Catalog
<1>4. CASE UNCHANGED vars
  BY <1>4 DEF vars
<1>. QED  BY <1>1, <1>2, <1>3, <1>4, CommitEnters DEF Next

(* Wizards, keyboards and toggles, however they overlap, implement the     *)
(* catalogue of Catalogue.tla, for any bots, channels and handlers.        *)
THEOREM WizardsImplementCatalogue == Spec => ImplementsCatalogue
BY CatalogueInit, CatalogueStep, Invariance, PTL DEF Spec, ImplementsCatalogue, Promise!Spec
=============================================================================
