------------------------- MODULE BotLifecycleProofs -------------------------
(***************************************************************************)
(* Proofs about BotLifecycle.tla, for any accounts, ids and handlers.      *)
(***************************************************************************)
EXTENDS BotLifecycle, TLAPS

(* The initial state. *)
LEMMA InitIsGood == Init => IInv
<1> SUFFICES ASSUME Init PROVE IInv
    OBVIOUS
<1> USE MaxFaultsIsANumber, NamesAreFree
<1>1. TypeOK
    BY DEF Init, TypeOK, Rows
<1>2. WebhookLeadsHome
    BY DEF Init, WebhookLeadsHome, Rows, Serving
<1>3. HandlersFit /\ RegistrationsApart /\ TogglesFit
    BY DEF Init, HandlersFit, RegistrationsApart, TogglesFit, Inserting, Rows, Serving
<1>4. Agree
    BY DEF Init, Agree, Rows
<1> QED
    BY <1>1, <1>2, <1>3, <1>4 DEF IInv

(* Ending a handler clears its fields and leaves the others' alone. *)
LEMMA ForgetClears ==
    ASSUME NEW h \in Calls, TypeOK, Forget({h})
    PROVE  /\ pc' = [pc EXCEPT ![h] = "idle"] /\ who' = [who EXCEPT ![h] = NoAccount]
           /\ key' = [key EXCEPT ![h] = 0] /\ id' = [id EXCEPT ![h] = NoId]
           /\ whose' = [whose EXCEPT ![h] = Nobody] /\ alone' = alone \ {h}
BY DEF TypeOK, Forget

(* A registration begins with a handler of its own; no row is touched. *)
LEMMA RegisterIsGood ==
    ASSUME IInv, NEW h \in Calls, NEW a \in Accounts, NEW t \in 1 .. current[a], Register(h, a, t)
    PROVE  IInv'
<1> USE NamesAreFree DEF IInv, rows, telegram, process, traffic, call
<1> USE DEF Register, Goto
<1>1. TypeOK'
    BY DEF TypeOK, Rows, Valid
<1>2. WebhookLeadsHome'
    BY DEF WebhookLeadsHome, Rows, TypeOK, Serving, HandlersFit
<1>3. HandlersFit'
    BY DEF HandlersFit, TypeOK, Rows, Registered, Serving
<1>4. RegistrationsApart'
    BY DEF RegistrationsApart, Inserting, Registered
<1>5. TogglesFit'
    BY DEF TogglesFit, Toggling, Valid
<1>6. Agree'
    BY DEF Agree, Rows, Valid, Toggling
<1> QED
    BY <1>1, <1>2, <1>3, <1>4, <1>5, <1>6

(* The token is valid; only the handler moves on. *)
LEMMA GetMeIsGood ==
    ASSUME IInv, NEW h \in Calls, GetMe(h)
    PROVE  IInv'
<1> USE NamesAreFree DEF IInv, rows, telegram, process, traffic, call
<1> USE DEF GetMe, Goto
<1>1. TypeOK'
    BY DEF TypeOK, Rows, Valid
<1>2. WebhookLeadsHome'
    BY DEF WebhookLeadsHome, Rows, TypeOK, Serving, HandlersFit
<1>3. HandlersFit'
    BY DEF HandlersFit, Rows, Registered, TypeOK, Serving
<1>4. RegistrationsApart'
    BY DEF RegistrationsApart, Inserting, Registered
<1>5. TogglesFit'
    BY DEF TogglesFit, Toggling, Valid
<1>6. Agree'
    BY DEF Agree, Rows, Valid, Toggling
<1> QED
    BY <1>1, <1>2, <1>3, <1>4, <1>5, <1>6

(* The new id is nobody's, in no webhook, and no other registration has it *)
(* or the account.                                                         *)
LEMMA InsertIsGood ==
    ASSUME IInv, NEW h \in Calls, Insert(h)
    PROVE  IInv'
<1> USE NamesAreFree DEF IInv, rows, telegram, process, traffic, call
<1> USE DEF Insert, Goto
<1>1. TypeOK'
    BY DEF TypeOK, Rows, Valid
<1>2. WebhookLeadsHome'
    BY DEF WebhookLeadsHome, Rows, TypeOK, Serving, HandlersFit
<1>3. HandlersFit'
    BY DEF HandlersFit, TypeOK, Rows, Registered, Serving
<1>4. RegistrationsApart'
    BY DEF RegistrationsApart, Inserting, TypeOK
<1>5. TogglesFit'
    BY DEF TogglesFit, Toggling, Valid
<1>6. Agree'
    BY DEF Agree, Rows, Valid, Toggling
<1> QED
    BY <1>1, <1>2, <1>3, <1>4, <1>5, <1>6

(* The webhook names an id that only this registration can commit. *)
LEMMA SetWebhookIsGood ==
    ASSUME IInv, NEW h \in Calls, SetWebhook(h)
    PROVE  IInv'
<1> USE NamesAreFree DEF IInv, rows, telegram, process, traffic, call
<1> USE DEF SetWebhook, Goto
<1>1. TypeOK'
    BY DEF TypeOK, Rows, Valid
<1>2. WebhookLeadsHome'
    BY DEF WebhookLeadsHome, Rows, HandlersFit, TypeOK, Serving
<1>3. HandlersFit'
    BY DEF HandlersFit, TypeOK, Rows, Registered, RegistrationsApart, Inserting, Serving
<1>4. RegistrationsApart'
    BY DEF RegistrationsApart, Inserting, Registered
<1>5. TogglesFit'
    BY DEF TogglesFit, Toggling, Valid, HandlersFit, Rows, Registered
<1>6. Agree'
    BY DEF Agree, HandlersFit, Rows, Valid, Toggling, Registered
<1> QED
    BY <1>1, <1>2, <1>3, <1>4, <1>5, <1>6

(* The row appears under the id its webhook has, and is the only one of    *)
(* its account.                                                            *)
LEMMA CommitBotIsGood ==
    ASSUME IInv, NEW h \in Calls, CommitBot(h)
    PROVE  IInv'
<1> USE NamesAreFree DEF IInv, rows, telegram, process, traffic, call
<1> USE DEF CommitBot
<1>0. /\ pc' = [pc EXCEPT ![h] = "idle"] /\ who' = [who EXCEPT ![h] = NoAccount]
      /\ key' = [key EXCEPT ![h] = 0] /\ id' = [id EXCEPT ![h] = NoId]
      /\ whose' = [whose EXCEPT ![h] = Nobody] /\ alone' = alone \ {h}
    BY ForgetClears
<1>1. TypeOK'
    BY <1>0 DEF TypeOK, Rows, HandlersFit
<1>2. WebhookLeadsHome'
    BY <1>0
    DEF WebhookLeadsHome, TypeOK, Rows, HandlersFit, RegistrationsApart, Inserting, Registered,
        Serving
<1>3. HandlersFit'
    BY <1>0 DEF HandlersFit, TypeOK, Rows, Registered, RegistrationsApart, Inserting, Serving
<1>4. RegistrationsApart'
    BY <1>0 DEF RegistrationsApart, Inserting, TypeOK
<1>5. TogglesFit'
    BY <1>0 DEF TogglesFit, Toggling, Valid, HandlersFit
<1>6. Agree'
    BY <1>0 DEF Agree, HandlersFit, Rows, Valid, Toggling, TypeOK
<1> QED
    BY <1>1, <1>2, <1>3, <1>4, <1>5, <1>6

(* Nothing has been written yet. *)
LEMMA GetMeFailsIsGood ==
    ASSUME IInv, NEW h \in Calls, GetMeFails(h)
    PROVE  IInv'
<1> USE NamesAreFree DEF IInv, rows, telegram, process, traffic, call
<1> USE DEF GetMeFails
<1>0. /\ pc' = [pc EXCEPT ![h] = "idle"] /\ who' = [who EXCEPT ![h] = NoAccount]
      /\ key' = [key EXCEPT ![h] = 0] /\ id' = [id EXCEPT ![h] = NoId]
      /\ whose' = [whose EXCEPT ![h] = Nobody] /\ alone' = alone \ {h}
    BY ForgetClears
<1>1. TypeOK'
    BY <1>0 DEF TypeOK, Rows
<1>2. WebhookLeadsHome'
    BY <1>0 DEF WebhookLeadsHome, Rows, TypeOK, Serving, HandlersFit
<1>3. HandlersFit'
    BY <1>0 DEF HandlersFit, TypeOK, Rows, Registered, Serving
<1>4. RegistrationsApart'
    BY <1>0 DEF RegistrationsApart, Inserting, TypeOK
<1>5. TogglesFit'
    BY <1>0 DEF TogglesFit, Toggling, Valid
<1>6. Agree'
    BY <1>0 DEF Agree, Rows, Valid, Toggling
<1> QED
    BY <1>1, <1>2, <1>3, <1>4, <1>5, <1>6

(* The id stays used, and the webhook of no row may name it for ever. *)
LEMMA RegisterRaisesIsGood ==
    ASSUME IInv, NEW h \in Calls, RegisterRaises(h)
    PROVE  IInv'
<1> USE NamesAreFree DEF IInv, rows, telegram, process, traffic, call
<1> USE DEF RegisterRaises
<1>0. /\ pc' = [pc EXCEPT ![h] = "idle"] /\ who' = [who EXCEPT ![h] = NoAccount]
      /\ key' = [key EXCEPT ![h] = 0] /\ id' = [id EXCEPT ![h] = NoId]
      /\ whose' = [whose EXCEPT ![h] = Nobody] /\ alone' = alone \ {h}
    BY ForgetClears
<1>1. TypeOK'
    BY <1>0 DEF TypeOK, Rows
<1>2. WebhookLeadsHome'
    BY <1>0 DEF WebhookLeadsHome, Rows, TypeOK, Serving, HandlersFit
<1>3. HandlersFit'
    BY <1>0 DEF HandlersFit, TypeOK, Rows, Registered, Serving
<1>4. RegistrationsApart'
    BY <1>0 DEF RegistrationsApart, Inserting, TypeOK
<1>5. TogglesFit'
    BY <1>0 DEF TogglesFit, Toggling, Valid
<1>6. Agree'
    BY <1>0 DEF Agree, Rows, Valid, Toggling
<1> QED
    BY <1>1, <1>2, <1>3, <1>4, <1>5, <1>6

(* A toggle that meets another leaves the row adrift, one that does not is *)
(* alone on it.                                                            *)
LEMMA ToggleIsGood ==
    ASSUME IInv, NEW h \in Calls, NEW i \in Ids, Toggle(h, i)
    PROVE  IInv'
<1> USE NamesAreFree DEF IInv, rows, telegram, process, traffic, call
<1> USE DEF Toggle, Goto
<1>1. TypeOK'
    BY DEF TypeOK, Rows, Valid
<1>2. WebhookLeadsHome'
    BY DEF WebhookLeadsHome, Rows, TypeOK, Serving, HandlersFit
<1>3. HandlersFit'
    BY DEF HandlersFit, TypeOK, Rows, Registered, Serving
<1>4. RegistrationsApart'
    BY DEF RegistrationsApart, Inserting, Registered
<1>5. TogglesFit'
    BY DEF TogglesFit, Toggling, Valid, TypeOK
<1>6. Agree'
    BY DEF Agree, Rows, Valid, Toggling
<1> QED
    BY <1>1, <1>2, <1>3, <1>4, <1>5, <1>6

(* What a toggle tells Telegram is what it will store. *)
LEMMA SwitchIsGood ==
    ASSUME IInv, NEW h \in Calls, Switch(h)
    PROVE  IInv'
<1> USE NamesAreFree DEF IInv, rows, telegram, process, traffic, call
<1> USE DEF Switch, Goto
<1>1. TypeOK'
    BY DEF TypeOK, Rows, Valid
<1>2. WebhookLeadsHome'
    BY DEF WebhookLeadsHome, Rows, TypeOK, Serving, HandlersFit
<1>3. HandlersFit'
    BY DEF HandlersFit, Rows, Registered, TypeOK, Serving
<1>4. RegistrationsApart'
    BY DEF RegistrationsApart, Inserting, TypeOK, HandlersFit
<1>5. TogglesFit'
    BY DEF TogglesFit, Toggling, Valid, TypeOK, HandlersFit, WebhookLeadsHome
<1>6. Agree'
    BY DEF Agree, HandlersFit, WebhookLeadsHome, Rows, Valid, Toggling, TypeOK
<1> QED
    BY <1>1, <1>2, <1>3, <1>4, <1>5, <1>6

(* A toggle alone on its row brings the row in line with the webhook. *)
LEMMA StoreIsGood ==
    ASSUME IInv, NEW h \in Calls, Store(h)
    PROVE  IInv'
<1> USE NamesAreFree DEF IInv, rows, telegram, process, traffic, call
<1> USE DEF Store
<1>0. /\ pc' = [pc EXCEPT ![h] = "idle"] /\ who' = [who EXCEPT ![h] = NoAccount]
      /\ key' = [key EXCEPT ![h] = 0] /\ id' = [id EXCEPT ![h] = NoId]
      /\ whose' = [whose EXCEPT ![h] = Nobody] /\ alone' = alone \ {h}
    BY ForgetClears
<1>1. TypeOK'
    BY <1>0 DEF TypeOK, Rows, HandlersFit
<1>2. WebhookLeadsHome'
    BY <1>0 DEF WebhookLeadsHome, Rows, TypeOK, Serving, HandlersFit
<1>3. HandlersFit'
    BY <1>0 DEF HandlersFit, TypeOK, Rows, Registered, Serving
<1>4. RegistrationsApart'
    BY <1>0 DEF RegistrationsApart, Inserting
<1>5. TogglesFit'
    BY <1>0 DEF TogglesFit, Toggling, Valid, TypeOK
<1>6. Agree'
    BY <1>0 DEF Agree, TogglesFit, HandlersFit, Rows, Valid, Toggling
<1> QED
    BY <1>1, <1>2, <1>3, <1>4, <1>5, <1>6

(* Telegram refused: neither webhook nor row has changed. *)
LEMMA SwitchFailsIsGood ==
    ASSUME IInv, NEW h \in Calls, SwitchFails(h)
    PROVE  IInv'
<1> USE NamesAreFree DEF IInv, rows, telegram, process, traffic, call
<1> USE DEF SwitchFails
<1>0. /\ pc' = [pc EXCEPT ![h] = "idle"] /\ who' = [who EXCEPT ![h] = NoAccount]
      /\ key' = [key EXCEPT ![h] = 0] /\ id' = [id EXCEPT ![h] = NoId]
      /\ whose' = [whose EXCEPT ![h] = Nobody] /\ alone' = alone \ {h}
    BY ForgetClears
<1>1. TypeOK'
    BY <1>0 DEF TypeOK, Rows
<1>2. WebhookLeadsHome'
    BY <1>0 DEF WebhookLeadsHome, Rows, TypeOK, Serving, HandlersFit
<1>3. HandlersFit'
    BY <1>0 DEF HandlersFit, TypeOK, Rows, Registered, Serving
<1>4. RegistrationsApart'
    BY <1>0 DEF RegistrationsApart, Inserting
<1>5. TogglesFit'
    BY <1>0 DEF TogglesFit, Toggling, Valid, TypeOK
<1>6. Agree'
    BY <1>0 DEF Agree, Rows, Valid, Toggling
<1> QED
    BY <1>1, <1>2, <1>3, <1>4, <1>5, <1>6

(* A rollback after the webhook call leaves the row adrift. *)
LEMMA HandlerFailsIsGood ==
    ASSUME IInv, NEW h \in Calls, HandlerFails(h)
    PROVE  IInv'
<1> USE NamesAreFree DEF IInv, rows, telegram, process, traffic, call
<1> USE DEF HandlerFails, Cut, Fault
<1>0. /\ pc' = [pc EXCEPT ![h] = "idle"] /\ who' = [who EXCEPT ![h] = NoAccount]
      /\ key' = [key EXCEPT ![h] = 0] /\ id' = [id EXCEPT ![h] = NoId]
      /\ whose' = [whose EXCEPT ![h] = Nobody] /\ alone' = alone \ {h}
    BY ForgetClears
<1>1. TypeOK'
    BY <1>0, MaxFaultsIsANumber DEF TypeOK, Rows, HandlersFit
<1>2. WebhookLeadsHome'
    BY <1>0 DEF WebhookLeadsHome, Rows, TypeOK, Serving, HandlersFit
<1>3. HandlersFit'
    BY <1>0 DEF HandlersFit, TypeOK, Rows, Registered, Serving
<1>4. RegistrationsApart'
    BY <1>0 DEF RegistrationsApart, Inserting, TypeOK
<1>5. TogglesFit'
    BY <1>0 DEF TogglesFit, Toggling, Valid, TypeOK
<1>6. Agree'
    BY <1>0 DEF Agree, Rows, Valid, Toggling
<1> QED
    BY <1>1, <1>2, <1>3, <1>4, <1>5, <1>6

(* A crash is a failure of every handler at once. *)
LEMMA CrashIsGood ==
    ASSUME IInv, Crash
    PROVE  IInv'
<1> USE NamesAreFree DEF IInv, rows, telegram, process, traffic, call
<1> USE DEF Crash, Forget, Cut, Fault
<1>1. TypeOK'
    BY MaxFaultsIsANumber DEF TypeOK, Rows, HandlersFit
<1>2. WebhookLeadsHome'
    BY DEF WebhookLeadsHome, Rows, TypeOK, Serving, HandlersFit
<1>3. HandlersFit'
    BY DEF HandlersFit, Rows, Inserting, TypeOK, Serving
<1>4. RegistrationsApart'
    BY DEF RegistrationsApart, Inserting, Registered
<1>5. TogglesFit'
    BY DEF TogglesFit, TypeOK, Registered
<1>6. Agree'
    BY DEF Agree, Rows, Valid, Toggling
<1> QED
    BY <1>1, <1>2, <1>3, <1>4, <1>5, <1>6

(* The active bots are listed; none of them is done. *)
LEMMA StartIsGood ==
    ASSUME IInv, Start
    PROVE  IInv'
<1> USE NamesAreFree DEF IInv, rows, telegram, process, traffic, call
<1> USE DEF Start
<1>1. TypeOK'
    BY DEF TypeOK, Rows, Valid
<1>2. WebhookLeadsHome'
    BY DEF WebhookLeadsHome, Rows, TypeOK, Serving, HandlersFit
<1>3. HandlersFit'
    BY DEF HandlersFit, Rows, Inserting, TypeOK, Serving
<1>4. RegistrationsApart'
    BY DEF RegistrationsApart, Inserting, Registered
<1>5. TogglesFit'
    BY DEF TogglesFit, TypeOK, HandlersFit
<1>6. Agree'
    BY DEF Agree, Rows, Valid, Toggling
<1> QED
    BY <1>1, <1>2, <1>3, <1>4, <1>5, <1>6

(* A started bot has its webhook again. *)
LEMMA StartBotIsGood ==
    ASSUME IInv, NEW i \in Ids, StartBot(i)
    PROVE  IInv'
<1> USE NamesAreFree DEF IInv, rows, telegram, process, traffic, call
<1> USE DEF StartBot
<1>1. TypeOK'
    BY DEF TypeOK, Rows, Valid
<1>2. WebhookLeadsHome'
    BY DEF WebhookLeadsHome, Rows, TypeOK, Serving, HandlersFit
<1>3. HandlersFit'
    BY DEF HandlersFit, Rows, Inserting, TypeOK, Serving
<1>4. RegistrationsApart'
    BY DEF RegistrationsApart, Inserting, HandlersFit
<1>5. TogglesFit'
    BY DEF TogglesFit, TypeOK, HandlersFit
<1>6. Agree'
    BY DEF Agree, WebhookLeadsHome, Rows, Valid, Toggling, TypeOK
<1> QED
    BY <1>1, <1>2, <1>3, <1>4, <1>5, <1>6

(* The process is down again; rows and webhooks are as they were. *)
LEMMA StartupFailsIsGood ==
    ASSUME IInv, StartupFails
    PROVE  IInv'
<1> USE NamesAreFree DEF IInv, rows, telegram, process, traffic, call
<1> USE DEF StartupFails
<1>1. TypeOK'
    BY DEF TypeOK, Rows, HandlersFit
<1>2. WebhookLeadsHome'
    BY DEF WebhookLeadsHome, Rows, TypeOK, Serving, HandlersFit
<1>3. HandlersFit'
    BY DEF HandlersFit, Rows, Inserting, TypeOK, Serving
<1>4. RegistrationsApart'
    BY DEF RegistrationsApart, Inserting, Registered
<1>5. TogglesFit'
    BY DEF TogglesFit, TypeOK, HandlersFit
<1>6. Agree'
    BY DEF Agree, Rows, Valid, Toggling
<1> QED
    BY <1>1, <1>2, <1>3, <1>4, <1>5, <1>6

(* Every active bot has been started: none is adrift. *)
LEMMA ServeIsGood ==
    ASSUME IInv, Serve
    PROVE  IInv'
<1> USE NamesAreFree DEF IInv, rows, telegram, process, traffic, call
<1> USE DEF Serve
<1>1. TypeOK'
    BY DEF TypeOK, Rows, Valid
<1>2. WebhookLeadsHome'
    BY DEF WebhookLeadsHome, Rows, TypeOK, Serving, HandlersFit
<1>3. HandlersFit'
    BY DEF HandlersFit, Rows, Inserting, TypeOK, Serving
<1>4. RegistrationsApart'
    BY DEF RegistrationsApart, Inserting, Registered
<1>5. TogglesFit'
    BY DEF TogglesFit, TypeOK, HandlersFit
<1>6. Agree'
    BY DEF Agree, Rows, Valid, Toggling
<1> QED
    BY <1>1, <1>2, <1>3, <1>4, <1>5, <1>6

(* The account's rows are not valid any more; its webhook names what it    *)
(* did, or nothing.                                                        *)
LEMMA RevokeIsGood ==
    ASSUME IInv, NEW a \in Accounts, Revoke(a)
    PROVE  IInv'
<1> USE NamesAreFree DEF IInv, rows, telegram, process, traffic, call
<1> USE DEF Revoke, Fault
<1>1. TypeOK'
    BY MaxFaultsIsANumber DEF TypeOK, Rows
<1>2. WebhookLeadsHome'
    BY DEF WebhookLeadsHome, TypeOK, Rows, Serving, HandlersFit
<1>3. HandlersFit'
    BY DEF HandlersFit, TypeOK, Rows, Registered, Serving
<1>4. RegistrationsApart'
    BY DEF RegistrationsApart, Inserting, TypeOK, HandlersFit
<1>5. TogglesFit'
    BY DEF TogglesFit, Toggling, Valid, TypeOK, HandlersFit
<1>6. Agree'
    BY DEF Agree, HandlersFit, Rows, Valid, Toggling, TypeOK
<1> QED
    BY <1>1, <1>2, <1>3, <1>4, <1>5, <1>6

(* An update waits, of which nothing has become. *)
LEMMA SendUpdateIsGood ==
    ASSUME IInv, NEW u \in Users, NEW a \in Clients, SendUpdate(u, a)
    PROVE  IInv'
<1> USE NamesAreFree DEF IInv, rows, telegram, process, traffic, call
<1> USE ClientsAreAccounts DEF SendUpdate
<1>1. TypeOK'
    BY DEF TypeOK, Rows, Valid, HandlersFit, Serving
<1>2. WebhookLeadsHome'
    BY DEF WebhookLeadsHome, TypeOK, Serving, HandlersFit, Rows
<1>3. HandlersFit'
    BY DEF HandlersFit, TypeOK, Rows, Registered, Serving
<1>4. RegistrationsApart'
    BY DEF RegistrationsApart, Inserting, Registered, TypeOK
<1>5. TogglesFit'
    BY DEF TogglesFit, Toggling, Valid, TypeOK
<1>6. Agree'
    BY DEF Agree, Rows, Valid, Toggling, TypeOK
<1> QED
    BY <1>1, <1>2, <1>3, <1>4, <1>5, <1>6

(* It does not wait any more. *)
LEMMA GiveUpIsGood ==
    ASSUME IInv, NEW u \in Users, GiveUp(u)
    PROVE  IInv'
<1> USE NamesAreFree DEF IInv, rows, telegram, process, traffic, call
<1> USE DEF GiveUp, Becomes
<1>1. TypeOK'
    BY DEF TypeOK, Rows, Valid
<1>2. WebhookLeadsHome'
    BY DEF WebhookLeadsHome, TypeOK, Serving, HandlersFit, Rows
<1>3. HandlersFit'
    BY DEF HandlersFit, TypeOK, Rows, Registered, Serving
<1>4. RegistrationsApart'
    BY DEF RegistrationsApart, Inserting, Registered, TypeOK
<1>5. TogglesFit'
    BY DEF TogglesFit, Toggling, Valid, TypeOK
<1>6. Agree'
    BY DEF Agree, Rows, Valid, Toggling, TypeOK
<1> QED
    BY <1>1, <1>2, <1>3, <1>4, <1>5, <1>6

(* The id in the webhook is a row of the account or nobody's, and an       *)
(* object is made for rows only.                                           *)
LEMMA DeliverIsGood ==
    ASSUME IInv, NEW h \in Calls, NEW u \in Users, Deliver(h, u)
    PROVE  IInv'
<1> USE NamesAreFree DEF IInv, rows, telegram, process, traffic, call
<1> USE DEF Deliver, Reaches, Goto
<1>1. TypeOK'
    BY DEF TypeOK, Rows, Valid
<1>2. WebhookLeadsHome'
    BY DEF WebhookLeadsHome, TypeOK, Serving, HandlersFit, Rows
<1>3. HandlersFit'
    BY DEF HandlersFit, TypeOK, Rows, Registered, Serving
<1>4. RegistrationsApart'
    BY DEF RegistrationsApart, Inserting, Registered, TypeOK
<1>5. TogglesFit'
    BY DEF TogglesFit, Toggling, Valid, TypeOK
<1>6. Agree'
    BY DEF Agree, Rows, Valid, Toggling, TypeOK
<1> QED
    BY <1>1, <1>2, <1>3, <1>4, <1>5, <1>6

(* So it is for an update that is dropped. *)
LEMMA ThrottledIsGood ==
    ASSUME IInv, NEW u \in Users, Throttled(u)
    PROVE  IInv'
<1> USE NamesAreFree DEF IInv, rows, telegram, process, traffic, call
<1> USE DEF Throttled, Reaches, Becomes
<1>1. TypeOK'
    BY DEF TypeOK, Rows, Valid
<1>2. WebhookLeadsHome'
    BY DEF WebhookLeadsHome, TypeOK, Serving, HandlersFit, Rows
<1>3. HandlersFit'
    BY DEF HandlersFit, TypeOK, Rows, Registered, Serving
<1>4. RegistrationsApart'
    BY DEF RegistrationsApart, Inserting, Registered, TypeOK
<1>5. TogglesFit'
    BY DEF TogglesFit, Toggling, Valid, TypeOK
<1>6. Agree'
    BY DEF Agree, Rows, Valid, Toggling, TypeOK
<1> QED
    BY <1>1, <1>2, <1>3, <1>4, <1>5, <1>6

(* A throttle key is forgotten. *)
LEMMA CoolIsGood ==
    ASSUME IInv, NEW u \in Users, NEW a \in Accounts, Cool(u, a)
    PROVE  IInv'
<1> USE NamesAreFree DEF IInv, rows, telegram, process, traffic, call
<1> USE DEF Cool
<1>1. TypeOK'
    BY DEF TypeOK, Rows, Valid
<1>2. WebhookLeadsHome'
    BY DEF WebhookLeadsHome, TypeOK, Serving, HandlersFit, Rows
<1>3. HandlersFit'
    BY DEF HandlersFit, TypeOK, Rows, Registered, Serving
<1>4. RegistrationsApart'
    BY DEF RegistrationsApart, Inserting, Registered, TypeOK
<1>5. TogglesFit'
    BY DEF TogglesFit, Toggling, Valid, TypeOK
<1>6. Agree'
    BY DEF Agree, Rows, Valid, Toggling, TypeOK
<1> QED
    BY <1>1, <1>2, <1>3, <1>4, <1>5, <1>6

(* The row of the Bot object, or of the cached id, is the account's. *)
LEMMA AdmitIsGood ==
    ASSUME IInv, NEW h \in Calls, Admit(h)
    PROVE  IInv'
<1> USE NamesAreFree DEF IInv, rows, telegram, process, traffic, call
<1> USE DEF Admit, Resolve, Row, Goto
<1>1. TypeOK'
    BY DEF TypeOK, Rows, Valid
<1>2. WebhookLeadsHome'
    BY DEF WebhookLeadsHome, TypeOK, Serving, HandlersFit, Rows
<1>3. HandlersFit'
    BY DEF HandlersFit, TypeOK, Rows, Registered, Serving
<1>4. RegistrationsApart'
    BY DEF RegistrationsApart, Inserting, Registered, TypeOK
<1>5. TogglesFit'
    BY DEF TogglesFit, Toggling, Valid, TypeOK
<1>6. Agree'
    BY DEF Agree, Rows, Valid, Toggling, TypeOK
<1> QED
    BY <1>1, <1>2, <1>3, <1>4, <1>5, <1>6

(* So it is for a row that is off. *)
LEMMA RefuseIsGood ==
    ASSUME IInv, NEW h \in Calls, Refuse(h)
    PROVE  IInv'
<1> USE NamesAreFree DEF IInv, rows, telegram, process, traffic, call
<1> USE DEF Refuse, Resolve, Row, Goto, Becomes
<1>1. TypeOK'
    <2>1. context' \in [Accounts -> Rows \cup {NoId}]
        BY DEF TypeOK, HandlersFit, Serving
    <2>2. outcome' \in [Users -> {"none", "handled", "dropped", "abandoned"}]
        BY DEF TypeOK
    <2>3. pc' \in [Calls -> {"idle", "get_me", "insert", "hook", "commit", "switch", "store",
                            "context", "handler", "answer"}]
        BY DEF TypeOK
    <2> QED
        BY <2>1, <2>2, <2>3 DEF TypeOK, Rows
<1>2. WebhookLeadsHome'
    BY DEF WebhookLeadsHome, TypeOK, Serving, HandlersFit, Rows
<1>3. HandlersFit'
    BY DEF HandlersFit, TypeOK, Rows, Registered, Serving
<1>4. RegistrationsApart'
    BY DEF RegistrationsApart, Inserting, Registered, TypeOK
<1>5. TogglesFit'
    BY DEF TogglesFit, Toggling, Valid, TypeOK
<1>6. Agree'
    BY DEF Agree, Rows, Valid, Toggling, TypeOK
<1> QED
    BY <1>1, <1>2, <1>3, <1>4, <1>5, <1>6

(* What has become of the update is recorded before the answer. *)
LEMMA HandleIsGood ==
    ASSUME IInv, NEW h \in Calls, Handle(h)
    PROVE  IInv'
<1> USE NamesAreFree DEF IInv, rows, telegram, process, traffic, call
<1> USE DEF Handle, Goto, Becomes
<1>1. TypeOK'
    BY DEF TypeOK, Rows, Valid
<1>2. WebhookLeadsHome'
    BY DEF WebhookLeadsHome, TypeOK, Serving, HandlersFit, Rows
<1>3. HandlersFit'
    BY DEF HandlersFit, TypeOK, Rows, Registered, Serving
<1>4. RegistrationsApart'
    BY DEF RegistrationsApart, Inserting, Registered, TypeOK
<1>5. TogglesFit'
    BY DEF TogglesFit, Toggling, Valid, TypeOK
<1>6. Agree'
    BY DEF Agree, Rows, Valid, Toggling, TypeOK
<1> QED
    BY <1>1, <1>2, <1>3, <1>4, <1>5, <1>6

(* The delivery is over. *)
LEMMA AnswerIsGood ==
    ASSUME IInv, NEW h \in Calls, Answer(h)
    PROVE  IInv'
<1> USE NamesAreFree DEF IInv, rows, telegram, process, traffic, call
<1> USE DEF Answer
<1>0. /\ pc' = [pc EXCEPT ![h] = "idle"] /\ who' = [who EXCEPT ![h] = NoAccount]
      /\ key' = [key EXCEPT ![h] = 0] /\ id' = [id EXCEPT ![h] = NoId]
      /\ whose' = [whose EXCEPT ![h] = Nobody] /\ alone' = alone \ {h}
    BY ForgetClears
<1>1. TypeOK'
    BY <1>0 DEF TypeOK, Rows, Valid
<1>2. WebhookLeadsHome'
    BY <1>0 DEF WebhookLeadsHome, TypeOK, Serving, HandlersFit, Rows
<1>3. HandlersFit'
    BY <1>0 DEF HandlersFit, TypeOK, Rows, Registered, Serving
<1>4. RegistrationsApart'
    BY <1>0 DEF RegistrationsApart, Inserting, Registered, TypeOK
<1>5. TogglesFit'
    BY <1>0 DEF TogglesFit, Toggling, Valid, TypeOK
<1>6. Agree'
    BY <1>0 DEF Agree, Rows, Valid, Toggling, TypeOK
<1> QED
    BY <1>1, <1>2, <1>3, <1>4, <1>5, <1>6

(* The delivery is over; its update stays. *)
LEMMA DeliveryFailsIsGood ==
    ASSUME IInv, NEW h \in Calls, DeliveryFails(h)
    PROVE  IInv'
<1> USE NamesAreFree DEF IInv, rows, telegram, process, traffic, call
<1> USE DEF DeliveryFails
<1>0. /\ pc' = [pc EXCEPT ![h] = "idle"] /\ who' = [who EXCEPT ![h] = NoAccount]
      /\ key' = [key EXCEPT ![h] = 0] /\ id' = [id EXCEPT ![h] = NoId]
      /\ whose' = [whose EXCEPT ![h] = Nobody] /\ alone' = alone \ {h}
    BY ForgetClears
<1>1. TypeOK'
    BY <1>0 DEF TypeOK, Rows, Valid
<1>2. WebhookLeadsHome'
    BY <1>0 DEF WebhookLeadsHome, TypeOK, Serving, HandlersFit, Rows
<1>3. HandlersFit'
    BY <1>0 DEF HandlersFit, TypeOK, Rows, Registered, Serving
<1>4. RegistrationsApart'
    BY <1>0 DEF RegistrationsApart, Inserting, Registered, TypeOK
<1>5. TogglesFit'
    BY <1>0 DEF TogglesFit, Toggling, Valid, TypeOK
<1>6. Agree'
    BY <1>0 DEF Agree, Rows, Valid, Toggling, TypeOK
<1> QED
    BY <1>1, <1>2, <1>3, <1>4, <1>5, <1>6

(* A cached id is forgotten. *)
LEMMA ExpireIsGood ==
    ASSUME IInv, NEW a \in Accounts, Expire(a)
    PROVE  IInv'
<1> USE NamesAreFree DEF IInv, rows, telegram, process, traffic, call
<1> USE DEF Expire
<1>1. TypeOK'
    BY DEF TypeOK, Rows, Valid
<1>2. WebhookLeadsHome'
    BY DEF WebhookLeadsHome, Rows, TypeOK, Serving, HandlersFit
<1>3. HandlersFit'
    BY DEF HandlersFit, Rows, Registered, TypeOK, Serving
<1>4. RegistrationsApart'
    BY DEF RegistrationsApart, Inserting, Registered
<1>5. TogglesFit'
    BY DEF TogglesFit, Toggling, Valid
<1>6. Agree'
    BY DEF Agree, Rows, Valid, Toggling
<1> QED
    BY <1>1, <1>2, <1>3, <1>4, <1>5, <1>6

(* Nothing changes. *)
LEMMA StutterIsGood ==
    ASSUME IInv, UNCHANGED vars
    PROVE  IInv'
BY DEF IInv, TypeOK, WebhookLeadsHome, HandlersFit, RegistrationsApart, TogglesFit, Agree, vars,
       rows, telegram, process, traffic, call, Rows, Inserting, Toggling, Valid, Registered, Serving

(* Every step keeps the invariant. *)
LEMMA StepIsGood == IInv /\ [Next]_vars => IInv'
<1> SUFFICES ASSUME IInv, [Next]_vars PROVE IInv'
    OBVIOUS
<1>1. CASE \E h \in Calls : Admin(h)
    BY <1>1, RegisterIsGood, ToggleIsGood DEF Admin
<1>2. CASE \E h \in Calls : GoOn(h)
    BY <1>2, GetMeIsGood, InsertIsGood, SetWebhookIsGood, CommitBotIsGood, GetMeFailsIsGood,
       RegisterRaisesIsGood, SwitchIsGood, StoreIsGood, SwitchFailsIsGood
    DEF GoOn
<1>3. CASE \E h \in Calls : HandlerFails(h)
    BY <1>3, HandlerFailsIsGood
<1>4. CASE Boot \/ Crash
    BY <1>4, StartIsGood, StartBotIsGood, StartupFailsIsGood, ServeIsGood, CrashIsGood DEF Boot
<1>5. CASE \E h \in Calls : Respond(h)
    BY <1>5, AdmitIsGood, RefuseIsGood, HandleIsGood, AnswerIsGood, DeliveryFailsIsGood DEF Respond
<1>6. CASE \E a \in Accounts : Revoke(a) \/ Expire(a)
    BY <1>6, RevokeIsGood, ExpireIsGood
<1>7. CASE \E u \in Users : Traffic(u)
    BY <1>7, SendUpdateIsGood, CoolIsGood, GiveUpIsGood, ThrottledIsGood, DeliverIsGood DEF Traffic
<1>8. CASE UNCHANGED vars
    BY <1>8, StutterIsGood
<1> QED
    BY <1>1, <1>2, <1>3, <1>4, <1>5, <1>6, <1>7, <1>8 DEF Next

(* All parts of the invariant hold in every state, for any bots, ids,      *)
(* handlers and faults.                                                    *)
THEOREM Invariance == Spec => []IInv
<1>1. Init => IInv
    BY InitIsGood
<1>2. IInv /\ [Next]_vars => IInv'
    BY StepIsGood
<1> QED
    BY <1>1, <1>2, PTL DEF Spec

(* The state is what the code and the tables can hold. *)
THEOREM TypeCorrect == Spec => []TypeOK
<1>1. IInv => TypeOK
    BY DEF IInv
<1> QED
    BY <1>1, Invariance, PTL

(* For any number of bots and of registrations that overlap or fail,       *)
(* Telegram and the caches lead an update to the row of its own bot.       *)
THEOREM Routing == Spec => []WebhookLeadsHome
<1>1. IInv => WebhookLeadsHome
    BY DEF IInv
<1> QED
    BY <1>1, Invariance, PTL

(* Rows and webhooks agree wherever no toggle is at work and none left a   *)
(* difference.                                                             *)
THEOREM Agreement == Spec => []AgreeAtRest
<1>1. IInv => AgreeAtRest
    BY DEF IInv, Agree, AgreeAtRest
<1> QED
    BY <1>1, Invariance, PTL

(* No step leads out of the outage: without the panel nobody can switch    *)
(* the bot off, and its token does not become valid again.                 *)
LEMMA NoWayOut ==
    ASSUME IInv, [Next]_vars, Doomed
    PROVE  Doomed'
<1> USE DEF IInv, rows, telegram, process, traffic, call
<1> PICK i \in active : ~ Valid(i) /\ (server = "starting" => i \in todo)
    BY DEF Doomed
<1>1. i \in Rows /\ token[i] < current[owner[i]] /\ server # "up"
    BY DEF TypeOK, Rows, HandlersFit, Valid, Doomed
<1>2. \A h \in Calls : ~ Admin(h) /\ ~ GoOn(h) /\ ~ Respond(h) /\ ~ HandlerFails(h)
    <2>1. \A h \in Calls : pc[h] = "idle"
        BY <1>1 DEF HandlersFit
    <2>2. \A h \in Calls : ~ Admin(h) /\ ~ HandlerFails(h)
        BY <1>1, <2>1 DEF Admin, Register, Toggle, HandlerFails
    <2>3. \A h \in Calls : ~ GoOn(h)
        BY <2>1
        DEF GoOn, GetMe, Insert, SetWebhook, CommitBot, GetMeFails,
            RegisterRaises, Switch, Store, SwitchFails
    <2>4. \A h \in Calls : ~ Respond(h)
        BY <2>1 DEF Respond, Admit, Refuse, Resolve, Handle, Answer, DeliveryFails
    <2> QED
        BY <2>2, <2>3, <2>4
<1>3. CASE Boot \/ Crash
    <2>1. UNCHANGED <<owner, token, active, current>> /\ server' # "up"
        BY <1>3 DEF Boot, Start, StartBot, StartupFails, Serve, Crash
    <2>2. server' = "starting" => i \in todo'
        BY <1>3 DEF Boot, Start, StartBot, StartupFails, Serve, Crash
    <2> QED
        BY <2>1, <2>2 DEF Doomed, Valid
<1>4. CASE \E a \in Accounts : Revoke(a)
    <2> PICK a \in Accounts : Revoke(a)
        BY <1>4
    <2>1. UNCHANGED <<owner, token, active, server, todo>>
        BY DEF Revoke
    <2>2. token[i] < current'[owner[i]]
        BY <1>1 DEF Revoke, TypeOK
    <2>3. ~ Valid(i)'
        BY <2>1, <2>2 DEF Valid, TypeOK
    <2> QED
        BY <2>1, <2>3 DEF Doomed
<1>5. CASE (\E a \in Accounts : Expire(a)) \/ (\E u \in Users : Traffic(u))
    <2>1. UNCHANGED <<owner, token, active, current, server, todo>>
        BY <1>5
        DEF Traffic, SendUpdate, Cool, GiveUp, Throttled, Deliver, Reaches, Expire
    <2> QED
        BY <2>1 DEF Doomed, Valid
<1>6. CASE UNCHANGED vars
    BY <1>6 DEF vars, Doomed, Valid
<1> QED
    BY <1>2, <1>3, <1>4, <1>5, <1>6 DEF Next

(* One bot with a revoked token keeps every bot offline, whatever else     *)
(* happens.                                                                *)
THEOREM OutageLasts == Spec => OutageIsFinal
<1>1. IInv /\ [Next]_vars => (Doomed => Doomed')
    BY NoWayOut
<1>2. IInv /\ [Next]_vars => [Doomed => Doomed']_vars
    BY <1>1
<1> QED
    BY <1>2, Invariance, PTL DEF Spec, OutageIsFinal

(* No step switches off a bot whose token is revoked: a toggle of it does  *)
(* not get past Telegram, and nothing else changes its row.                *)
LEMMA StaysStuck ==
    ASSUME IInv, [Next]_vars, NEW i \in Ids, Stuck(i)
    PROVE  Stuck(i)'
<1> USE DEF IInv, rows, telegram, process, traffic, call
<1>1. /\ i \in Rows /\ owner[i] \in Accounts /\ i \in active
      /\ token[i] # current[owner[i]] /\ token[i] <= current[owner[i]]
      /\ token[i] \in Nat /\ current[owner[i]] \in Nat
    BY DEF TypeOK, Rows, HandlersFit, Valid, Stuck
<1>2. \A h \in Calls : id[h] = i => pc[h] # "store"
    BY DEF Stuck, Toggling
<1> SUFFICES /\ owner'[i] = owner[i] /\ token'[i] = token[i] /\ i \in active'
             /\ token'[i] # current'[owner[i]]
             /\ \A h \in Calls : id'[h] = i => pc'[h] # "store"
    BY <1>1, NamesAreFree DEF Stuck, Valid, Toggling, Rows
<1>3. CASE \E h \in Calls : Admin(h)
    <2> PICK k \in Calls : Admin(k)
        BY <1>3
    <2>1. UNCHANGED <<owner, token, active, current>>
        BY DEF Admin, Register, Toggle
    <2>2. pc'[k] # "store" /\ \A h \in Calls \ {k} : pc'[h] = pc[h] /\ id'[h] = id[h]
        <3>1. CASE \E a \in Accounts : \E t \in 1 .. current[a] : Register(k, a, t)
            BY <3>1 DEF Register, Goto, TypeOK
        <3>2. CASE \E j \in Ids : Toggle(k, j)
            BY <3>2 DEF Toggle, Goto, TypeOK
        <3> QED
            BY <3>1, <3>2 DEF Admin
    <2> QED
        BY <1>1, <1>2, <2>1, <2>2
<1>4. CASE \E h \in Calls : GoOn(h)
    <2> PICK h \in Calls : GoOn(h)
        BY <1>4
    <2>1. CASE GetMe(h) \/ Insert(h) \/ SetWebhook(h)
        BY <1>1, <1>2, <2>1 DEF GetMe, Insert, SetWebhook, Goto, TypeOK
    <2>2. CASE GetMeFails(h) \/ RegisterRaises(h) \/ SwitchFails(h)
        BY <1>1, <1>2, <2>2 DEF GetMeFails, RegisterRaises, SwitchFails, Forget
    <2>3. CASE CommitBot(h)
        BY <1>1, <1>2, <2>3 DEF CommitBot, Forget, HandlersFit, TypeOK
    <2>4. CASE Switch(h)
        BY <1>1, <1>2, <2>4 DEF Switch, Goto, Valid, TypeOK
    <2>5. CASE Store(h)
        BY <1>1, <1>2, <2>5 DEF Store, Forget
    <2> QED
        BY <2>1, <2>2, <2>3, <2>4, <2>5 DEF GoOn
<1>5. CASE \E h \in Calls : Respond(h)
    <2> PICK h \in Calls : Respond(h)
        BY <1>5
    <2>1. CASE Admit(h) \/ Refuse(h) \/ Handle(h)
        BY <1>1, <1>2, <2>1 DEF Admit, Refuse, Resolve, Handle, Goto, TypeOK
    <2>2. CASE Answer(h) \/ DeliveryFails(h)
        BY <1>1, <1>2, <2>2 DEF Answer, DeliveryFails, Forget
    <2> QED
        BY <2>1, <2>2 DEF Respond
<1>6. CASE (\E h \in Calls : HandlerFails(h)) \/ Boot \/ Crash
    <2>1. UNCHANGED <<owner, token, active, current>>
        BY <1>6 DEF HandlerFails, Boot, Start, StartBot, StartupFails, Serve, Crash
    <2>2. \A h \in Calls : pc'[h] = "idle" \/ (pc'[h] = pc[h] /\ id'[h] = id[h])
        BY <1>6 DEF HandlerFails, Forget, Boot, Start, StartBot, StartupFails, Serve, Crash
    <2> QED
        BY <1>1, <1>2, <2>1, <2>2
<1>7. CASE \E a \in Accounts : Revoke(a)
    BY <1>1, <1>2, <1>7 DEF Revoke, TypeOK
<1>8. CASE (\E a \in Accounts : Expire(a)) \/ (\E u \in Users : Traffic(u))
    <2>1. UNCHANGED <<owner, token, active, current>>
        BY <1>8 DEF Traffic, SendUpdate, Cool, GiveUp, Throttled, Deliver, Expire
    <2>2. ASSUME NEW k \in Calls, NEW u \in Users, Deliver(k, u)
          PROVE  pc'[k] # "store" /\ \A h \in Calls \ {k} : pc'[h] = pc[h] /\ id'[h] = id[h]
        BY <2>2 DEF Deliver, Goto, TypeOK
    <2>3. \/ \E k \in Calls, u \in Users : Deliver(k, u)
          \/ UNCHANGED <<pc, id>>
        BY <1>8 DEF Traffic, SendUpdate, Cool, GiveUp, Throttled, Expire
    <2> QED
        BY <1>1, <1>2, <2>1, <2>2, <2>3
<1>9. CASE UNCHANGED vars
    BY <1>1, <1>2, <1>9 DEF vars
<1> QED
    BY <1>3, <1>4, <1>5, <1>6, <1>7, <1>8, <1>9 DEF Next

(* A bot that is on when its token is revoked is on for good, unless a     *)
(* toggle had told Telegram before.                                        *)
THEOREM RevokedStaysOn == Spec => StuckForGood
<1>1. IInv /\ [Next]_vars => \A i \in Ids : Stuck(i) => Stuck(i)'
    BY StaysStuck
<1>2. IInv /\ [Next]_vars => [\A i \in Ids : Stuck(i) => Stuck(i)']_vars
    BY <1>1
<1> QED
    BY <1>2, Invariance, PTL DEF Spec, StuckForGood

-----------------------------------------------------------------------------
(* The directory: what BotLifecycle promises in the terms of Directory.    *)

(* The users whose update a handler is at work on: Directory's work.       *)
Work == {u \in Users : \E h \in Calls : pc[h] = "handler" /\ whose[h] = u}

(* At the start nothing is under way. *)
LEMMA DirectoryInit == Init => Promise!Init
    BY DEF Init, Rows, Promise!Init, Promise!Entries

(* A handler that is, and stays, no user's does not change the work.       *)
LEMMA WorkStays ==
    ASSUME NEW h \in Calls, pc[h] # "handler", pc'[h] # "handler",
           \A k \in Calls \ {h} : pc'[k] = pc[k] /\ whose'[k] = whose[k]
    PROVE  Work' = Work
BY DEF Work

(* When handlers are over, work on their updates comes to nothing. *)
LEMMA WorkEnds ==
    ASSUME NEW hs \in SUBSET Calls, Forget(hs), UNCHANGED <<owner, active, traffic>>
    PROVE  Promise!Next
<1>1. Work' \subseteq Work /\ Work \subseteq Users
    BY DEF Work, Forget
<1>2. PICK us \in SUBSET Users : Work' = Work \ us
    BY <1>1
<1>3. Promise!ComeToNothing(us)
    BY <1>2 DEF Promise!ComeToNothing, Promise!directory, Work, traffic
<1> QED
    BY <1>3 DEF Promise!Next

(* A registration becomes an entry at its commit: until then nobody else   *)
(* has its id, and nobody else registers the same bot.                     *)
LEMMA CommitRegisters ==
    ASSUME IInv, NEW h \in Calls, CommitBot(h)
    PROVE  Promise!Next
<1>1. /\ id[h] \in issued \ Rows /\ issued \subseteq Ids
      /\ who[h] \in Accounts /\ ~ Registered(who[h])
    BY DEF IInv, TypeOK, HandlersFit, CommitBot
<1>2. id[h] \in Ids /\ id[h] \notin Promise!Entries
    BY <1>1 DEF Rows, Promise!Entries
<1>3. \A j \in Promise!Entries : owner[j] # who[h]
    BY <1>1 DEF Registered, Promise!Entries
<1>4. Work' = Work
    BY WorkStays DEF CommitBot, Forget
<1>5. Promise!Register(id[h], who[h])
    BY <1>2, <1>3, <1>4 DEF CommitBot, Promise!Register, Promise!updates, Work, traffic
<1> QED
    BY <1>1, <1>2, <1>5 DEF Promise!Next

(* A toggle's row changes when it is stored, if it changes at all: another *)
(* toggle may have stored the same before.                                 *)
LEMMA StoreSwitches ==
    ASSUME IInv, NEW h \in Calls, Store(h)
    PROVE  Promise!Next \/ UNCHANGED Promise!vars
<1>1. id[h] \in Promise!Entries
    BY DEF IInv, HandlersFit, Store, Rows, Promise!Entries
<1>2. Work' = Work
    BY WorkStays DEF Store, Forget
<1>3. UNCHANGED <<owner, Promise!updates>>
    BY <1>2 DEF Store, traffic, Promise!updates, Work
<1>4. \/ active' = active
      \/ active' = IF id[h] \in active THEN active \ {id[h]} ELSE active \cup {id[h]}
    BY DEF Store
<1>5. CASE active' = active
    BY <1>3, <1>5 DEF Promise!vars, Promise!directory
<1>6. CASE active' = IF id[h] \in active THEN active \ {id[h]} ELSE active \cup {id[h]}
    BY <1>1, <1>3, <1>6 DEF Promise!Switch, Promise!Next
<1> QED
    BY <1>4, <1>5, <1>6

(* An update reaches the one row of the bot it was sent to ...             *)
LEMMA ReachesItsBot ==
    ASSUME IInv, NEW u \in Users, NEW i \in Ids, Reaches(u, i)
    PROVE  owner[i] = to[u]
BY DEF IInv, TypeOK, WebhookLeadsHome, Reaches, Rows

(* ... and so it does when the row is found through Redis or by the token. *)
LEMMA RowIsItsBots ==
    ASSUME IInv, NEW h \in Calls, Resolve(h)
    PROVE  whose[h] \in Users /\ Row(h) \in Rows /\ owner[Row(h)] = to[whose[h]]
<1>1. Serving(h) /\ id[h] \in Rows /\ whose[h] \in Users /\ owner[id[h]] = to[whose[h]]
    BY DEF IInv, TypeOK, HandlersFit, WebhookLeadsHome, Serving, Resolve
<1>2. owner[id[h]] \in Accounts
    BY <1>1 DEF IInv, TypeOK, Rows
<1> QED
    BY <1>1, <1>2, NamesAreFree DEF IInv, TypeOK, WebhookLeadsHome, Row, Rows

(* Telegram and the throttle: the update waits, is accepted, dropped or    *)
(* given up.                                                               *)
LEMMA TrafficIsUpdate ==
    ASSUME IInv, NEW u \in Users, Traffic(u)
    PROVE  Promise!Next
<1> USE DEF Promise!directory, Promise!Becomes, Becomes, rows, telegram, process, call, Work
<1>1. ASSUME NEW a \in Clients, SendUpdate(u, a) PROVE Promise!Update(u)
    BY <1>1 DEF SendUpdate, Promise!Send, Promise!Update
<1>2. ASSUME NEW a \in Accounts, Cool(u, a) PROVE Promise!Update(u)
    BY <1>2 DEF Cool, Promise!Cool, Promise!Update
<1>3. ASSUME GiveUp(u) PROVE Promise!Update(u)
    <2>1. Promise!GiveUp(u)
        BY <1>3 DEF GiveUp, Promise!GiveUp
    <2> QED
        BY <2>1 DEF Promise!Update
<1>4. ASSUME Throttled(u) PROVE Promise!Update(u)
    <2> PICK i \in Ids : Reaches(u, i) /\ <<u, owner[i]>> \in hot
        BY <1>4 DEF Throttled
    <2>1. u \in queue /\ <<u, to[u]>> \in hot
        BY ReachesItsBot DEF Reaches
    <2>2. Promise!Throttle(u)
        BY <1>4, <2>1 DEF Throttled, Promise!Throttle
    <2> QED
        BY <2>2 DEF Promise!Update
<1>5. ASSUME NEW h \in Calls, Deliver(h, u) PROVE Promise!Update(u)
    <2> PICK i \in Ids : /\ Reaches(u, i) /\ <<u, owner[i]>> \notin hot
                         /\ hot' = hot \cup {<<u, owner[i]>>}
        BY <1>5 DEF Deliver
    <2>1. owner[i] = to[u] /\ u \in queue
        BY ReachesItsBot DEF Reaches
    <2>2. Work' = Work
        BY <1>5, WorkStays DEF Deliver, Goto, IInv, TypeOK
    <2> QED
        BY <1>5, <2>1, <2>2 DEF Deliver, Promise!Accept, Promise!Update
<1> QED
    BY <1>1, <1>2, <1>3, <1>4, <1>5 DEF Traffic, Promise!Next

(* The bot's row is on: work begins. *)
LEMMA AdmitAdmits ==
    ASSUME IInv, NEW h \in Calls, Admit(h)
    PROVE  Promise!Next
<1>1. PICK u \in Users, i \in Promise!Entries :
          u = whose[h] /\ i = Row(h) /\ owner[i] = to[u]
    BY RowIsItsBots DEF Admit, Rows, Promise!Entries
<1>2. Work' = Work \cup {u}
    BY <1>1 DEF Work, Admit, Resolve, Goto, IInv, TypeOK
<1>3. Promise!Admit(u, i)
    BY <1>1, <1>2 DEF Promise!Admit, Promise!directory, Admit, Resolve, Work, rows
<1>4. Promise!Update(u)
    BY <1>3 DEF Promise!Update
<1> QED
    BY <1>4 DEF Promise!Next

(* It is off: the update is dropped. *)
LEMMA RefuseRefuses ==
    ASSUME IInv, NEW h \in Calls, Refuse(h)
    PROVE  Promise!Next
<1>1. PICK u \in Users, i \in Promise!Entries :
          u = whose[h] /\ i = Row(h) /\ owner[i] = to[u]
    BY RowIsItsBots DEF Refuse, Rows, Promise!Entries
<1>2. Work' = Work
    BY WorkStays DEF Refuse, Resolve, Goto, IInv, TypeOK
<1>3. Promise!Refuse(u, i)
    BY <1>1, <1>2
    DEF Promise!Refuse, Promise!directory, Promise!Becomes, Becomes, Refuse, Resolve, Work, rows
<1>4. Promise!Update(u)
    BY <1>3 DEF Promise!Update
<1> QED
    BY <1>4 DEF Promise!Next

(* Work is done; another handler may be at work on the same update. *)
LEMMA HandleHandles ==
    ASSUME IInv, NEW h \in Calls, Handle(h)
    PROVE  Promise!Next
<1>1. PICK u \in Users : u = whose[h] /\ u \in Work
    BY DEF IInv, HandlersFit, Serving, Handle, Work
<1>2. Work' \in {Work, Work \ {u}}
    BY <1>1 DEF Work, Handle, Goto, IInv, TypeOK
<1>3. Promise!Handle(u)
    BY <1>1, <1>2
    DEF Promise!Handle, Promise!directory, Promise!Becomes, Becomes, Handle, Work, rows
<1>4. Promise!Update(u)
    BY <1>3 DEF Promise!Update
<1> QED
    BY <1>4 DEF Promise!Next

(* What is answered has been handled or dropped. *)
LEMMA AnswerAcknowledges ==
    ASSUME IInv, NEW h \in Calls, Answer(h)
    PROVE  Promise!Next \/ UNCHANGED Promise!vars
<1>1. PICK u \in Users : u = whose[h] /\ outcome[u] # "none"
    BY DEF IInv, HandlersFit, Serving, Answer
<1>2. Work' = Work
    BY WorkStays DEF Answer, Forget
<1>3. UNCHANGED <<owner, active, to, hot, outcome>> /\ queue' \in {queue, queue \ {u}}
    BY <1>1 DEF Answer, rows
<1>4. CASE queue' = queue
    BY <1>2, <1>3, <1>4 DEF Promise!vars, Promise!directory, Promise!updates, Work
<1>5. CASE u \in queue /\ queue' = queue \ {u}
    <2>1. outcome[u] \in {"handled", "dropped"}
        BY <1>1, <1>5 DEF IInv, TypeOK, HandlersFit
    <2>2. Promise!Acknowledge(u)
        BY <1>2, <1>3, <1>5, <2>1 DEF Promise!Acknowledge, Promise!directory, Work
    <2>3. Promise!Update(u)
        BY <2>2 DEF Promise!Update
    <2> QED
        BY <2>3 DEF Promise!Next
<1> QED
    BY <1>3, <1>4, <1>5

(* Every step of the code is one of the directory, or changes nothing of  *)
(* it.                                                                     *)
LEMMA DirectoryStep == IInv /\ [Next]_vars => [Promise!Next]_(Promise!vars)
<1> SUFFICES ASSUME IInv, [Next]_vars
             PROVE  Promise!Next \/ UNCHANGED Promise!vars
    OBVIOUS
<1> DEFINE Same == UNCHANGED <<owner, active, traffic>> /\ Work' = Work
<1>0. Same => UNCHANGED Promise!vars
    BY DEF Promise!vars, Promise!directory, Promise!updates, Work, traffic
<1>1. ASSUME NEW h \in Calls, Admin(h) PROVE Same
    BY <1>1, WorkStays DEF Admin, Register, Toggle, Goto, IInv, TypeOK, rows
<1>2. ASSUME NEW h \in Calls, GoOn(h) PROVE Promise!Next \/ UNCHANGED Promise!vars
    <2>1. CASE GetMe(h) \/ Insert(h) \/ SetWebhook(h) \/ Switch(h)
        <3>1. Same
            BY <2>1, WorkStays
            DEF GetMe, Insert, SetWebhook, Switch, Goto, IInv, TypeOK, rows
        <3> QED
            BY <1>0, <3>1
    <2>2. CASE GetMeFails(h) \/ RegisterRaises(h) \/ SwitchFails(h)
        BY <2>2, WorkEnds DEF GetMeFails, RegisterRaises, SwitchFails, rows
    <2> QED
        BY <1>2, <2>1, <2>2, CommitRegisters, StoreSwitches DEF GoOn
<1>3. ASSUME NEW h \in Calls, Respond(h) PROVE Promise!Next \/ UNCHANGED Promise!vars
    <2>1. CASE DeliveryFails(h)
        BY <2>1, WorkEnds DEF DeliveryFails, rows
    <2> QED
        BY <1>3, <2>1, AdmitAdmits, RefuseRefuses, HandleHandles, AnswerAcknowledges DEF Respond
<1>4. ASSUME NEW h \in Calls, HandlerFails(h) PROVE Promise!Next
    BY <1>4, WorkEnds DEF HandlerFails, rows
<1>5. CASE Crash
    BY <1>5, WorkEnds DEF Crash, rows
<1>6. CASE Boot \/ (\E a \in Accounts : Revoke(a) \/ Expire(a)) \/ UNCHANGED vars
    <2>1. Same
        BY <1>6
        DEF Boot, Start, StartBot, StartupFails, Serve, Revoke, Expire, vars, rows, call, Work
    <2> QED
        BY <1>0, <2>1
<1> QED
    BY <1>0, <1>1, <1>2, <1>3, <1>4, <1>5, <1>6, TrafficIsUpdate DEF Next

(* Tokens, webhooks, caches, repeated deliveries, lost answers, restarts   *)
(* and failures implement the directory of Directory.tla, for any bots,    *)
(* users, ids and handlers.                                                *)
THEOREM BotsImplementDirectory == Spec => ImplementsDirectory
    BY DirectoryInit, DirectoryStep, Invariance, PTL
    DEF Spec, ImplementsDirectory, Promise!Spec
=============================================================================
