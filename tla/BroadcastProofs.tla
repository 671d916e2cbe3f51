-------------------------- MODULE BroadcastProofs --------------------------
(***************************************************************************)
(* Proofs about Broadcast.tla, for every set of campaigns, users and task  *)
(* slots and every value of the limits.                                    *)
(***************************************************************************)
EXTENDS Broadcast, TLAPS

(* Every step is one of these; the proofs go through them one by one. *)
LEMMA StepCases ==
    ASSUME Next
    PROVE  \/ \E b \in Broadcasts :
                 \/ \E k \in {"now", "later"} : Finalize(b, k)
                 \/ EnqueueNow(b)
                 \/ CommitFinalize(b)
                 \/ FailFinalize(b)
                 \/ TimeArrives(b)
                 \/ SweepEnqueue(b)
           \/ SweepList
           \/ \E t \in Tasks :
                 \/ TaskNotFound(t)
                 \/ TaskStarts(t)
                 \/ TaskDropped(t)
                 \/ Claim(t)
                 \/ WaitTimesOut(t)
                 \/ FetchBatch(t)
                 \/ FinishTask(t)
                 \/ TaskFails(t)
                 \/ \E u \in Users :
                       \/ SendOk(t, u)
                       \/ SendForbidden(t, u)
                       \/ SendError(t, u)
                       \/ SendRetryAfter(t, u)
           \/ WorkerCrash
  BY DEF Next, WizardStep, TaskStep, SendStep

-----------------------------------------------------------------------------
LEMMA TypeInit == Init => TypeOK
  BY LimitsArePositive, FailuresAreBounded
  DEF Init, TypeOK, NoOutcome, Outcomes

(* Giving a slot back, and taking one, keep the types of the task's state. *)
LEMMA ReleaseType ==
    ASSUME TypeOK, NEW t \in Tasks, Release(t)
    PROVE  /\ pc' \in [Tasks -> {"free", "queued", "claim", "sending"}]
           /\ of' \in [Tasks -> Broadcasts \cup {NoBroadcast}]
           /\ \A s \in Tasks : pc'[s] # "free" => of'[s] \in Broadcasts
           /\ tries' \in [Tasks -> 0 .. MaxTries]
           /\ batch' \in [Tasks -> SUBSET Users]
           /\ out' \in [Tasks -> [Users -> {"none"} \cup Outcomes]]
  BY LimitsArePositive DEF TypeOK, Release, NoOutcome

LEMMA TypeStep == TypeOK /\ [Next]_vars => TypeOK'
<1> SUFFICES ASSUME TypeOK, [Next]_vars PROVE TypeOK'
  OBVIOUS
<1> USE LimitsArePositive, FailuresAreBounded
<1>1. CASE UNCHANGED vars
  BY <1>1 DEF TypeOK, vars, wizard, database, task
<1>2. CASE WorkerCrash
  <2>1. failures' \in [Broadcasts -> 0 .. MaxFailures]
    BY <1>2 DEF TypeOK, WorkerCrash, Running
  <2>2. pc' \in [Tasks -> {"free", "queued", "claim", "sending"}]
    BY <1>2 DEF TypeOK, WorkerCrash
  <2>3. out' \in [Tasks -> [Users -> {"none"} \cup Outcomes]]
    BY <1>2 DEF TypeOK, WorkerCrash, NoOutcome
  <2>4. QED
    BY <1>2, <2>1, <2>2, <2>3 DEF TypeOK, WorkerCrash, Running, wizard, database
<1>3. CASE SweepList
  BY <1>3 DEF TypeOK, SweepList, ListDue, wizard, database, task
<1>4. ASSUME NEW b \in Broadcasts, NEW k \in {"now", "later"}, Finalize(b, k)
      PROVE  TypeOK'
  BY <1>4 DEF TypeOK, Finalize, wizard, database, task
<1>5. ASSUME NEW b \in Broadcasts, EnqueueNow(b) PROVE TypeOK'
  BY <1>5 DEF TypeOK, EnqueueNow, Enqueue, wizard, database, task
<1>6. ASSUME NEW b \in Broadcasts, CommitFinalize(b) PROVE TypeOK'
  BY <1>6 DEF TypeOK, CommitFinalize, wizard, database, task
<1>7. ASSUME NEW b \in Broadcasts, FailFinalize(b) PROVE TypeOK'
  BY <1>7 DEF TypeOK, FailFinalize, wizard, database, task
<1>8. ASSUME NEW b \in Broadcasts, TimeArrives(b) PROVE TypeOK'
  BY <1>8 DEF TypeOK, TimeArrives, wizard, database, task
<1>9. ASSUME NEW b \in Broadcasts, SweepEnqueue(b) PROVE TypeOK'
  BY <1>9 DEF TypeOK, SweepEnqueue, Enqueue, wizard, database, task
<1>10. ASSUME NEW t \in Tasks,
              TaskNotFound(t) \/ TaskDropped(t) \/ WaitTimesOut(t)
       PROVE  TypeOK'
  <2>1. Release(t)
    BY <1>10 DEF TaskNotFound, TaskDropped, WaitTimesOut
  <2>2. UNCHANGED <<wizard, due, database, swept, delivered, failures>>
    BY <1>10 DEF TaskNotFound, TaskDropped, WaitTimesOut
  <2>3. QED
    BY <2>1, <2>2, ReleaseType DEF TypeOK, wizard, database
<1>11. ASSUME NEW t \in Tasks, TaskStarts(t) PROVE TypeOK'
  BY <1>11 DEF TypeOK, TaskStarts, MayStart, wizard, database
<1>12. ASSUME NEW t \in Tasks, Claim(t) PROVE TypeOK'
  BY <1>12 DEF TypeOK, Claim, wizard, database
<1>13. ASSUME NEW t \in Tasks, FetchBatch(t) PROVE TypeOK'
  BY <1>13 DEF TypeOK, FetchBatch, ListPending, wizard, database
<1>14. ASSUME NEW t \in Tasks, NEW u \in Users,
              SendOk(t, u) \/ SendForbidden(t, u) \/ SendError(t, u)
       PROVE  TypeOK'
  <2>1. \E o \in Outcomes : Decide(t, u, o)
    BY <1>14 DEF SendOk, SendForbidden, SendError, Outcomes
  <2>2. batch' \in [Tasks -> SUBSET Users]
    BY <2>1 DEF TypeOK, Decide
  <2>3. out' \in [Tasks -> [Users -> {"none"} \cup Outcomes]]
    BY <2>1 DEF TypeOK, Decide
  <2>4. delivered' \in [Broadcasts -> [Users -> Nat]]
    <3>1. CASE Delivers(t, u)
      <4>1. of[t] \in Broadcasts
        BY <2>1 DEF TypeOK, Decide
      <4>2. [delivered[of[t]] EXCEPT ![u] = @ + 1] \in [Users -> Nat]
        BY <4>1 DEF TypeOK
      <4>3. QED
        BY <3>1, <4>1, <4>2 DEF TypeOK, Delivers
    <3>2. CASE UNCHANGED delivered
      BY <3>2 DEF TypeOK
    <3>3. QED
      BY <1>14, <3>1, <3>2 DEF SendOk, SendForbidden, SendError
  <2>5. QED
    BY <2>1, <2>2, <2>3, <2>4 DEF TypeOK, Decide, wizard, database
<1>15. ASSUME NEW t \in Tasks, NEW u \in Users, SendRetryAfter(t, u) PROVE TypeOK'
  BY <1>15 DEF TypeOK, SendRetryAfter, wizard, database
<1>16. ASSUME NEW t \in Tasks, FinishTask(t) PROVE TypeOK'
  <2>1. jobs' \in [Broadcasts -> [Users -> {"none", "pending"} \cup Outcomes]]
    BY <1>16 DEF TypeOK, FinishTask, WriteOutcomes
  <2>2. status' \in [Broadcasts -> {"absent", "draft", "scheduled", "sent"}]
    BY <1>16 DEF TypeOK, FinishTask
  <2>3. blocked' \in SUBSET Users
    BY <1>16 DEF TypeOK, FinishTask, WriteOutcomes
  <2>4. Release(t)
    BY <1>16 DEF FinishTask
  <2>5. QED
    BY <1>16, <2>1, <2>2, <2>3, <2>4, ReleaseType DEF TypeOK, FinishTask, wizard
<1>17. ASSUME NEW t \in Tasks, TaskFails(t) PROVE TypeOK'
  <2>1. failures' \in [Broadcasts -> 0 .. MaxFailures]
    BY <1>17 DEF TypeOK, TaskFails, Running
  <2>2. Release(t)
    BY <1>17 DEF TaskFails
  <2>3. QED
    BY <1>17, <2>1, <2>2, ReleaseType DEF TypeOK, TaskFails, wizard, database
<1>18. QED
  BY <1>1, <1>2, <1>3, <1>4, <1>5, <1>6, <1>7, <1>8, <1>9, <1>10, <1>11, <1>12,
     <1>13, <1>14, <1>15, <1>16, <1>17, StepCases

(* Every variable keeps its type in every run of the system, whatever the  *)
(* number of campaigns, users and tasks.                                   *)
THEOREM TypeCorrect == Spec => []TypeOK
  BY TypeInit, TypeStep, PTL DEF Spec

-----------------------------------------------------------------------------
(* The inductive invariant.  Three groups of lemmas: the steps that leave  *)
(* campaigns and transactions alone, the wizard's, and the tasks'.         *)

LEMMA CampaignInit == Init => CampaignInv
<1> SUFFICES ASSUME Init PROVE CampaignInv
  OBVIOUS
<1>1. TypeOK
  BY TypeInit
<1>2. OneSender /\ TaskView /\ PublishedByCommit
  BY DEF Init, OneSender, TaskView, PublishedByCommit, Running, NoOutcome
<1>3. LedgerAtomic /\ SentMeansDelivered /\ NoGhostCampaign
  BY DEF Init, LedgerAtomic, SentMeansDelivered, NoGhostCampaign, NoOutcome
<1>4. DeliveriesAccounted
  BY DEF Init, DeliveriesAccounted, IsDecided
<1>5. QED
  BY <1>1, <1>2, <1>3, <1>4 DEF CampaignInv

(* A step of the queue, the clock, the sweep or the handler before its     *)
(* commit touches no committed row and no running task.                    *)
LEMMA QuietStep ==
    ASSUME CampaignInv, TypeOK',
           UNCHANGED <<audience, database, batch, out, delivered, failures>>,
           \A b \in Broadcasts : stage'[b] = "committed" <=> stage[b] = "committed",
           \A t \in Tasks : pc'[t] = "sending" <=> pc[t] = "sending",
           \A t \in Tasks : pc[t] = "sending" => of'[t] = of[t],
           \A t \in Running' : of'[t] = of[t] /\ status[of[t]] # "absent"
    PROVE  CampaignInv'
<1> USE DEF CampaignInv, database
<1>1. OneSender'
  BY DEF OneSender
<1>2. TaskView'
  BY DEF TaskView, Running, NoOutcome, TypeOK
<1>3. PublishedByCommit' /\ LedgerAtomic' /\ SentMeansDelivered' /\ NoGhostCampaign'
  BY DEF PublishedByCommit, LedgerAtomic, SentMeansDelivered, NoGhostCampaign
<1>4. ASSUME NEW b \in Broadcasts, NEW u \in Users
      PROVE  IsDecided(b, u)' <=> IsDecided(b, u)
  BY DEF IsDecided
<1>5. DeliveriesAccounted'
  BY <1>4 DEF DeliveriesAccounted
<1>6. QED
  BY <1>1, <1>2, <1>3, <1>5

LEMMA FinalizeStep ==
    ASSUME CampaignInv, TypeOK', NEW b \in Broadcasts, NEW k \in {"now", "later"}, Finalize(b, k)
    PROVE  CampaignInv'
<1> USE DEF CampaignInv, Finalize, database, task
<1>1. OneSender' /\ TaskView'
  BY DEF OneSender, TaskView, Running
<1>2. \A c \in Broadcasts : c # b => stage'[c] = stage[c] /\ audience'[c] = audience[c]
  BY DEF TypeOK
<1>3. status[b] = "absent" /\ stage'[b] # "committed"
  BY DEF TypeOK, PublishedByCommit
<1>4. PublishedByCommit'
  BY <1>2, <1>3 DEF PublishedByCommit, LedgerAtomic
<1>5. LedgerAtomic' /\ SentMeansDelivered'
  BY DEF LedgerAtomic, SentMeansDelivered
<1>6. NoGhostCampaign'
  BY <1>2 DEF NoGhostCampaign
<1>7. DeliveriesAccounted'
  BY DEF DeliveriesAccounted, IsDecided
<1>8. QED
  BY <1>1, <1>4, <1>5, <1>6, <1>7

(* Before its commit a campaign has no rows, no running task and no        *)
(* deliveries, so publishing it disturbs nobody.                           *)
LEMMA CommitStep ==
    ASSUME CampaignInv, TypeOK', NEW b \in Broadcasts, CommitFinalize(b)
    PROVE  CampaignInv'
<1> USE DEF CampaignInv, CommitFinalize, task
<1>1. /\ status[b] = "absent"
      /\ stage'[b] = "committed"
      /\ status'[b] \in {"draft", "scheduled"}
  BY DEF TypeOK, HandlerReturns, PublishedByCommit
<1>2. \A u \in Users : jobs'[b][u] \in {"none", "pending"}
                      /\ (jobs'[b][u] # "none" => u \in audience[b])
  BY DEF TypeOK
<1>3. \A c \in Broadcasts :
        c # b => stage'[c] = stage[c] /\ status'[c] = status[c] /\ jobs'[c] = jobs[c]
  BY DEF TypeOK
<1>4. \A t \in Running : of[t] # b /\ of[t] \in Broadcasts
  BY <1>1 DEF TaskView, TypeOK, Running
<1>5. \A u \in Users : delivered[b][u] = 0 /\ jobs[b][u] = "none"
  BY <1>1 DEF NoGhostCampaign, PublishedByCommit, LedgerAtomic, TypeOK
<1>6. OneSender'
  BY DEF OneSender
<1>7. TaskView'
  <2>1. \A t \in Tasks : t \notin Running => batch[t] = {} /\ out[t] = NoOutcome
    BY DEF TaskView, Running, TypeOK
  <2>2. QED
    BY <1>3, <1>4, <2>1 DEF TaskView, Running, NoOutcome, TypeOK
<1>8. PublishedByCommit'
  BY <1>1, <1>2, <1>3 DEF PublishedByCommit
<1>9. LedgerAtomic'
  BY <1>1, <1>2, <1>3 DEF LedgerAtomic
<1>10. SentMeansDelivered'
  BY <1>2, <1>3 DEF SentMeansDelivered
<1>11. NoGhostCampaign'
  BY <1>1, <1>3, <1>5 DEF NoGhostCampaign
<1>12. DeliveriesAccounted'
  <2>1. ASSUME NEW c \in Broadcasts, NEW u \in Users, c # b
        PROVE  IsDecided(c, u)' <=> IsDecided(c, u)
    BY <2>1, <1>3 DEF IsDecided
  <2>2. ASSUME NEW u \in Users
        PROVE  delivered'[b][u] <= failures'[b]
    BY <1>5 DEF TypeOK
  <2>3. SUFFICES ASSUME NEW c \in Broadcasts, NEW u \in Users
                 PROVE  delivered'[c][u] <=
                          failures'[c] + (IF IsDecided(c, u)' THEN 1 ELSE 0)
    BY Zenon DEF DeliveriesAccounted
  <2>4. CASE c = b
    BY <2>2, <2>4 DEF TypeOK
  <2>5. CASE c # b
    BY <2>1, <2>5 DEF DeliveriesAccounted
  <2>6. QED
    BY <2>4, <2>5
<1>13. QED
  BY <1>6, <1>7, <1>8, <1>9, <1>10, <1>11, <1>12

LEMMA ClaimStep ==
    ASSUME CampaignInv, TypeOK', NEW t \in Tasks, Claim(t)
    PROVE  CampaignInv'
<1> USE DEF CampaignInv, Claim, wizard, database
<1>1. pc' = [pc EXCEPT ![t] = "sending"] /\ out[t] = NoOutcome
  BY DEF TaskView
<1>2. OneSender'
  BY DEF OneSender, HoldsRow, TypeOK
<1>3. TaskView'
  BY <1>1 DEF TaskView, Running, TypeOK
<1>4. PublishedByCommit' /\ LedgerAtomic' /\ SentMeansDelivered' /\ NoGhostCampaign'
  BY DEF PublishedByCommit, LedgerAtomic, SentMeansDelivered, NoGhostCampaign
<1>5. ASSUME NEW b \in Broadcasts, NEW u \in Users
      PROVE  IsDecided(b, u)' <=> IsDecided(b, u)
  BY <1>1 DEF IsDecided, NoOutcome, TypeOK
<1>6. DeliveriesAccounted'
  BY <1>5 DEF DeliveriesAccounted
<1>7. QED
  BY <1>2, <1>3, <1>4, <1>6

(* Reading a batch, and dropping a row from it on a 429, decide nobody. *)
LEMMA BatchStep ==
    ASSUME CampaignInv, TypeOK', NEW t \in Tasks,
           \/ FetchBatch(t)
           \/ \E u \in Users : SendRetryAfter(t, u)
    PROVE  CampaignInv'
<1> USE DEF CampaignInv, wizard, database
<1>1. /\ pc[t] = "sending"
      /\ UNCHANGED <<stage, audience, status, jobs, pc, of, out, delivered, failures>>
      /\ \E rows : /\ batch' = [batch EXCEPT ![t] = rows]
                   /\ rows \subseteq batch[t] \/ rows \subseteq ListPending(t)
  BY DEF FetchBatch, SendRetryAfter
<1>2. OneSender'
  BY <1>1 DEF OneSender
<1>3. TaskView'
  BY <1>1 DEF TaskView, Running, ListPending, TypeOK
<1>4. PublishedByCommit' /\ LedgerAtomic' /\ SentMeansDelivered' /\ NoGhostCampaign'
  BY <1>1 DEF PublishedByCommit, LedgerAtomic, SentMeansDelivered, NoGhostCampaign
<1>5. DeliveriesAccounted'
  BY <1>1 DEF DeliveriesAccounted, IsDecided
<1>6. QED
  BY <1>2, <1>3, <1>4, <1>5

(* A recipient's outcome is recorded by the only sender of the campaign.   *)
(* "Nobody had decided u" is what pays for the delivery of this step.      *)
LEMMA SendKeepsCampaign ==
    ASSUME CampaignInv, TypeOK', NEW t \in Tasks, NEW u \in Users,
           SendOk(t, u) \/ SendForbidden(t, u) \/ SendError(t, u)
    PROVE  CampaignInv'
<1> DEFINE b == of[t]
<1> USE DEF CampaignInv
<1>1. PICK o \in Outcomes : Decide(t, u, o) /\ (o = "sent" => Delivers(t, u))
  BY DEF SendOk, SendForbidden, SendError, Outcomes
<1>2. /\ pc[t] = "sending" /\ b \in Broadcasts /\ u \in batch[t]
      /\ UNCHANGED <<stage, audience, status, jobs, pc, of, failures>>
      /\ batch' = [batch EXCEPT ![t] = @ \ {u}]
      /\ out' = [out EXCEPT ![t] = [out[t] EXCEPT ![u] = o]]
  BY <1>1 DEF Decide, TypeOK, wizard, database
<1>3. /\ jobs[b][u] = "pending" /\ out[t][u] = "none"
      /\ status[b] # "absent" /\ stage[b] = "committed" /\ u \in audience[b]
  BY <1>2 DEF TaskView, PublishedByCommit, Running
<1>4. /\ \A c \in Broadcasts, v \in Users :
           <<c, v>> # <<b, u>> => delivered'[c][v] = delivered[c][v]
      /\ delivered'[b][u] \in {delivered[b][u], delivered[b][u] + 1}
      /\ o = "sent" => delivered'[b][u] = delivered[b][u] + 1
  <2>1. CASE Delivers(t, u)
    BY <1>2, <2>1 DEF Delivers, TypeOK
  <2>2. CASE UNCHANGED delivered /\ o # "sent"
    BY <2>2
  <2>3. QED
    BY <1>1, <2>1, <2>2 DEF SendOk, SendForbidden, SendError
<1>5. \A c \in Broadcasts, v \in Users : delivered[c][v] \in Nat /\ failures[c] \in Nat
  BY FailuresAreBounded DEF TypeOK
<1>6. \A c \in Broadcasts, v \in Users : delivered'[c][v] >= delivered[c][v]
  BY <1>4, <1>5
<1>7. \A s \in Tasks, v \in Users :
        out'[s][v] = IF s = t /\ v = u THEN o ELSE out[s][v]
  BY <1>2 DEF TypeOK
<1>8. OneSender'
  BY <1>2 DEF OneSender
<1>9. TaskView'
  <2>1. \A s \in Tasks : s \in Running' => status'[of'[s]] # "absent"
    BY <1>2 DEF TaskView, Running
  <2>2. \A s \in Tasks : pc'[s] # "sending" => batch'[s] = {} /\ out'[s] = NoOutcome
    BY <1>2 DEF TaskView, TypeOK
  <2>3. \A s \in Tasks : \A v \in batch'[s] :
          jobs'[of'[s]][v] = "pending" /\ out'[s][v] = "none"
    BY <1>2, <1>7 DEF TaskView, TypeOK
  <2>4. \A s \in Tasks, v \in Users :
          out'[s][v] # "none" => jobs'[of'[s]][v] = "pending"
    BY <1>2, <1>3, <1>7 DEF TaskView
  <2>5. ASSUME NEW s \in Tasks, NEW v \in Users, out'[s][v] = "sent"
        PROVE  delivered'[of'[s]][v] >= 1
    <3>1. CASE s = t /\ v = u
      BY <1>2, <1>4, <1>5, <1>7, <2>5, <3>1
    <3>2. CASE ~(s = t /\ v = u)
      <4>1. out[s][v] = "sent"
        BY <1>7, <2>5, <3>2
      <4>2. pc[s] = "sending"
        BY <4>1 DEF TaskView, NoOutcome
      <4>3. of[s] \in Broadcasts
        BY <4>2 DEF TypeOK
      <4>4. delivered[of[s]][v] >= 1
        BY <4>1 DEF TaskView
      <4>5. delivered'[of[s]][v] \in Nat
        BY <4>3, TypeOK' DEF TypeOK
      <4>6. QED
        BY <1>2, <1>5, <1>6, <4>3, <4>4, <4>5
    <3>3. QED
      BY <3>1, <3>2
  <2>6. NoOutcome' = NoOutcome
    BY DEF NoOutcome
  <2>7. QED
    BY <2>1, <2>2, <2>3, <2>4, <2>5, <2>6 DEF TaskView
<1>10. PublishedByCommit' /\ LedgerAtomic'
  BY <1>2 DEF PublishedByCommit, LedgerAtomic
<1>11. SentMeansDelivered'
  BY <1>2, <1>4, <1>5 DEF SentMeansDelivered
<1>12. NoGhostCampaign'
  BY <1>2, <1>3, <1>4 DEF NoGhostCampaign
<1>13. DeliveriesAccounted'
  <2>1. ~ IsDecided(b, u)
    BY <1>2, <1>3 DEF IsDecided, OneSender, Outcomes
  <2>2. IsDecided(b, u)'
    BY <1>1, <1>2, <1>7 DEF IsDecided, Outcomes
  <2>3. ASSUME NEW c \in Broadcasts, NEW v \in Users, <<c, v>> # <<b, u>>
        PROVE  IsDecided(c, v)' <=> IsDecided(c, v)
    BY <1>2, <1>7, <2>3 DEF IsDecided
  <2>4. SUFFICES ASSUME NEW c \in Broadcasts, NEW v \in Users
                 PROVE  delivered'[c][v] <=
                          failures'[c] + (IF IsDecided(c, v)' THEN 1 ELSE 0)
    BY Zenon DEF DeliveriesAccounted
  <2>5. CASE <<c, v>> = <<b, u>>
    <3>1. delivered[b][u] <= failures[b]
      BY <1>2, <1>5, <2>1 DEF DeliveriesAccounted
    <3>2. QED
      BY <1>2, <1>4, <1>5, <2>2, <2>5, <3>1
  <2>6. CASE <<c, v>> # <<b, u>>
    BY <1>2, <1>4, <2>3, <2>6 DEF DeliveriesAccounted
  <2>7. QED
    BY <2>5, <2>6
<1>14. QED
  BY <1>8, <1>9, <1>10, <1>11, <1>12, <1>13

(* The commit turns the task's outcomes into everybody's. *)
LEMMA FinishStep ==
    ASSUME CampaignInv, TypeOK', NEW t \in Tasks, FinishTask(t)
    PROVE  CampaignInv'
<1> DEFINE b == of[t]
<1> USE DEF CampaignInv
<1>1. /\ pc[t] = "sending" /\ b \in Broadcasts /\ ListPending(t) = {}
      /\ UNCHANGED <<stage, audience, delivered, failures>>
      /\ status' = [status EXCEPT ![b] = "sent"]
  BY DEF FinishTask, TypeOK, wizard
<1>2. /\ \A c \in Broadcasts : c # b => jobs'[c] = jobs[c]
      /\ \A u \in Users :
            jobs'[b][u] = IF out[t][u] = "none" THEN jobs[b][u] ELSE out[t][u]
  BY <1>1 DEF FinishTask, WriteOutcomes, TypeOK
<1>3. /\ pc'[t] = "free" /\ batch'[t] = {} /\ out'[t] = NoOutcome
      /\ \A s \in Tasks : s # t =>
            pc'[s] = pc[s] /\ of'[s] = of[s] /\ batch'[s] = batch[s] /\ out'[s] = out[s]
  BY DEF FinishTask, Release, TypeOK
<1>4. \A s \in Tasks : s # t /\ pc[s] = "sending" => of[s] # b
  BY <1>1 DEF OneSender
<1>5. status[b] # "absent" /\ stage[b] = "committed"
  BY <1>1 DEF TaskView, PublishedByCommit, Running
<1>6. OneSender'
  BY <1>3 DEF OneSender
<1>7. TaskView'
  <2>1. \A s \in Tasks : s # t /\ pc[s] = "sending" => of[s] \in Broadcasts
    BY DEF TypeOK
  <2>2. NoOutcome' = NoOutcome /\ \A u \in Users : NoOutcome[u] = "none"
    BY DEF NoOutcome
  <2>3. TaskView!(t)'
    BY <1>3, <2>2 DEF TaskView, Running
  <2>4. ASSUME NEW s \in Tasks, s # t PROVE TaskView!(s)'
    <3>1. CASE pc[s] = "sending"
      BY <1>1, <1>2, <1>3, <1>4, <2>1, <2>2, <2>4, <3>1 DEF TaskView, Running, TypeOK
    <3>2. CASE pc[s] # "sending"
      BY <1>1, <1>3, <2>2, <2>4, <3>2 DEF TaskView, Running, TypeOK
    <3>3. QED
      BY <3>1, <3>2
  <2>5. QED
    BY <2>3, <2>4 DEF TaskView
<1>8. PublishedByCommit'
  <2>1. \A u \in Users : jobs'[b][u] # "none" => u \in audience[b]
    BY <1>1, <1>2 DEF PublishedByCommit, TaskView
  <2>2. \A c \in Broadcasts : c # b => status'[c] = status[c]
    BY <1>1 DEF TypeOK
  <2>3. status'[b] = "sent"
    BY <1>1 DEF TypeOK
  <2>4. QED
    BY <1>1, <1>2, <1>5, <2>1, <2>2, <2>3 DEF PublishedByCommit
<1>9. LedgerAtomic'
  <2>1. \A u \in Users : jobs'[b][u] # "pending"
    <3>1. SUFFICES ASSUME NEW u \in Users PROVE jobs'[b][u] # "pending"
      OBVIOUS
    <3>2. jobs[b][u] # "pending" \/ out[t][u] # "none"
      BY <1>1 DEF ListPending
    <3>3. out[t][u] \in {"none"} \cup Outcomes
      BY DEF TypeOK
    <3>4. QED
      BY <1>2, <3>2, <3>3 DEF Outcomes
  <2>2. QED
    BY <1>1, <1>2, <2>1 DEF LedgerAtomic, TypeOK
<1>10. SentMeansDelivered'
  BY <1>1, <1>2 DEF SentMeansDelivered, TaskView
<1>11. NoGhostCampaign'
  BY <1>1 DEF NoGhostCampaign
<1>12. DeliveriesAccounted'
  <2>1. ASSUME NEW c \in Broadcasts, NEW u \in Users, IsDecided(c, u)
        PROVE  IsDecided(c, u)'
    <3>1. CASE c = b
      <4>1. jobs[b][u] \in Outcomes \/ out[t][u] \in Outcomes
        BY <1>4, <2>1, <3>1 DEF IsDecided, TypeOK
      <4>2. jobs'[b][u] \in Outcomes
        BY <1>2, <4>1 DEF Outcomes, TypeOK
      <4>3. QED
        BY <3>1, <4>2 DEF IsDecided, Outcomes
    <3>2. CASE c # b
      BY <1>2, <1>3, <2>1, <3>2 DEF IsDecided
    <3>3. QED
      BY <3>1, <3>2
  <2>2. SUFFICES ASSUME NEW c \in Broadcasts, NEW u \in Users
                 PROVE  delivered'[c][u] <=
                          failures'[c] + (IF IsDecided(c, u)' THEN 1 ELSE 0)
    BY Zenon DEF DeliveriesAccounted
  <2>3. delivered[c][u] \in Nat /\ failures[c] \in Nat
    BY FailuresAreBounded DEF TypeOK
  <2>4. QED
    BY <1>1, <2>1, <2>3 DEF DeliveriesAccounted
<1>13. QED
  BY <1>6, <1>7, <1>8, <1>9, <1>10, <1>11, <1>12

(* A rollback forgets outcomes; the failure pays for what was delivered.   *)
(* S is the set of tasks rolled back, one for an abort and all the running *)
(* ones for a crash.                                                       *)
LEMMA RollbackStep ==
    ASSUME CampaignInv, TypeOK', NEW S \in SUBSET Running,
           UNCHANGED <<stage, audience, database, delivered>>,
           \A t \in S : pc'[t] \in {"free", "queued"},
           \A t \in Tasks : t \in S \/ pc[t] # "sending" => batch'[t] = {} /\ out'[t] = NoOutcome,
           \A t \in Tasks \ S : pc'[t] = pc[t] /\ of'[t] = of[t],
           \A t \in Tasks \ S : pc[t] = "sending" => batch'[t] = batch[t] /\ out'[t] = out[t],
           \A b \in Broadcasts : failures'[b] >= failures[b],
           \A t \in S : failures'[of[t]] >= failures[of[t]] + 1
    PROVE  CampaignInv'
<1> USE DEF CampaignInv, database
<1>1. \A t \in Tasks : /\ t \in Running' => t \in Running /\ of'[t] = of[t]
                       /\ pc'[t] = "sending" => t \notin S /\ pc[t] = "sending"
  BY DEF Running
<1>2. OneSender'
  BY <1>1 DEF OneSender
<1>3. TaskView'
  <2>1. NoOutcome' = NoOutcome /\ \A u \in Users : NoOutcome[u] = "none"
    BY DEF NoOutcome
  <2>2. QED
    BY <1>1, <2>1 DEF TaskView, Running
<1>4. PublishedByCommit' /\ LedgerAtomic' /\ SentMeansDelivered' /\ NoGhostCampaign'
  BY DEF PublishedByCommit, LedgerAtomic, SentMeansDelivered, NoGhostCampaign
<1>5. DeliveriesAccounted'
  <2>1. SUFFICES ASSUME NEW b \in Broadcasts, NEW u \in Users
                 PROVE  delivered'[b][u] <=
                          failures'[b] + (IF IsDecided(b, u)' THEN 1 ELSE 0)
    BY Zenon DEF DeliveriesAccounted
  <2>2. /\ delivered[b][u] \in Nat /\ failures[b] \in Nat /\ failures'[b] \in Nat
        /\ failures'[b] >= failures[b]
    BY FailuresAreBounded DEF TypeOK
  <2>3. CASE \E t \in S : of[t] = b
    BY <2>2, <2>3 DEF DeliveriesAccounted
  <2>4. CASE ~ \E t \in S : of[t] = b
    <3>1. IsDecided(b, u) => IsDecided(b, u)'
      BY <2>4 DEF IsDecided
    <3>2. QED
      BY <2>2, <3>1 DEF DeliveriesAccounted
  <2>5. QED
    BY <2>3, <2>4
<1>6. QED
  BY <1>2, <1>3, <1>4, <1>5

LEMMA CampaignStep == CampaignInv /\ [Next]_vars => CampaignInv'
<1> SUFFICES ASSUME CampaignInv, [Next]_vars PROVE CampaignInv'
  OBVIOUS
<1>1. TypeOK /\ TypeOK'
  BY TypeStep DEF CampaignInv
<1> USE <1>1
<1>2. \A t \in Tasks : pc[t] # "sending" => batch[t] = {} /\ out[t] = NoOutcome
  BY DEF CampaignInv, TaskView
<1>3. CASE UNCHANGED vars
  BY <1>3, QuietStep DEF vars, wizard, database, task, Running, CampaignInv, TaskView
<1>4. CASE SweepList
  BY <1>4, QuietStep DEF SweepList, wizard, database, task, Running, CampaignInv, TaskView
<1>5. CASE WorkerCrash
  <2>1. /\ UNCHANGED <<stage, audience, database, delivered, of>>
        /\ \A t \in Running : pc'[t] = "queued"
        /\ \A t \in Tasks : batch'[t] = {} /\ out'[t] = NoOutcome
        /\ \A t \in Tasks \ Running : pc'[t] = pc[t] /\ pc[t] # "sending"
    BY <1>5 DEF WorkerCrash, wizard, database, Running
  <2>2. \A b \in Broadcasts : failures'[b] >= failures[b]
    BY <1>5, FailuresAreBounded DEF WorkerCrash, TypeOK
  <2>3. \A t \in Running : failures'[of[t]] >= failures[of[t]] + 1
    BY <1>5, FailuresAreBounded DEF WorkerCrash, TypeOK, Running
  <2>4. Running \in SUBSET Running
    OBVIOUS
  <2>5. QED
    BY <2>1, <2>2, <2>3, <2>4, RollbackStep
<1>6. ASSUME NEW b \in Broadcasts,
             EnqueueNow(b) \/ FailFinalize(b) \/ TimeArrives(b) \/ SweepEnqueue(b)
      PROVE  CampaignInv'
  <2>1. /\ UNCHANGED <<audience, database, batch, out, delivered, failures>>
        /\ \A c \in Broadcasts : stage'[c] = "committed" <=> stage[c] = "committed"
    BY <1>6 DEF EnqueueNow, FailFinalize, TimeArrives, SweepEnqueue, Enqueue, wizard,
                database, task, TypeOK
  <2>2. \A t \in Tasks : \/ pc'[t] = pc[t] /\ of'[t] = of[t]
                         \/ pc[t] = "free" /\ pc'[t] = "queued"
    BY <1>6 DEF EnqueueNow, FailFinalize, TimeArrives, SweepEnqueue, Enqueue, wizard,
                task, TypeOK
  <2>3. \A t \in Running' : of'[t] = of[t] /\ status[of[t]] # "absent"
    BY <2>2 DEF Running, CampaignInv, TaskView
  <2>4. QED
    BY <2>1, <2>2, <2>3, QuietStep
<1>7. ASSUME NEW t \in Tasks, TaskNotFound(t) \/ TaskDropped(t) \/ WaitTimesOut(t)
      PROVE  CampaignInv'
  <2>1. /\ pc[t] \in {"queued", "claim"}
        /\ UNCHANGED <<stage, audience, database, delivered, failures>>
        /\ Release(t)
    BY <1>7 DEF TaskNotFound, TaskDropped, WaitTimesOut, MayStart, wizard, database
  <2>2. UNCHANGED <<batch, out>>
    BY <1>2, <2>1 DEF Release, TypeOK
  <2>3. pc'[t] = "free" /\ \A s \in Tasks : s # t => pc'[s] = pc[s] /\ of'[s] = of[s]
    BY <2>1 DEF Release, TypeOK
  <2>4. \A s \in Running' : of'[s] = of[s] /\ status[of[s]] # "absent"
    BY <2>3 DEF Running, CampaignInv, TaskView
  <2>5. QED
    BY <2>1, <2>2, <2>3, <2>4, QuietStep
<1>8. ASSUME NEW t \in Tasks, TaskStarts(t) PROVE CampaignInv'
  <2>1. /\ pc[t] = "queued" /\ pc'[t] = "claim" /\ status[of[t]] # "absent"
        /\ \A s \in Tasks : s # t => pc'[s] = pc[s]
        /\ UNCHANGED <<stage, audience, database, of, batch, out, delivered, failures>>
    BY <1>8 DEF TaskStarts, MayStart, wizard, database, TypeOK
  <2>2. \A s \in Running' : of'[s] = of[s] /\ status[of[s]] # "absent"
    BY <2>1 DEF Running, CampaignInv, TaskView
  <2>3. QED
    BY <2>1, <2>2, QuietStep
<1>9. ASSUME NEW t \in Tasks, TaskFails(t) PROVE CampaignInv'
  <2>1. /\ t \in Running /\ of[t] \in Broadcasts
        /\ UNCHANGED <<stage, audience, database, delivered>>
        /\ Release(t)
        /\ failures' = [failures EXCEPT ![of[t]] = @ + 1]
    BY <1>9 DEF TaskFails, wizard, database, Running, TypeOK
  <2>2. /\ pc'[t] = "free" /\ batch'[t] = {} /\ out'[t] = NoOutcome
        /\ \A s \in Tasks : s # t =>
              pc'[s] = pc[s] /\ of'[s] = of[s] /\ batch'[s] = batch[s] /\ out'[s] = out[s]
    BY <2>1 DEF Release, TypeOK
  <2>3. /\ \A b \in Broadcasts : failures'[b] >= failures[b]
        /\ failures'[of[t]] >= failures[of[t]] + 1
    BY <2>1, FailuresAreBounded DEF TypeOK
  <2>4. PICK S : S = {t}
    OBVIOUS
  <2>5. S \in SUBSET Running /\ \A s \in S : pc'[s] \in {"free", "queued"}
    BY <2>1, <2>2, <2>4
  <2>6. \A s \in Tasks : s \in S \/ pc[s] # "sending" => batch'[s] = {} /\ out'[s] = NoOutcome
    BY <1>2, <2>2, <2>4
  <2>7. \A s \in Tasks \ S : pc'[s] = pc[s] /\ of'[s] = of[s]
    BY <2>2, <2>4
  <2>8. \A s \in Tasks \ S : pc[s] = "sending" => batch'[s] = batch[s] /\ out'[s] = out[s]
    BY <2>2, <2>4
  <2>9. \A s \in S : failures'[of[s]] >= failures[of[s]] + 1
    BY <2>3, <2>4
  <2>10. QED
    BY <2>1, <2>3, <2>5, <2>6, <2>7, <2>8, <2>9, RollbackStep
<1>10. QED
  BY <1>3, <1>4, <1>5, <1>6, <1>7, <1>8, <1>9, StepCases, FinalizeStep, CommitStep,
     ClaimStep, BatchStep, SendKeepsCampaign, FinishStep

(* The invariant of the campaigns is inductive by itself. *)
LEMMA CampaignsHold == Spec => []CampaignInv
  BY CampaignInit, CampaignStep, PTL DEF Spec

(* A recipient gets at most one message more than its campaign has had     *)
(* tasks aborted: no number of duplicate jobs, sweeps or workers sends a   *)
(* second one without a rollback.                                          *)
THEOREM DeliveryIsBounded == Spec => []BoundedDelivery
<1>1. ASSUME CampaignInv, NEW b \in Broadcasts, NEW u \in Users
      PROVE  delivered[b][u] <= 1 + failures[b]
  <2>1. delivered[b][u] \in Nat /\ failures[b] \in Nat
    BY <1>1, FailuresAreBounded DEF CampaignInv, TypeOK
  <2>2. delivered[b][u] <= failures[b] + (IF IsDecided(b, u) THEN 1 ELSE 0)
    BY <1>1 DEF CampaignInv, DeliveriesAccounted
  <2>3. QED
    BY <2>1, <2>2
<1>2. CampaignInv => BoundedDelivery
  BY <1>1 DEF BoundedDelivery
<1>3. QED
  BY <1>2, CampaignsHold, PTL

(* Readers of the database never see a campaign half sent. *)
THEOREM LedgerIsAtomic == Spec => []LedgerAtomic
<1>1. CampaignInv => LedgerAtomic
  BY DEF CampaignInv
<1>2. QED
  BY <1>1, CampaignsHold, PTL

(* SENT in the ledger means that Telegram took the message. *)
THEOREM LedgerIsTrue == Spec => []SentMeansDelivered
<1>1. CampaignInv => SentMeansDelivered
  BY DEF CampaignInv
<1>2. QED
  BY <1>1, CampaignsHold, PTL

(* Only recipients of committed campaigns get messages. *)
THEOREM NoGhosts == Spec => []NoGhostCampaign
<1>1. CampaignInv => NoGhostCampaign
  BY DEF CampaignInv
<1>2. QED
  BY <1>1, CampaignsHold, PTL

-----------------------------------------------------------------------------
(* What a sender knows: its campaign is open. *)
LEMMA OpenWhilePending ==
    ASSUME CampaignInv, NEW b \in Broadcasts, NEW u \in Users, jobs[b][u] = "pending"
    PROVE  status[b] \in {"draft", "scheduled"}
  BY DEF CampaignInv, LedgerAtomic, TypeOK

(* Only three kinds of step change rows or send messages. *)
LEMMA VisibleSteps ==
    ASSUME CampaignInv, [Next]_vars
    PROVE  \/ UNCHANGED <<database, delivered>>
           \/ \E b \in Broadcasts : CommitFinalize(b)
           \/ \E t \in Tasks, u \in Users :
                 /\ pc[t] = "sending"
                 /\ u \in batch[t]
                 /\ UNCHANGED database
                 /\ Delivers(t, u)
           \/ \E t \in Tasks : FinishTask(t)
<1>1. CASE UNCHANGED vars \/ SweepList \/ WorkerCrash
  BY <1>1 DEF vars, SweepList, WorkerCrash
<1>2. ASSUME NEW b \in Broadcasts,
             \/ \E k \in {"now", "later"} : Finalize(b, k)
             \/ EnqueueNow(b) \/ FailFinalize(b) \/ TimeArrives(b) \/ SweepEnqueue(b)
      PROVE  UNCHANGED <<database, delivered>>
  BY <1>2 DEF Finalize, EnqueueNow, FailFinalize, TimeArrives, SweepEnqueue
<1>3. ASSUME NEW t \in Tasks,
             \/ TaskNotFound(t) \/ TaskStarts(t) \/ TaskDropped(t) \/ Claim(t)
             \/ WaitTimesOut(t) \/ FetchBatch(t) \/ TaskFails(t)
             \/ \E u \in Users : SendForbidden(t, u) \/ SendRetryAfter(t, u)
      PROVE  UNCHANGED <<database, delivered>>
  BY <1>3 DEF TaskNotFound, TaskStarts, TaskDropped, Claim, WaitTimesOut, FetchBatch,
              TaskFails, SendForbidden, SendRetryAfter, Decide
<1>4. ASSUME NEW t \in Tasks, NEW u \in Users, SendOk(t, u) \/ SendError(t, u)
      PROVE  \/ UNCHANGED <<database, delivered>>
             \/ /\ pc[t] = "sending"
                /\ u \in batch[t]
                /\ UNCHANGED database
                /\ Delivers(t, u)
  BY <1>4 DEF SendOk, SendError, Decide
<1>5. QED
  BY <1>1, <1>2, <1>3, <1>4, StepCases

(* The jobs marked SKIPPED and the flags of their users are committed by   *)
(* one step, and no step takes a flag back.                                *)
LEMMA SkippedStep == CampaignInv /\ SkippedIsBlocked /\ [Next]_vars => SkippedIsBlocked'
<1> SUFFICES ASSUME CampaignInv, SkippedIsBlocked, [Next]_vars PROVE SkippedIsBlocked'
  OBVIOUS
<1>1. CASE UNCHANGED database
  BY <1>1 DEF database, SkippedIsBlocked
<1>2. ASSUME NEW b \in Broadcasts, CommitFinalize(b) PROVE SkippedIsBlocked'
  <2>1. \A c \in Broadcasts, u \in Users : jobs'[c][u] = "skipped" => jobs[c][u] = "skipped"
    BY <1>2 DEF CommitFinalize, CampaignInv, TypeOK
  <2>2. QED
    BY <1>2, <2>1 DEF CommitFinalize, SkippedIsBlocked
<1>3. ASSUME NEW t \in Tasks, FinishTask(t) PROVE SkippedIsBlocked'
  <2>1. WriteOutcomes(t)
    BY <1>3 DEF FinishTask
  <2>2. \A c \in Broadcasts, u \in Users :
           jobs'[c][u] = jobs[c][u] \/ jobs'[c][u] = out[t][u]
    BY <2>1 DEF WriteOutcomes, CampaignInv, TypeOK
  <2>3. QED
    BY <2>1, <2>2 DEF WriteOutcomes, SkippedIsBlocked
<1>4. QED
  BY <1>1, <1>2, <1>3, VisibleSteps

(* The invariant that TLC checks is inductive. *)
THEOREM InductiveInvariant == Spec => []IInv
<1>1. Init => CampaignInv /\ SkippedIsBlocked
  BY CampaignInit DEF Init, NoOutcome, SkippedIsBlocked
<1>2. CampaignInv /\ SkippedIsBlocked /\ [Next]_vars => CampaignInv' /\ SkippedIsBlocked'
  BY CampaignStep, SkippedStep
<1>3. QED
  BY <1>1, <1>2, PTL DEF Spec, IInv

(* A campaign is composed by Finalize and by nothing else. *)
LEMMA ComposedByFinalize ==
    ASSUME TypeOK, [Next]_vars, NEW c \in Broadcasts, stage[c] = "none", stage'[c] # "none"
    PROVE  audience'[c] = Users \ blocked
<1>1. CASE UNCHANGED <<wizard>>
  BY <1>1 DEF wizard
<1>2. ASSUME NEW b \in Broadcasts, EnqueueNow(b) \/ CommitFinalize(b) \/ FailFinalize(b)
      PROVE  FALSE
  <2>1. stage[b] # "none" /\ \A d \in Broadcasts \ {b} : stage'[d] = stage[d]
    BY <1>2 DEF EnqueueNow, CommitFinalize, HandlerReturns, FailFinalize, TypeOK
  <2>2. QED
    BY <2>1
<1>3. ASSUME NEW b \in Broadcasts, NEW k \in {"now", "later"}, Finalize(b, k)
      PROVE  audience'[c] = Users \ blocked
  BY <1>3 DEF Finalize, TypeOK
<1>4. CASE UNCHANGED vars \/ SweepList \/ WorkerCrash
  BY <1>1, <1>4 DEF vars, SweepList, WorkerCrash
<1>5. ASSUME NEW b \in Broadcasts, TimeArrives(b) \/ SweepEnqueue(b) PROVE UNCHANGED wizard
  BY <1>5 DEF TimeArrives, SweepEnqueue
<1>6. ASSUME NEW t \in Tasks,
             \/ TaskNotFound(t) \/ TaskStarts(t) \/ TaskDropped(t) \/ Claim(t)
             \/ WaitTimesOut(t) \/ FetchBatch(t) \/ FinishTask(t) \/ TaskFails(t)
      PROVE  UNCHANGED wizard
  BY <1>6 DEF TaskNotFound, TaskStarts, TaskDropped, Claim, WaitTimesOut, FetchBatch,
              FinishTask, TaskFails
<1>7. ASSUME NEW t \in Tasks, NEW u \in Users,
             SendOk(t, u) \/ SendForbidden(t, u) \/ SendError(t, u) \/ SendRetryAfter(t, u)
      PROVE  UNCHANGED wizard
  BY <1>7 DEF SendOk, SendForbidden, SendError, SendRetryAfter, Decide
<1>8. QED
  BY <1>1, <1>2, <1>3, <1>4, <1>5, <1>6, <1>7, StepCases

(* Who was once skipped is in no campaign composed later: the flag is      *)
(* committed with the job, and nothing resets it.                          *)
THEOREM SkippedAreLeftOut == Spec => LeftOutForGood
<1>1. ASSUME IInv, [Next]_vars, NEW b \in Broadcasts, NEW c \in Broadcasts, NEW u \in Users,
             jobs[b][u] = "skipped", stage[c] = "none", stage'[c] # "none"
      PROVE  u \notin audience'[c]
  <2>1. u \in blocked
    BY <1>1 DEF IInv, SkippedIsBlocked
  <2>2. audience'[c] = Users \ blocked
    BY <1>1, ComposedByFinalize DEF IInv, CampaignInv
  <2>3. QED
    BY <2>1, <2>2
<1>2. IInv /\ [Next]_vars =>
        [\A b, c \in Broadcasts, u \in Users :
            jobs[b][u] = "skipped" /\ stage[c] = "none" /\ stage'[c] # "none"
                => u \notin audience'[c]]_vars
  BY <1>1
<1>3. QED
  BY <1>2, InductiveInvariant, PTL DEF Spec, LeftOutForGood

(* A task that ends on a closed campaign changes no row of it. *)
LEMMA LateFinish ==
    ASSUME CampaignInv, NEW t \in Tasks, FinishTask(t), status[of[t]] = "sent"
    PROVE  UNCHANGED <<status, jobs, delivered>>
<1> DEFINE b == of[t]
<1>1. b \in Broadcasts /\ status' = [status EXCEPT ![b] = "sent"] /\ UNCHANGED delivered
  BY DEF CampaignInv, TypeOK, FinishTask
<1>2. \A u \in Users : out[t][u] = "none"
  BY <1>1 DEF CampaignInv, TaskView, LedgerAtomic
<1>3. jobs' = [jobs EXCEPT ![b] = [u \in Users |-> jobs[b][u]]]
  BY <1>2 DEF FinishTask, WriteOutcomes
<1>4. QED
  BY <1>1, <1>3 DEF CampaignInv, TypeOK

(* A campaign that is SENT stays so, with the same outcomes and without    *)
(* another message, whatever jobs of it are still queued or running.       *)
THEOREM ClosedCampaignIsFinal == Spec => ClosedIsFinal
<1>1. ASSUME CampaignInv, [Next]_vars, NEW b \in Broadcasts, status[b] = "sent"
      PROVE  status'[b] = "sent" /\ jobs'[b] = jobs[b] /\ delivered'[b] = delivered[b]
  <2>1. CASE UNCHANGED <<database, delivered>>
    BY <1>1, <2>1 DEF database
  <2>2. ASSUME NEW c \in Broadcasts, CommitFinalize(c)
        PROVE  UNCHANGED <<status[b], jobs[b], delivered>>
    <3>1. c # b
      BY <1>1, <2>2 DEF CommitFinalize, HandlerReturns, CampaignInv, PublishedByCommit, TypeOK
    <3>2. QED
      BY <1>1, <2>2, <3>1 DEF CommitFinalize, CampaignInv, TypeOK
  <2>3. ASSUME NEW t \in Tasks, NEW u \in Users, pc[t] = "sending", u \in batch[t],
               UNCHANGED database, Delivers(t, u)
        PROVE  UNCHANGED <<status[b], jobs[b], delivered[b]>>
    <3>1. of[t] \in Broadcasts /\ jobs[of[t]][u] = "pending"
      BY <1>1, <2>3 DEF CampaignInv, TypeOK, TaskView
    <3>2. of[t] # b
      BY <1>1, <3>1, OpenWhilePending
    <3>3. QED
      BY <1>1, <2>3, <3>1, <3>2 DEF database, Delivers, CampaignInv, TypeOK
  <2>4. ASSUME NEW t \in Tasks, FinishTask(t)
        PROVE  UNCHANGED <<status[b], jobs[b], delivered[b]>>
    <3>1. CASE of[t] = b
      BY <1>1, <2>4, <3>1, LateFinish
    <3>2. CASE of[t] # b
      BY <1>1, <2>4, <3>2 DEF FinishTask, WriteOutcomes, CampaignInv, TypeOK
    <3>3. QED
      BY <3>1, <3>2
  <2>5. QED
    BY <1>1, <2>1, <2>2, <2>3, <2>4, VisibleSteps
<1>2. CampaignInv /\ [Next]_vars =>
        [\A b \in Broadcasts : status[b] = "sent" =>
            /\ status'[b] = "sent"
            /\ jobs'[b] = jobs[b]
            /\ delivered'[b] = delivered[b]]_vars
  BY <1>1
<1>3. QED
  BY <1>2, CampaignsHold, PTL DEF Spec, ClosedIsFinal

-----------------------------------------------------------------------------
(* The refinement: the wizard's commit publishes, a message taken by       *)
(* Telegram delivers, the task's commit closes.  Everything else stutters. *)

LEMMA RefineInit == Init => Abstract!Init
  BY DEF Init, Abstract!Init, NoOutcome, reached

LEMMA PublishRefined ==
    ASSUME CampaignInv, NEW b \in Broadcasts, CommitFinalize(b)
    PROVE  Abstract!Next
<1> DEFINE s == IF kind[b] = "now" THEN "draft" ELSE "scheduled"
<1>1. status[b] = "absent"
  BY DEF CommitFinalize, HandlerReturns, CampaignInv, PublishedByCommit, TypeOK
<1>2. audience[b] \in SUBSET Users /\ s \in {"draft", "scheduled"}
  BY DEF CampaignInv, TypeOK
<1>3. UNCHANGED reached
  BY DEF CommitFinalize, reached
<1>4. Abstract!Publish(b, s, audience[b])
  BY <1>1, <1>3 DEF CommitFinalize, Abstract!Publish
<1>5. QED
  BY <1>2, <1>4 DEF Abstract!Next

LEMMA DeliverRefined ==
    ASSUME CampaignInv, NEW t \in Tasks, NEW u \in Users, pc[t] = "sending", u \in batch[t],
           UNCHANGED database, Delivers(t, u)
    PROVE  Abstract!Next
<1> DEFINE b == of[t]
<1>1. b \in Broadcasts /\ jobs[b][u] = "pending"
  BY DEF CampaignInv, TypeOK, TaskView
<1>2. status[b] \in {"draft", "scheduled"}
  BY <1>1, OpenWhilePending
<1>3. reached' = [reached EXCEPT ![b] = @ \cup {u}]
  <2>1. \A c \in Broadcasts, v \in Users :
          delivered'[c][v] = IF c = b /\ v = u THEN delivered[c][v] + 1 ELSE delivered[c][v]
    BY <1>1 DEF Delivers, CampaignInv, TypeOK
  <2>2. \A c \in Broadcasts, v \in Users : delivered[c][v] \in Nat
    BY DEF CampaignInv, TypeOK
  <2>3. \A c \in Broadcasts :
          {v \in Users : delivered'[c][v] > 0} =
          IF c = b THEN {v \in Users : delivered[c][v] > 0} \cup {u}
                   ELSE {v \in Users : delivered[c][v] > 0}
    BY <2>1, <2>2
  <2>4. QED
    BY <1>1, <2>3 DEF reached
<1>4. Abstract!Deliver(b, u)
  BY <1>1, <1>2, <1>3 DEF database, Abstract!Deliver
<1>5. QED
  BY <1>1, <1>4 DEF Abstract!Next

LEMMA CloseRefined ==
    ASSUME CampaignInv, NEW t \in Tasks, FinishTask(t), status[of[t]] # "sent"
    PROVE  Abstract!Next
<1> DEFINE b == of[t]
           verdict == [u \in Users |-> IF out[t][u] = "none" THEN "failed" ELSE out[t][u]]
<1>1. /\ b \in Broadcasts
      /\ status[b] \in {"draft", "scheduled"}
      /\ status' = [status EXCEPT ![b] = "sent"]
      /\ UNCHANGED reached
  BY DEF CampaignInv, TypeOK, TaskView, Running, FinishTask, reached
<1>2. verdict \in [Users -> Abstract!Decided]
  BY DEF CampaignInv, TypeOK, Outcomes, Abstract!Decided
<1>3. \A u \in Users : verdict[u] = "sent" => u \in reached[b]
  BY <1>1 DEF CampaignInv, TypeOK, TaskView, reached
<1>4. \A u \in Users :
        (IF out[t][u] = "none" THEN jobs[b][u] ELSE out[t][u]) =
        (IF jobs[b][u] = "pending" THEN verdict[u] ELSE jobs[b][u])
  BY DEF CampaignInv, TaskView, FinishTask, ListPending
<1>5. jobs' = [jobs EXCEPT
                 ![b] = [u \in Users |-> IF @[u] = "pending" THEN verdict[u] ELSE @[u]]]
  BY <1>4 DEF FinishTask, WriteOutcomes
<1>6. Abstract!Close(b, verdict)
  BY <1>1, <1>3, <1>5 DEF Abstract!Close
<1>7. QED
  BY <1>1, <1>2, <1>6 DEF Abstract!Next

LEMMA RefineStep == CampaignInv /\ [Next]_vars => [Abstract!Next]_(Abstract!vars)
<1> SUFFICES ASSUME CampaignInv, [Next]_vars
             PROVE  Abstract!Next \/ UNCHANGED Abstract!vars
  OBVIOUS
<1>0. UNCHANGED <<status, jobs, delivered>> => UNCHANGED Abstract!vars
  BY DEF Abstract!vars, reached
<1>1. UNCHANGED <<database, delivered>> => UNCHANGED Abstract!vars
  BY <1>0 DEF database
<1>2. ASSUME NEW t \in Tasks, FinishTask(t)
      PROVE  Abstract!Next \/ UNCHANGED Abstract!vars
  BY <1>0, <1>2, LateFinish, CloseRefined
<1>3. QED
  BY <1>1, <1>2, VisibleSteps, PublishRefined, DeliverRefined

(* The queue, the sweep, the tasks and their transactions implement the    *)
(* campaign of Campaign.tla.                                               *)
THEOREM BroadcastImplementsCampaign == Spec => ImplementsCampaign
  BY RefineInit, RefineStep, CampaignsHold, PTL
  DEF Spec, ImplementsCampaign, Abstract!Spec
=============================================================================
