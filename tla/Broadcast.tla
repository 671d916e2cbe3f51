----------------------------- MODULE Broadcast -----------------------------
(***************************************************************************)
(* The broadcast subsystem: the last step of the admin wizard (web         *)
(* process), the arq queue in Redis, the cron sweep and the send task      *)
(* (worker process), PostgreSQL and Telegram.                              *)
(*                                                                         *)
(* The web handler and the task each run in ONE database transaction.  The *)
(* variables status, jobs and blocked are the COMMITTED rows, what any     *)
(* other transaction reads (READ COMMITTED); stage/audience hold what the  *)
(* wizard's handler has written and not committed, out what a task has.    *)
(*                                                                         *)
(* A task's own UPDATE of the broadcasts row (status = SENDING, flushed    *)
(* before the first list_pending) takes the row's lock and keeps it until  *)
(* the task's only commit or its rollback: SENDING is never committed, so  *)
(* every task's UPDATE is real, and a second task of the same broadcast    *)
(* waits there.                                                            *)
(*                                                                         *)
(* Bounds: Tasks caps the arq jobs alive at one time, MaxFailures the      *)
(* aborted tasks of one broadcast.  The other constants are the code's.    *)
(***************************************************************************)
EXTENDS Naturals, FiniteSets

CONSTANTS
    Broadcasts,     \* the campaigns of one child bot
    Users,          \* the users of that bot
    Tasks,          \* slots for live arq jobs (bound)
    BatchLimit,     \* list_pending's limit (200)
    MaxRunning,     \* WorkerSettings.max_jobs (10)
    MaxTries,       \* arq's max_tries (5)
    MaxFailures,    \* aborted tasks per broadcast (bound)
    NoBroadcast     \* what a free slot refers to

ASSUME FiniteAudience == IsFiniteSet(Users)
ASSUME LimitsArePositive ==
    /\ BatchLimit \in Nat \ {0}
    /\ MaxRunning \in Nat \ {0}
    /\ MaxTries \in Nat \ {0}
ASSUME FailuresAreBounded == MaxFailures \in Nat
ASSUME NoBroadcastIsNone == NoBroadcast \notin Broadcasts

VARIABLES
    stage,          \* the wizard's last handler, per campaign
    kind,           \* "now" or "later" (a scheduled_at was given)
    audience,       \* the recipients its create_jobs found
    due,            \* the campaigns whose scheduled_at has passed
    status,         \* broadcasts.status, committed
    jobs,           \* broadcast_jobs.status per recipient, committed
    blocked,        \* the users with is_blocked_bot, committed
    swept,          \* the rest of the running cron sweep's list
    pc,             \* where the arq job in each slot is
    of,             \* the broadcast_id it carries
    tries,          \* its job_try
    batch,          \* its list_pending batch, what is left of it
    out,            \* its own uncommitted outcome per recipient
    delivered,      \* how often Telegram took the message, per recipient
    failures        \* how many tasks of the campaign were aborted

wizard == <<stage, kind, audience>>
database == <<status, jobs, blocked>>
task == <<pc, of, tries, batch, out>>
vars == <<wizard, due, database, swept, task, delivered, failures>>

Outcomes == {"sent", "failed", "skipped"}
NoOutcome == [u \in Users |-> "none"]

Init ==
    /\ stage = [b \in Broadcasts |-> "none"]
    /\ kind = [b \in Broadcasts |-> "now"]
    /\ audience = [b \in Broadcasts |-> {}]
    /\ due = {}
    /\ status = [b \in Broadcasts |-> "absent"]
    /\ jobs = [b \in Broadcasts |-> NoOutcome]
    /\ blocked = {}
    /\ swept = {}
    /\ pc = [t \in Tasks |-> "free"]
    /\ of = [t \in Tasks |-> NoBroadcast]
    /\ tries = [t \in Tasks |-> 0]
    /\ batch = [t \in Tasks |-> {}]
    /\ out = [t \in Tasks |-> NoOutcome]
    /\ delivered = [b \in Broadcasts |-> [u \in Users |-> 0]]
    /\ failures = [b \in Broadcasts |-> 0]

-----------------------------------------------------------------------------
(* The wizard's last handler, inside DbSessionMiddleware's unit of work.   *)

(* Mutant of Finalize: the handler commits by itself before it enqueues. *)
FinalizeCommitting(b, k) ==
    /\ stage[b] = "none"
    /\ stage' = [stage EXCEPT ![b] = "flushed"]
    /\ kind' = [kind EXCEPT ![b] = k]
    /\ audience' = [audience EXCEPT ![b] = Users \ blocked]
    /\ status' = [status EXCEPT ![b] = IF k = "now" THEN "draft" ELSE "scheduled"]
    /\ jobs' = [jobs EXCEPT
                  ![b] = [u \in Users |-> IF u \in blocked THEN "none" ELSE "pending"]]
    /\ UNCHANGED <<due, blocked, swept, task, delivered, failures>>

(* _finalize_broadcast up to state.clear(): the Broadcast row and one job  *)
(* per recipient are flushed, invisible to everybody else.                 *)
Finalize(b, k) ==
    /\ stage[b] = "none"
    /\ stage' = [stage EXCEPT ![b] = "flushed"]
    /\ kind' = [kind EXCEPT ![b] = k]
    /\ audience' = [audience EXCEPT ![b] = Users \ blocked]
    /\ UNCHANGED <<due, database, swept, task, delivered, failures>>

(* Mutant of Enqueue: the job carries no broadcast_id. *)
EnqueueUnnamed(b) ==
    \E t \in Tasks :
        /\ pc[t] = "free"
        /\ pc' = [pc EXCEPT ![t] = "queued"]
        /\ UNCHANGED <<of, tries, batch, out>>

(* A new arq job for b in a free slot. *)
Enqueue(b) ==
    \E t \in Tasks :
        /\ pc[t] = "free"
        /\ pc' = [pc EXCEPT ![t] = "queued"]
        /\ of' = [of EXCEPT ![t] = b]
        /\ UNCHANGED <<tries, batch, out>>

(* "Send now": the job is in Redis before the rows are committed. *)
EnqueueNow(b) ==
    /\ stage[b] = "flushed"
    /\ kind[b] = "now"
    /\ Enqueue(b)
    /\ stage' = [stage EXCEPT ![b] = "enqueued"]
    /\ UNCHANGED <<kind, audience, due, database, swept, delivered, failures>>

HandlerReturns(b) ==
    stage[b] = IF kind[b] = "now" THEN "enqueued" ELSE "flushed"

(* The middleware's commit, after the handler has returned. *)
CommitFinalize(b) ==
    /\ HandlerReturns(b)
    /\ stage' = [stage EXCEPT ![b] = "committed"]
    /\ status' = [status EXCEPT ![b] = IF kind[b] = "now" THEN "draft" ELSE "scheduled"]
    /\ jobs' = [jobs EXCEPT
                  ![b] = [u \in Users |-> IF u \in audience[b] THEN "pending" ELSE "none"]]
    /\ UNCHANGED <<kind, audience, due, blocked, swept, task, delivered, failures>>

(* Redis refuses the job, message.answer raises, or the commit fails: the  *)
(* middleware rolls back; a job already enqueued stays in Redis.           *)
FailFinalize(b) ==
    /\ stage[b] \in {"flushed", "enqueued"}
    /\ stage' = [stage EXCEPT ![b] = "rolledback"]
    /\ UNCHANGED <<kind, audience, due, database, swept, task, delivered, failures>>

(* scheduled_at passes; the admin may also give a time already past. *)
TimeArrives(b) ==
    /\ stage[b] \in {"flushed", "committed"}
    /\ kind[b] = "later"
    /\ b \notin due
    /\ due' = due \cup {b}
    /\ UNCHANGED <<wizard, database, swept, task, delivered, failures>>

-----------------------------------------------------------------------------
(* The cron sweep: list_due, then one enqueue after another. *)

ListDue == {b \in due : status[b] = "scheduled"}

SweepList ==
    /\ swept = {}
    /\ swept' = ListDue
    /\ UNCHANGED <<wizard, due, database, task, delivered, failures>>

SweepEnqueue(b) ==
    /\ b \in swept
    /\ Enqueue(b)
    /\ swept' = swept \ {b}
    /\ UNCHANGED <<wizard, due, database, delivered, failures>>

-----------------------------------------------------------------------------
(* arq and send_broadcast_task. *)

Running == {t \in Tasks : pc[t] \in {"claim", "sending"}}

HoldsRow(t, b) == pc[t] = "sending" /\ of[t] = b

Release(t) ==
    /\ pc' = [pc EXCEPT ![t] = "free"]
    /\ of' = [of EXCEPT ![t] = NoBroadcast]
    /\ tries' = [tries EXCEPT ![t] = 0]
    /\ batch' = [batch EXCEPT ![t] = {}]
    /\ out' = [out EXCEPT ![t] = NoOutcome]

MayStart(t) ==
    /\ pc[t] = "queued"
    /\ tries[t] < MaxTries
    /\ Cardinality(Running) < MaxRunning

(* The row is not there: the task logs an error and returns, for good. *)
TaskNotFound(t) ==
    /\ MayStart(t)
    /\ status[of[t]] = "absent"
    /\ Release(t)
    /\ UNCHANGED <<wizard, due, database, swept, delivered, failures>>

(* The row is loaded; next comes the UPDATE to SENDING. *)
TaskStarts(t) ==
    /\ MayStart(t)
    /\ status[of[t]] # "absent"
    /\ pc' = [pc EXCEPT ![t] = "claim"]
    /\ tries' = [tries EXCEPT ![t] = @ + 1]
    /\ UNCHANGED <<wizard, due, database, swept, of, batch, out, delivered, failures>>

(* A job whose tries are used up is dropped unrun. *)
TaskDropped(t) ==
    /\ pc[t] = "queued"
    /\ tries[t] = MaxTries
    /\ Release(t)
    /\ UNCHANGED <<wizard, due, database, swept, delivered, failures>>

(* Mutant of Claim: the UPDATE is left out, nothing orders the tasks. *)
ClaimUnlocked(t) ==
    /\ pc[t] = "claim"
    /\ pc' = [pc EXCEPT ![t] = "sending"]
    /\ UNCHANGED <<wizard, due, database, swept, of, tries, batch, out, delivered, failures>>

(* Mutant of Claim: SENDING is committed, and the sweep loses the row. *)
ClaimCommitted(t) ==
    /\ pc[t] = "claim"
    /\ ~ \E s \in Tasks : HoldsRow(s, of[t])
    /\ pc' = [pc EXCEPT ![t] = "sending"]
    /\ status' = [status EXCEPT ![of[t]] = "sending"]
    /\ UNCHANGED <<wizard, due, jobs, blocked, swept, of, tries, batch, out, delivered, failures>>

(* broadcast.status = SENDING; flush: waits for the row's lock. *)
Claim(t) ==
    /\ pc[t] = "claim"
    /\ ~ \E s \in Tasks : HoldsRow(s, of[t])
    /\ pc' = [pc EXCEPT ![t] = "sending"]
    /\ UNCHANGED <<wizard, due, database, swept, of, tries, batch, out, delivered, failures>>

(* job_timeout runs out while the task waits for the lock. *)
WaitTimesOut(t) ==
    /\ pc[t] = "claim"
    /\ \E s \in Tasks : HoldsRow(s, of[t])
    /\ Release(t)
    /\ UNCHANGED <<wizard, due, database, swept, delivered, failures>>

(* Mutant of ListPending: the status filter is lost. *)
ListAll(t) ==
    {u \in Users : jobs[of[t]][u] # "none" /\ out[t][u] = "none"}

(* list_pending inside the task's transaction: committed PENDING rows but  *)
(* for those the task has decided itself and flushed.                      *)
ListPending(t) ==
    {u \in Users : jobs[of[t]][u] = "pending" /\ out[t][u] = "none"}

FetchBatch(t) ==
    /\ pc[t] = "sending"
    /\ batch[t] = {}
    /\ \E rows \in SUBSET ListPending(t) :
          /\ rows # {}
          /\ Cardinality(rows) <= BatchLimit
          /\ Cardinality(rows) = BatchLimit \/ rows = ListPending(t)
          /\ batch' = [batch EXCEPT ![t] = rows]
    /\ UNCHANGED <<wizard, due, database, swept, pc, of, tries, out, delivered, failures>>

(* One recipient's job row gets its outcome, in memory, and the loop goes  *)
(* on to the next row of the batch.                                        *)
Decide(t, u, outcome) ==
    /\ pc[t] = "sending"
    /\ u \in batch[t]
    /\ batch' = [batch EXCEPT ![t] = @ \ {u}]
    /\ out' = [out EXCEPT ![t][u] = outcome]
    /\ UNCHANGED <<wizard, due, database, swept, pc, of, tries, failures>>

Delivers(t, u) == delivered' = [delivered EXCEPT ![of[t]][u] = @ + 1]

SendOk(t, u) == Decide(t, u, "sent") /\ Delivers(t, u)

SendForbidden(t, u) == Decide(t, u, "skipped") /\ UNCHANGED delivered

(* Any other exception; a timeout may come after Telegram took the call. *)
SendError(t, u) == Decide(t, u, "failed") /\ (Delivers(t, u) \/ UNCHANGED delivered)

(* Mutant of SendRetryAfter: a 429 counts as sent. *)
RetryAfterMarksSent(t, u) == Decide(t, u, "sent") /\ UNCHANGED delivered

(* 429: the row stays PENDING and is found again by a later list_pending. *)
SendRetryAfter(t, u) ==
    /\ pc[t] = "sending"
    /\ u \in batch[t]
    /\ batch' = [batch EXCEPT ![t] = @ \ {u}]
    /\ UNCHANGED <<wizard, due, database, swept, pc, of, tries, out, delivered, failures>>

(* Mutant of WriteOutcomes: the user's flag is not set. *)
WriteOutcomesUnmarked(t) ==
    /\ jobs' = [jobs EXCEPT
                  ![of[t]] = [u \in Users |-> IF out[t][u] = "none" THEN @[u] ELSE out[t][u]]]
    /\ UNCHANGED blocked

(* The flushed rows of the task's transaction become visible: the jobs'    *)
(* outcomes, and is_blocked_bot of the users that were skipped.            *)
WriteOutcomes(t) ==
    /\ jobs' = [jobs EXCEPT
                  ![of[t]] = [u \in Users |-> IF out[t][u] = "none" THEN @[u] ELSE out[t][u]]]
    /\ blocked' = blocked \cup {u \in Users : out[t][u] = "skipped"}

(* Mutant of FinishTask: one batch and no loop. *)
FinishAfterOneBatch(t) ==
    /\ pc[t] = "sending"
    /\ batch[t] = {}
    /\ status' = [status EXCEPT ![of[t]] = "sent"]
    /\ WriteOutcomes(t)
    /\ Release(t)
    /\ UNCHANGED <<wizard, due, swept, delivered, failures>>

(* Nothing is pending: status = SENT, and the transaction's only commit. *)
FinishTask(t) ==
    /\ pc[t] = "sending"
    /\ batch[t] = {}
    /\ ListPending(t) = {}
    /\ status' = [status EXCEPT ![of[t]] = "sent"]
    /\ WriteOutcomes(t)
    /\ Release(t)
    /\ UNCHANGED <<wizard, due, swept, delivered, failures>>

(* Mutant of TaskFails: what was decided so far is committed. *)
TaskFailsCommitting(t) ==
    /\ t \in Running
    /\ failures[of[t]] < MaxFailures
    /\ failures' = [failures EXCEPT ![of[t]] = @ + 1]
    /\ WriteOutcomes(t)
    /\ Release(t)
    /\ UNCHANGED <<wizard, due, status, swept, delivered>>

(* An exception that is not one recipient's, a database error, a deadlock  *)
(* victim's abort or arq's job_timeout: rollback, and arq does not retry.  *)
TaskFails(t) ==
    /\ t \in Running
    /\ failures[of[t]] < MaxFailures
    /\ failures' = [failures EXCEPT ![of[t]] = @ + 1]
    /\ Release(t)
    /\ UNCHANGED <<wizard, due, database, swept, delivered>>

(* The worker dies or is restarted: every open transaction is rolled back, *)
(* the sweep is forgotten, and arq runs the interrupted jobs again.        *)
WorkerCrash ==
    /\ Running # {} \/ swept # {}
    /\ \A t \in Running : failures[of[t]] < MaxFailures
    /\ failures' = [b \in Broadcasts |->
                      IF \E t \in Running : of[t] = b THEN failures[b] + 1 ELSE failures[b]]
    /\ swept' = {}
    /\ pc' = [t \in Tasks |-> IF t \in Running THEN "queued" ELSE pc[t]]
    /\ batch' = [t \in Tasks |-> {}]
    /\ out' = [t \in Tasks |-> NoOutcome]
    /\ UNCHANGED <<wizard, due, database, of, tries, delivered>>

-----------------------------------------------------------------------------
WizardStep(b) ==
    \/ \E k \in {"now", "later"} : Finalize(b, k)
    \/ EnqueueNow(b)
    \/ CommitFinalize(b)
    \/ FailFinalize(b)

SendStep(t, u) ==
    \/ SendOk(t, u)
    \/ SendForbidden(t, u)
    \/ SendError(t, u)

TaskStep(t) ==
    \/ TaskNotFound(t)
    \/ TaskStarts(t)
    \/ TaskDropped(t)
    \/ Claim(t)
    \/ WaitTimesOut(t)
    \/ FetchBatch(t)
    \/ \E u \in Users : SendStep(t, u) \/ SendRetryAfter(t, u)
    \/ FinishTask(t)
    \/ TaskFails(t)

Next ==
    \/ \E b \in Broadcasts : WizardStep(b) \/ TimeArrives(b) \/ SweepEnqueue(b)
    \/ SweepList
    \/ \E t \in Tasks : TaskStep(t)
    \/ WorkerCrash

Spec == Init /\ [][Next]_vars

(* The cron fires every minute and its enqueues succeed again and again;   *)
(* arq serves its queue in order, so a waiting job starts whenever slots   *)
(* keep becoming free; PostgreSQL hands a row's lock to the waiters in     *)
(* order; Telegram does not answer 429 for ever.  A crash, a failure, the  *)
(* admin and the clock are not forced.                                     *)
TaskFairness(t) ==
    /\ SF_vars(TaskNotFound(t))
    /\ SF_vars(TaskStarts(t))
    /\ WF_vars(TaskDropped(t))
    /\ SF_vars(Claim(t))
    /\ WF_vars(FetchBatch(t))
    /\ SF_vars(\E u \in Users : SendStep(t, u))
    /\ WF_vars(FinishTask(t))

Fairness ==
    /\ WF_vars(SweepList)
    /\ \A b \in Broadcasts : SF_vars(SweepEnqueue(b)) /\ WF_vars(CommitFinalize(b))
    /\ \A t \in Tasks : TaskFairness(t)

FairSpec == Spec /\ Fairness

-----------------------------------------------------------------------------
(* Every variable has its type: rows and outcomes take only the values of  *)
(* the enums in models/enums.py that the code really writes.               *)
TypeOK ==
    /\ stage \in [Broadcasts -> {"none", "flushed", "enqueued", "committed", "rolledback"}]
    /\ kind \in [Broadcasts -> {"now", "later"}]
    /\ audience \in [Broadcasts -> SUBSET Users]
    /\ due \in SUBSET Broadcasts
    /\ status \in [Broadcasts -> {"absent", "draft", "scheduled", "sent"}]
    /\ jobs \in [Broadcasts -> [Users -> {"none", "pending"} \cup Outcomes]]
    /\ blocked \in SUBSET Users
    /\ swept \in SUBSET Broadcasts
    /\ pc \in [Tasks -> {"free", "queued", "claim", "sending"}]
    /\ of \in [Tasks -> Broadcasts \cup {NoBroadcast}]
    /\ \A t \in Tasks : pc[t] # "free" => of[t] \in Broadcasts
    /\ tries \in [Tasks -> 0 .. MaxTries]
    /\ batch \in [Tasks -> SUBSET Users]
    /\ out \in [Tasks -> [Users -> {"none"} \cup Outcomes]]
    /\ delivered \in [Broadcasts -> [Users -> Nat]]
    /\ failures \in [Broadcasts -> 0 .. MaxFailures]

(* A recipient gets a message at most once plus once per aborted task: the *)
(* sweep may enqueue a campaign any number of times, several tasks of it   *)
(* may be alive at once, and still only a rollback can cause a resend.     *)
BoundedDelivery ==
    \A b \in Broadcasts, u \in Users : delivered[b][u] <= 1 + failures[b]

(* The committed rows of a campaign agree: while it is open no recipient   *)
(* is decided, and once it is SENT every recipient is (send_now commits    *)
(* the campaign and its jobs together).                                    *)
LedgerAtomic ==
    \A b \in Broadcasts, u \in Users :
        /\ status[b] = "absent" => jobs[b][u] = "none"
        /\ status[b] \in {"draft", "scheduled"} => jobs[b][u] \in {"none", "pending"}
        /\ status[b] = "sent" => jobs[b][u] # "pending"

(* A recipient marked SENT has had the message, whichever task marked it   *)
(* and whatever was rolled back in between.                                *)
SentMeansDelivered ==
    \A b \in Broadcasts, u \in Users : jobs[b][u] = "sent" => delivered[b][u] >= 1

(* Nobody hears of a campaign whose rows were not committed, nor anyone    *)
(* outside the recipients counted when it was composed: a job enqueued by  *)
(* a handler that rolled back finds no row.                                *)
NoGhostCampaign ==
    \A b \in Broadcasts, u \in Users :
        delivered[b][u] > 0 => stage[b] = "committed" /\ u \in audience[b]

(* A step never changes a closed campaign: late duplicates of its task     *)
(* neither reopen it nor rewrite an outcome nor send another message.      *)
ClosedIsFinal ==
    [][\A b \in Broadcasts : status[b] = "sent" =>
          /\ status'[b] = "sent"
          /\ jobs'[b] = jobs[b]
          /\ delivered'[b] = delivered[b]]_vars

(* Whoever was once recorded SKIPPED is among the recipients of no         *)
(* campaign composed from then on, whichever task recorded it and in       *)
(* whatever order campaigns are composed and sent: is_blocked_bot is       *)
(* committed with the job (broadcast_service.py 70-73) and never reset.    *)
LeftOutForGood ==
    [][\A b, c \in Broadcasts, u \in Users :
          jobs[b][u] = "skipped" /\ stage[c] = "none" /\ stage'[c] # "none"
              => u \notin audience'[c]]_vars

(* What a task's transaction knows of its campaign: the lock on the        *)
(* broadcasts row makes it the only sender, so the recipients in its batch *)
(* and those it has decided are still PENDING for everybody else.          *)
OneSender ==
    \A s, t \in Tasks :
        s # t /\ pc[s] = "sending" /\ pc[t] = "sending" => of[s] # of[t]

TaskView ==
    \A t \in Tasks :
        /\ t \in Running => status[of[t]] # "absent"
        /\ pc[t] # "sending" => batch[t] = {} /\ out[t] = NoOutcome
        /\ \A u \in batch[t] : jobs[of[t]][u] = "pending" /\ out[t][u] = "none"
        /\ \A u \in Users : out[t][u] # "none" => jobs[of[t]][u] = "pending"
        /\ \A u \in Users : out[t][u] = "sent" => delivered[of[t]][u] >= 1

PublishedByCommit ==
    \A b \in Broadcasts :
        /\ status[b] # "absent" <=> stage[b] = "committed"
        /\ \A u \in Users : jobs[b][u] # "none" => u \in audience[b]

(* Somebody has decided u: the committed row, or a task still sending. *)
IsDecided(b, u) ==
    \/ jobs[b][u] \in Outcomes
    \/ \E t \in Tasks : pc[t] = "sending" /\ of[t] = b /\ out[t][u] # "none"

(* BoundedDelivery made inductive: the one delivery that no failure pays   *)
(* for is the one somebody remembers.                                      *)
DeliveriesAccounted ==
    \A b \in Broadcasts, u \in Users :
        delivered[b][u] <= failures[b] + (IF IsDecided(b, u) THEN 1 ELSE 0)

CampaignInv ==
    /\ TypeOK
    /\ OneSender
    /\ TaskView
    /\ PublishedByCommit
    /\ LedgerAtomic
    /\ SentMeansDelivered
    /\ NoGhostCampaign
    /\ DeliveriesAccounted

(* LeftOutForGood made inductive: the job and the user's flag are          *)
(* committed together.                                                     *)
SkippedIsBlocked ==
    \A b \in Broadcasts, u \in Users : jobs[b][u] = "skipped" => u \in blocked

(* The inductive invariant of the proofs. *)
IInv == CampaignInv /\ SkippedIsBlocked

(* The rows tell the story of Campaign.tla. *)
reached == [b \in Broadcasts |-> {u \in Users : delivered[b][u] > 0}]

Abstract == INSTANCE Campaign WITH
    status <- status, jobs <- jobs, reached <- reached

(* The worker implements the campaign it promises: one atomic close, no    *)
(* message before publication or after the close.                          *)
ImplementsCampaign == Abstract!Spec

(* A scheduled campaign whose time has come is sent in the end, although   *)
(* tasks fail, the worker restarts, and tasks are dropped: the sweep finds *)
(* the campaign again until it is SENT.                                    *)
ScheduledEventuallySent ==
    \A b \in Broadcasts :
        (status[b] = "scheduled" /\ b \in due) ~> (status[b] = "sent")

(* README "Resumable broadcasts": "A crash or Telegram 429 mid-broadcast   *)
(* doesn't lose progress or double-send".                                  *)
NoDoubleSend ==
    \A b \in Broadcasts, u \in Users : delivered[b][u] <= 1

(* "Send now" as tasks.py documents it, "enqueued [...] immediately": a    *)
(* committed campaign that is neither SENT nor scheduled has a job left    *)
(* that will send it.                                                      *)
DraftHasTask ==
    \A b \in Broadcasts :
        status[b] = "draft" => \E t \in Tasks : of[t] = b
=============================================================================
