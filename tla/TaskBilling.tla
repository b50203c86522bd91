----------------------------- MODULE TaskBilling -----------------------------
(***************************************************************************)
(* Billing of asynchronous tasks (Suno, video): a submission charges a     *)
(* quota and inserts a row (controller/relay.go, relay/relay_task.go);     *)
(* polling passes on the master nodes (service/task_polling.go) first fail *)
(* the rows that are out of time, then ask the upstream service about the  *)
(* unfinished ones, refund failures and settle successes                   *)
(* (service/task_billing.go); and a user's fetch of a Gemini or Vertex     *)
(* task asks the upstream and stores the answer too (tryRealtimeFetch).    *)
(*                                                                         *)
(* A pass works on copies of the rows it loaded.  Every statement on a     *)
(* row, on the funding source or on the token is a step.  Passes run under *)
(* the lease of SystemTask; Overlap says whether a pass may still be at    *)
(* work when the next one starts, which a node that stalls makes happen.   *)
(*                                                                         *)
(* The accounts are kept per task: what the funding source and the token   *)
(* are charged for it.  Not kept: the texts, times and result of a row, and*)
(* the progress but for "is it 100%".  SUBMITTED, QUEUED and IN_PROGRESS   *)
(* are one status.  A Suno answer may also correct submit_time by seconds. *)
(***************************************************************************)
EXTENDS Integers

CONSTANTS
  Tasks,        \* submissions
  Pollers,      \* master nodes
  Kinds,        \* the kinds of task in play: "suno", "video", "realtime"
  Quotas,       \* what tasks may cost
  SubmitTimes,  \* when they may be submitted (Unix time)
  Overlap,      \* may two passes be at work at the same time?
  MaxFetches,   \* bound on fetches by users
  MaxFaults,    \* bound on failing database statements
  MaxCrashes    \* bound on crashes of a polling node

ASSUME KindsAssumption == Kinds \subseteq {"suno", "video", "realtime"}
ASSUME QuotasAssumption == Quotas \subseteq Nat /\ SubmitTimes \subseteq Nat
ASSUME TaskBounds ==
  Overlap \in BOOLEAN /\ MaxFetches \in Nat /\ MaxFaults \in Nat /\ MaxCrashes \in Nat

VARIABLES
  kind, source,     \* per task: its platform, and who pays: wallet or subscription
  stage,            \* per task: where its submission is
  row,              \* per task: its row in tasks
  old,              \* the tasks past TaskTimeoutMinutes
  charged, token,   \* per task: what its funding source and its token are charged
  phase,            \* per poller: where its pass is
  work,             \* per poller and task: the copy of the row, and what is done with it
  fetch,            \* per task: the copy of the row a user's fetch holds
  fetches, faults, crashes,
  missed,           \* history: the part of the row's quota that the funding source was
  missedToken,      \*   never charged, and the part that the token was never charged
  disturbed         \* history: what kept a task from the usual course

rowVars == <<kind, source, stage, row, old>>
accounts == <<charged, token, missed, missedToken>>
pollVars == <<phase, work>>
userVars == <<fetch, fetches>>
vars == <<kind, source, stage, row, old, charged, token, phase, work, fetch, fetches,
          faults, crashes, missed, missedToken, disturbed>>

Unended == {"NOT_START", "IN_PROGRESS"}
Ended == {"SUCCESS", "FAILURE"}
Statuses == {"NONE"} \cup Unended \cup Ended   \* NONE: no row (yet)
Answers == {"IN_PROGRESS", "SUCCESS", "FAILURE"}

\* Between a status change and the end of the refund or settlement it calls for.
BillingPCs == {"refund", "refundToken", "settle", "settleToken", "settleRow"}
WorkPCs == {"idle", "timedout", "loaded", "save"} \cup BillingPCs
Reasons == {"unsettled", "noRow", "legacy", "bulk", "fault", "refused", "crash"}

Rows == [status: Statuses, done: BOOLEAN, quota: Nat, submit: SubmitTimes \cup {0}]
Works == [pc: WorkPCs, from: Statuses, status: Statuses, done: BOOLEAN, quota: Nat,
          bill: Nat, next: {"idle", "save"}]

NewRow(quota, at) == [status |-> "NONE", done |-> FALSE, quota |-> quota, submit |-> at]
NoRow == NewRow(0, 0)
Idle == [pc |-> "idle", from |-> "NONE", status |-> "NONE", done |-> FALSE, quota |-> 0,
         bill |-> 0, next |-> "idle"]

Init ==
  /\ kind \in [Tasks -> Kinds]
  /\ source \in [Tasks -> {"wallet", "subscription"}]
  /\ stage = [t \in Tasks |-> "new"]
  /\ row = [t \in Tasks |-> NoRow]
  /\ old = {}
  /\ charged = [t \in Tasks |-> 0]
  /\ token = [t \in Tasks |-> 0]
  /\ phase = [p \in Pollers |-> "off"]
  /\ work = [p \in Pollers |-> [t \in Tasks |-> Idle]]
  /\ fetch = [t \in Tasks |-> Idle]
  /\ fetches = 0 /\ faults = 0 /\ crashes = 0
  /\ missed = [t \in Tasks |-> 0]
  /\ missedToken = [t \in Tasks |-> 0]
  /\ disturbed = [t \in Tasks |-> {}]

-----------------------------------------------------------------------------
(* Steps on one task. *)

At(p, t, label) == work[p][t].pc = label
Working(p, t, w) == work' = [work EXCEPT ![p][t] = w]

\* The copy after an answer: what was made of it, and what is still to be done.
Continued(w, label, status, done, bill, next) ==
  [pc |-> label, from |-> w.from, status |-> status, done |-> done, quota |-> w.quota,
   bill |-> bill, next |-> next]

Goto(p, t, label) ==
  LET w == work[p][t] IN Working(p, t, Continued(w, label, w.status, w.done, w.bill, w.next))

\* A database statement returns an error.
Fault(t) ==
  /\ faults < MaxFaults /\ faults' = faults + 1
  /\ disturbed' = [disturbed EXCEPT ![t] = @ \cup {"fault"}]

NoFault == UNCHANGED <<faults, disturbed>>
Disturb(t, why) ==
  /\ disturbed' = [disturbed EXCEPT ![t] = @ \cup {why}]
  /\ UNCHANGED faults

ChargeFunding(t, delta) == charged' = [charged EXCEPT ![t] = @ + delta]
ChargeToken(t, delta) == token' = [token EXCEPT ![t] = @ + delta]

\* The copy of the row that a query returns.
Copy(t, label) ==
  [pc |-> label, from |-> row[t].status, status |-> row[t].status, done |-> FALSE,
   quota |-> row[t].quota, bill |-> 0, next |-> "idle"]

\* The row after a write.
Written(t, status, done, quota) ==
  [row EXCEPT ![t] =
     [status |-> status, done |-> done, quota |-> quota, submit |-> row[t].submit]]

\* Mutant: the WHERE clause is left out.
WinsAlways(t, w) == TRUE

\* The condition of UpdateWithStatus: no one moved the row out of the status it
\* was loaded with.
Wins(t, w) == row[t].status = w.from

\* The rows GetAllUnFinishSyncTasks returns.
Unfinished(t) == ~row[t].done /\ row[t].status \in Unended

\* Mutant: only tasks that were never answered are swept.
TimedOutNotStarted(t) == Unfinished(t) /\ t \in old /\ row[t].status = "NOT_START"

\* The rows GetTimedOutUnfinishedTasks returns.
TimedOut(t) == Unfinished(t) /\ t \in old

LegacyTaskCutoff == 1740182400
IsLegacy(t) == row[t].submit > 0 /\ row[t].submit < LegacyTaskCutoff

-----------------------------------------------------------------------------
(* Submission. *)

\* RelayTask comes through with an upstream task: the quota of the attempt that
\* succeeded is settled, whatever the first attempt had pre-consumed.
Submit(t, quota, at) ==
  /\ stage[t] = "new"
  /\ stage' = [stage EXCEPT ![t] = "insert"]
  /\ row' = [row EXCEPT ![t] = NewRow(quota, at)]
  /\ ChargeFunding(t, quota) /\ ChargeToken(t, quota)
  /\ NoFault
  /\ UNCHANGED <<kind, source, old, phase, work, userVars, crashes, missed, missedToken>>

\* SettleBilling returns an error, which is only logged: the row is inserted with a
\* quota that was not charged.  The subscription does not cover the difference or the
\* funding source's statement fails, and both stay at what was pre-consumed; or the
\* token's statement fails once the funding source is settled.
SubmitUnsettled(t, held, quota, at) ==
  /\ stage[t] = "new" /\ held # quota
  /\ stage' = [stage EXCEPT ![t] = "insert"]
  /\ row' = [row EXCEPT ![t] = NewRow(quota, at)]
  /\ ChargeToken(t, held) /\ missedToken' = [missedToken EXCEPT ![t] = quota - held]
  /\ \/ /\ ChargeFunding(t, held) /\ missed' = [missed EXCEPT ![t] = quota - held]
        /\ \/ source[t] = "subscription" /\ quota > held /\ Disturb(t, "unsettled")
           \/ Fault(t)
     \/ ChargeFunding(t, quota) /\ UNCHANGED missed /\ Fault(t)
  /\ UNCHANGED <<kind, source, old, phase, work, userVars, crashes>>

\* Every attempt failed: the session is refunded, and there is no row.
SubmitFails(t) ==
  /\ stage[t] = "new"
  /\ stage' = [stage EXCEPT ![t] = "over"]
  /\ NoFault
  /\ UNCHANGED <<kind, source, row, old, accounts, pollVars, userVars, crashes>>

\* InitTask, task.Insert
Insert(t) ==
  /\ stage[t] = "insert"
  /\ stage' = [stage EXCEPT ![t] = "over"]
  /\ row' = Written(t, "NOT_START", row[t].done, row[t].quota)
  /\ NoFault
  /\ UNCHANGED <<kind, source, old, accounts, pollVars, userVars, crashes>>

\* The insert fails, which is only logged, or the node dies before it.
InsertFails(t) ==
  /\ stage[t] = "insert"
  /\ stage' = [stage EXCEPT ![t] = "over"]
  /\ Disturb(t, "noRow")
  /\ UNCHANGED <<kind, source, row, old, accounts, pollVars, userVars, crashes>>

\* TaskTimeoutMinutes have passed since the submission.
Age(t) ==
  /\ row[t].status # "NONE" /\ t \notin old
  /\ old' = old \cup {t}
  /\ NoFault
  /\ UNCHANGED <<kind, source, stage, row, accounts, pollVars, userVars, crashes>>

-----------------------------------------------------------------------------
(* A pass: RunTaskPollingOnce. *)

\* asyncTaskPollHandler is scheduled when a row is unfinished; the pass starts with
\* the query of sweepTimedOutTasks.
StartPass(p) ==
  /\ phase[p] = "off"
  /\ ~Overlap => \A q \in Pollers: phase[q] = "off"
  /\ \E t \in Tasks: Unfinished(t)
  /\ phase' = [phase EXCEPT ![p] = "sweep"]
  /\ work' = [work EXCEPT ![p] =
                [t \in Tasks |-> IF TimedOut(t) THEN Copy(t, "timedout") ELSE Idle]]
  /\ NoFault
  /\ UNCHANGED <<rowVars, accounts, userVars, crashes>>

\* The sweep wins the row: it fails the task and refunds it unless it is legacy.
SweepTask(p, t) ==
  /\ At(p, t, "timedout") /\ Wins(t, work[p][t])
  /\ row' = Written(t, "FAILURE", TRUE, work[p][t].quota)
  /\ \/ /\ IsLegacy(t)
        /\ Working(p, t, Idle)
        /\ Disturb(t, "legacy")
     \/ /\ ~IsLegacy(t) /\ work[p][t].quota # 0
        /\ Goto(p, t, "refund")
        /\ NoFault
     \/ /\ ~IsLegacy(t) /\ work[p][t].quota = 0
        /\ Working(p, t, Idle)
        /\ NoFault
  /\ UNCHANGED <<kind, source, stage, old, accounts, phase, userVars, crashes>>

\* The update fails, or someone else moved the row.
SweepSkips(p, t) ==
  /\ At(p, t, "timedout")
  /\ \/ ~Wins(t, work[p][t]) /\ NoFault
     \/ Fault(t)
  /\ Working(p, t, Idle)
  /\ UNCHANGED <<rowVars, accounts, phase, userVars, crashes>>

\* GetAllUnFinishSyncTasks, once the sweep is through.
LoadTasks(p) ==
  /\ phase[p] = "sweep" /\ \A t \in Tasks: At(p, t, "idle")
  /\ phase' = [phase EXCEPT ![p] = "poll"]
  /\ work' = [work EXCEPT ![p] =
                [t \in Tasks |-> IF Unfinished(t) THEN Copy(t, "loaded") ELSE Idle]]
  /\ NoFault
  /\ UNCHANGED <<rowVars, accounts, userVars, crashes>>

EndPass(p) ==
  /\ phase[p] = "poll" /\ \A t \in Tasks: At(p, t, "idle")
  /\ phase' = [phase EXCEPT ![p] = "off"]
  /\ NoFault
  /\ UNCHANGED <<rowVars, accounts, work, userVars, crashes>>

\* Nothing comes of the task in this pass: no adaptor, a failed, malformed or 429
\* answer, nothing to update, or the pass was cancelled.
PollSkips(p, t) ==
  /\ At(p, t, "loaded")
  /\ Working(p, t, Idle)
  /\ NoFault
  /\ UNCHANGED <<rowVars, accounts, phase, userVars, crashes>>

\* The channel of the tasks S is gone: TaskBulkUpdateByID fails their rows,
\* whatever they say by now.
BulkFail(p, S) ==
  /\ S # {} /\ \A t \in S: At(p, t, "loaded")
  /\ row' = [t \in Tasks |->
               IF t \in S THEN Written(t, "FAILURE", TRUE, row[t].quota)[t] ELSE row[t]]
  /\ work' = [work EXCEPT ![p] = [t \in Tasks |-> IF t \in S THEN Idle ELSE work[p][t]]]
  /\ disturbed' = [t \in Tasks |-> IF t \in S THEN disturbed[t] \cup {"bulk"} ELSE disturbed[t]]
  /\ UNCHANGED <<kind, source, stage, old, accounts, phase, userVars, faults, crashes>>

-----------------------------------------------------------------------------
(* updateVideoSingleTask *)

Video(p, t) == At(p, t, "loaded") /\ kind[t] # "suno"

\* Mutant: only the end of a task is guarded.
VideoProgressUnguarded(p, t, done) ==
  /\ Video(p, t)
  /\ row' = Written(t, "IN_PROGRESS", done, work[p][t].quota)
  /\ Working(p, t, Idle)
  /\ NoFault
  /\ UNCHANGED <<kind, source, stage, old, accounts, phase, userVars, crashes>>

\* The upstream is still at it.  The progress it reports is stored as it is, 100%
\* (done) included: neither query returns the row then.
VideoProgress(p, t, done) ==
  /\ Video(p, t) /\ Wins(t, work[p][t])
  /\ row' = Written(t, "IN_PROGRESS", done, work[p][t].quota)
  /\ Working(p, t, Idle)
  /\ NoFault
  /\ UNCHANGED <<kind, source, stage, old, accounts, phase, userVars, crashes>>

\* The task failed, or the upstream answers with an error.
VideoFailure(p, t) ==
  /\ Video(p, t) /\ Wins(t, work[p][t])
  /\ row' = Written(t, "FAILURE", TRUE, work[p][t].quota)
  /\ IF work[p][t].quota # 0 THEN Goto(p, t, "refund") ELSE Working(p, t, Idle)
  /\ NoFault
  /\ UNCHANGED <<kind, source, stage, old, accounts, phase, userVars, crashes>>

\* The task succeeded.  settleTaskBillingOnComplete leaves the bill alone for tasks
\* billed per call and when nothing gives an actual quota (actual = 0).
VideoSuccess(p, t, actual, done) ==
  /\ Video(p, t) /\ Wins(t, work[p][t])
  /\ row' = Written(t, "SUCCESS", done, work[p][t].quota)
  /\ Working(p, t, IF actual \in {0, work[p][t].quota}
                    THEN Idle ELSE Continued(work[p][t], "settle", "SUCCESS", done, actual, "idle"))
  /\ NoFault
  /\ UNCHANGED <<kind, source, stage, old, accounts, phase, userVars, crashes>>

\* The update fails, or someone else moved the row: no billing.
VideoSkips(p, t) ==
  /\ Video(p, t)
  /\ \/ ~Wins(t, work[p][t]) /\ NoFault
     \/ Fault(t)
  /\ Working(p, t, Idle)
  /\ UNCHANGED <<rowVars, accounts, phase, userVars, crashes>>

-----------------------------------------------------------------------------
(* updateSunoTasks *)

\* Mutant: a reason for a failure does not end a task that has another status.
SunoDoneByStatus(status, reason) == status \in Ended

\* The progress is 100%.
SunoDone(status, reason) == reason \/ status \in Ended

\* The answer is taken into the copy.  A task that failed, or whose answer gives a
\* reason for a failure, is refunded before the row is saved.
SunoAnswer(p, t, status, reason) ==
  LET refunds == (reason \/ status = "FAILURE") /\ work[p][t].quota # 0 IN
  /\ At(p, t, "loaded") /\ kind[t] = "suno"
  /\ Working(p, t, Continued(work[p][t], IF refunds THEN "refund" ELSE "save", status,
                             SunoDone(status, reason), 0, "save"))
  /\ NoFault
  /\ UNCHANGED <<rowVars, accounts, phase, userVars, crashes>>

\* task.Update: the row is saved whatever its status is by now.
SunoSave(p, t) ==
  /\ At(p, t, "save")
  /\ row' = Written(t, work[p][t].status, work[p][t].done, work[p][t].quota)
  /\ Working(p, t, Idle)
  /\ NoFault
  /\ UNCHANGED <<kind, source, stage, old, accounts, phase, userVars, crashes>>

SunoSaveFails(p, t) ==
  /\ At(p, t, "save")
  /\ Fault(t)
  /\ Working(p, t, Idle)
  /\ UNCHANGED <<rowVars, accounts, phase, userVars, crashes>>

-----------------------------------------------------------------------------
(* RefundTaskQuota, RecalculateTaskQuota *)

\* Mutant: the token is left alone.
RefundFundingOnly(p, t) ==
  /\ At(p, t, "refund")
  /\ ChargeFunding(t, -work[p][t].quota)
  /\ Goto(p, t, work[p][t].next)
  /\ NoFault
  /\ UNCHANGED <<rowVars, token, missed, missedToken, phase, userVars, crashes>>

RefundFunding(p, t) ==
  /\ At(p, t, "refund")
  /\ ChargeFunding(t, -work[p][t].quota)
  /\ Goto(p, t, "refundToken")
  /\ NoFault
  /\ UNCHANGED <<rowVars, token, missed, missedToken, phase, userVars, crashes>>

\* The refund is given up: the token is not touched.
RefundFundingFails(p, t) ==
  /\ At(p, t, "refund")
  /\ Fault(t)
  /\ Goto(p, t, work[p][t].next)
  /\ UNCHANGED <<rowVars, accounts, phase, userVars, crashes>>

RefundToken(p, t) ==
  /\ At(p, t, "refundToken")
  /\ ChargeToken(t, -work[p][t].quota)
  /\ Goto(p, t, work[p][t].next)
  /\ NoFault
  /\ UNCHANGED <<rowVars, charged, missed, missedToken, phase, userVars, crashes>>

\* The token is gone, or the statement fails.
RefundTokenFails(p, t) ==
  /\ At(p, t, "refundToken")
  /\ Fault(t)
  /\ Goto(p, t, work[p][t].next)
  /\ UNCHANGED <<rowVars, accounts, phase, userVars, crashes>>

QuotaDelta(p, t) == work[p][t].bill - work[p][t].quota

SettleFunding(p, t) ==
  /\ At(p, t, "settle")
  /\ ChargeFunding(t, QuotaDelta(p, t))
  /\ Goto(p, t, "settleToken")
  /\ NoFault
  /\ UNCHANGED <<rowVars, token, missed, missedToken, phase, userVars, crashes>>

\* A statement fails, or the subscription does not cover the difference: the
\* settlement is given up.
SettleFundingFails(p, t) ==
  /\ At(p, t, "settle")
  /\ \/ source[t] = "subscription" /\ QuotaDelta(p, t) > 0 /\ Disturb(t, "refused")
     \/ Fault(t)
  /\ Working(p, t, Idle)
  /\ UNCHANGED <<rowVars, accounts, phase, userVars, crashes>>

SettleToken(p, t) ==
  /\ At(p, t, "settleToken")
  /\ ChargeToken(t, QuotaDelta(p, t))
  /\ Goto(p, t, "settleRow")
  /\ NoFault
  /\ UNCHANGED <<rowVars, charged, missed, missedToken, phase, userVars, crashes>>

SettleTokenFails(p, t) ==
  /\ At(p, t, "settleToken")
  /\ Fault(t)
  /\ Goto(p, t, "settleRow")
  /\ UNCHANGED <<rowVars, accounts, phase, userVars, crashes>>

\* Mutant: the quota of the row is not written back.
SettleRowInMemory(p, t) ==
  /\ At(p, t, "settleRow")
  /\ Working(p, t, Idle)
  /\ NoFault
  /\ UNCHANGED <<rowVars, accounts, phase, userVars, crashes>>

\* UpdateQuota writes one column.
SettleRow(p, t) ==
  /\ At(p, t, "settleRow")
  /\ row' = Written(t, row[t].status, row[t].done, work[p][t].bill)
  /\ Working(p, t, Idle)
  /\ NoFault
  /\ UNCHANGED <<kind, source, stage, old, accounts, phase, userVars, crashes>>

SettleRowFails(p, t) ==
  /\ At(p, t, "settleRow")
  /\ Fault(t)
  /\ Working(p, t, Idle)
  /\ UNCHANGED <<rowVars, accounts, phase, userVars, crashes>>

-----------------------------------------------------------------------------
(* tryRealtimeFetch *)

\* A user asks for the task, in whatever status it is.
FetchTask(t) ==
  /\ kind[t] = "realtime" /\ row[t].status # "NONE" /\ fetch[t] = Idle
  /\ fetches < MaxFetches /\ fetches' = fetches + 1
  /\ fetch' = [fetch EXCEPT ![t] = Copy(t, "loaded")]
  /\ NoFault
  /\ UNCHANGED <<rowVars, accounts, pollVars, crashes>>

\* An answer that differs from the copy, be it in the progress or the URL alone, is
\* stored under the usual condition, and that is all.
FetchStores(t, status) ==
  /\ kind[t] = "realtime" /\ fetch[t] # Idle /\ Wins(t, fetch[t])
  /\ row' = Written(t, status, status \in Ended, fetch[t].quota)
  /\ fetch' = [fetch EXCEPT ![t] = Idle]
  /\ NoFault
  /\ UNCHANGED <<kind, source, stage, old, accounts, pollVars, fetches, crashes>>

\* No answer, nothing new in it, or the update misses the row or fails, which no one
\* looks at.
FetchSkips(t) ==
  /\ kind[t] = "realtime" /\ fetch[t] # Idle
  /\ fetch' = [fetch EXCEPT ![t] = Idle]
  /\ NoFault
  /\ UNCHANGED <<rowVars, accounts, pollVars, fetches, crashes>>

-----------------------------------------------------------------------------

\* A polling node dies.
Crash(p) ==
  /\ phase[p] # "off" /\ crashes < MaxCrashes
  /\ crashes' = crashes + 1
  /\ phase' = [phase EXCEPT ![p] = "off"]
  /\ work' = [work EXCEPT ![p] = [t \in Tasks |-> Idle]]
  /\ disturbed' = [t \in Tasks |-> IF work[p][t].pc \in BillingPCs \cup {"save"}
                                   THEN disturbed[t] \cup {"crash"} ELSE disturbed[t]]
  /\ UNCHANGED <<rowVars, accounts, userVars, faults>>

SubmitStep(t) ==
  \/ \E quota \in Quotas, at \in SubmitTimes:
       \/ Submit(t, quota, at)
       \/ \E held \in Quotas: SubmitUnsettled(t, held, quota, at)
  \/ SubmitFails(t) \/ Insert(t) \/ InsertFails(t)

VideoStep(p, t) ==
  \/ VideoFailure(p, t) \/ VideoSkips(p, t)
  \/ \E done \in BOOLEAN:
       \/ VideoProgress(p, t, done)
       \/ \E actual \in Quotas \cup {0}: VideoSuccess(p, t, actual, done)

SunoStep(p, t) ==
  \/ \E status \in Answers \cup {work[p][t].from}, reason \in BOOLEAN:
       SunoAnswer(p, t, status, reason)
  \/ SunoSave(p, t) \/ SunoSaveFails(p, t)

BillingStep(p, t) ==
  \/ RefundFunding(p, t) \/ RefundFundingFails(p, t)
  \/ RefundToken(p, t) \/ RefundTokenFails(p, t)
  \/ SettleFunding(p, t) \/ SettleFundingFails(p, t)
  \/ SettleToken(p, t) \/ SettleTokenFails(p, t)
  \/ SettleRow(p, t) \/ SettleRowFails(p, t)

FetchStep(t) ==
  FetchTask(t) \/ FetchSkips(t) \/ \E status \in Answers: FetchStores(t, status)

TaskStep(p, t) ==
  SweepTask(p, t) \/ SweepSkips(p, t) \/ PollSkips(p, t)
  \/ VideoStep(p, t) \/ SunoStep(p, t) \/ BillingStep(p, t)

PassStep(p) ==
  \/ StartPass(p) \/ LoadTasks(p) \/ EndPass(p)
  \/ \E t \in Tasks: TaskStep(p, t)

Next ==
  \/ \E t \in Tasks: SubmitStep(t) \/ Age(t) \/ FetchStep(t)
  \/ \E p \in Pollers: PassStep(p) \/ Crash(p) \/ \E S \in SUBSET Tasks: BulkFail(p, S)

Spec == Init /\ [][Next]_vars

\* The runner keeps starting passes, a pass keeps going, and time passes.
FairSpec ==
  /\ Spec
  /\ \A p \in Pollers: WF_vars(PassStep(p))
  /\ \A t \in Tasks: WF_vars(Age(t)) /\ WF_vars(Insert(t) \/ InsertFails(t))

-----------------------------------------------------------------------------
(* Properties. *)

\* Every variable has its type.
TypeOK ==
  /\ kind \in [Tasks -> Kinds] /\ source \in [Tasks -> {"wallet", "subscription"}]
  /\ stage \in [Tasks -> {"new", "insert", "over"}]
  /\ row \in [Tasks -> Rows] /\ old \subseteq Tasks
  /\ charged \in [Tasks -> Int] /\ token \in [Tasks -> Int] /\ missed \in [Tasks -> Int]
  /\ missedToken \in [Tasks -> Int]
  /\ phase \in [Pollers -> {"off", "sweep", "poll"}]
  /\ work \in [Pollers -> [Tasks -> Works]] /\ fetch \in [Tasks -> Works]
  /\ fetches \in Nat /\ faults \in Nat /\ crashes \in Nat
  /\ disturbed \in [Tasks -> SUBSET Reasons]

\* No pass is in the middle of a refund, a settlement or a save of the task.
Billing(p, t) == work[p][t].pc \in BillingPCs
Quiet(t) == \A p \in Pollers: ~Billing(p, t) /\ ~At(p, t, "save")

\* A video task, whose row is moved by UpdateWithStatus alone, is never refunded
\* more than its row says, whatever overlaps, fails or dies (the condition of
\* UpdateWithStatus makes one pass the owner of the bill).  A Suno task, whose row
\* is saved without it, is not as long as passes do not overlap and nothing fails.
NeverOverRefunded ==
  \A t \in Tasks:
    kind[t] = "video" \/ (kind[t] = "suno" /\ ~Overlap /\ disturbed[t] = {})
      => charged[t] + missed[t] >= 0

\* When nothing failed and no pass is at work on it, a video task is charged to its
\* funding source and to its token what its row says, and nothing if it failed
\* (RefundTaskQuota and RecalculateTaskQuota took both, or neither).
VideoBill ==
  \A t \in Tasks:
    kind[t] = "video" /\ row[t].status # "NONE" /\ Quiet(t) /\ disturbed[t] = {}
      => /\ charged[t] = (IF row[t].status = "FAILURE" THEN 0 ELSE row[t].quota)
         /\ token[t] = charged[t]

\* Under the same conditions, and when passes do not overlap, a Suno task that will
\* be polled again is charged its quota, and one that failed is not charged.
SunoBill ==
  \A t \in Tasks:
    kind[t] = "suno" /\ ~Overlap /\ row[t].status # "NONE" /\ Quiet(t) /\ disturbed[t] = {}
      => /\ charged[t] \in {0, row[t].quota} /\ token[t] = charged[t]
         /\ ~row[t].done => charged[t] = row[t].quota
         /\ row[t].status = "FAILURE" => charged[t] = 0

\* The end of a video task is final: no late answer, sweep or progress update of
\* another pass changes it; only TaskBulkUpdateByID does.
EndIsFinal ==
  [][\A t \in Tasks:
       kind[t] = "video" /\ row[t].status \in Ended /\ "bulk" \notin disturbed'[t]
         => row'[t].status = row[t].status]_vars

\* Every task comes to an end: if no answer ends it, the sweep does.  A row that is
\* not ended but says 100%, because the upstream's progress or a reason for a failure
\* said so, is the one that stays as it is: neither query returns it.
EveryTaskEnds ==
  \A t \in Tasks: row[t].status # "NONE" ~> row[t].status \in Ended \/ row[t].done

\* "no double refund" (service/task_billing_test.go), for every kind of task: no
\* task is refunded more than its row says.
NoDoubleRefund == \A t \in Tasks: charged[t] + missed[t] >= 0

-----------------------------------------------------------------------------
(* The inductive invariant: who owns the bill of a video task. *)

\* A row that has not ended is charged what it says and no one is billing it; the
\* copies of it have its quota.
OpenRow(t) ==
  row[t].status \in Unended =>
    /\ charged[t] + missed[t] = row[t].quota /\ token[t] + missedToken[t] = row[t].quota
    /\ \A p \in Pollers: ~Billing(p, t)
    /\ \A p \in Pollers: ~At(p, t, "idle") => work[p][t].quota = row[t].quota

\* No row, no work on it.
AbsentRow(t) ==
  row[t].status = "NONE" =>
    /\ \A p \in Pollers: At(p, t, "idle")
    /\ stage[t] = "new" =>
         charged[t] = 0 /\ token[t] = 0 /\ missed[t] = 0 /\ missedToken[t] = 0
    /\ stage[t] = "insert" =>
         /\ charged[t] + missed[t] = row[t].quota /\ token[t] + missedToken[t] = row[t].quota
         /\ ~row[t].done

\* A submission that is not over has no row.
NotYet(t) == stage[t] # "over" => row[t].status = "NONE"

\* One pass bills a task.
OneBiller(t) == \A p, q \in Pollers: Billing(p, t) /\ Billing(q, t) => p = q

\* What a pass relies on: the status it loaded, and the charge it is about to change.
WorkShape(p, t) ==
  LET w == work[p][t] IN
  /\ w.pc # "save" /\ w.next = "idle"
  /\ w.pc \in {"timedout", "loaded"} => w.from \in Unended
  /\ w.pc \in {"refund", "settle"} => charged[t] + missed[t] = w.quota
  /\ w.pc \in {"refund", "refundToken", "settle", "settleToken"} => token[t] + missedToken[t] = w.quota
  /\ w.pc = "refundToken" => charged[t] + missed[t] = 0
  /\ w.pc \in {"settleToken", "settleRow"} => charged[t] + missed[t] = w.bill
  /\ w.pc = "settleRow" /\ disturbed[t] = {} => token[t] + missedToken[t] = w.bill

\* Nothing is missed unless a settlement failed, and an undisturbed bill is the one
\* the row's status calls for.
Undisturbed(t) ==
  disturbed[t] = {} =>
    /\ missed[t] = 0 /\ missedToken[t] = 0
    /\ \A p \in Pollers: work[p][t].pc \in {"refund", "refundToken"} => row[t].status = "FAILURE"
    /\ \A p \in Pollers: work[p][t].pc \in {"settle", "settleToken", "settleRow"}
                           => row[t].status = "SUCCESS"
    /\ (\A p \in Pollers: ~Billing(p, t)) =>
         /\ row[t].status = "FAILURE" => charged[t] = 0 /\ token[t] = 0
         /\ row[t].status = "SUCCESS" => charged[t] = row[t].quota /\ token[t] = row[t].quota

VideoInv(t) ==
  /\ OpenRow(t) /\ AbsentRow(t) /\ NotYet(t) /\ OneBiller(t) /\ Undisturbed(t)
  /\ \A p \in Pollers: WorkShape(p, t)
  /\ charged[t] + missed[t] >= 0

\* What makes one pass the owner of a video task's bill.
Owned == TypeOK /\ \A t \in Tasks: kind[t] = "video" => VideoInv(t)

\* A node that is not in a pass has nothing to do.
OffIdle == \A p \in Pollers: phase[p] = "off" => \A t \in Tasks: At(p, t, "idle")

\* The inductive invariant behind NeverOverRefunded, VideoBill and EndIsFinal:
\* UpdateWithStatus hands the bill of a video task to one pass, and no pass is left
\* with work when it ends.
IInv == Owned /\ OffIdle

-----------------------------------------------------------------------------
(* The bill of a Suno task, whose row is saved without a condition: it takes   *)
(* passes that do not overlap to keep the copy a pass holds true to the row.   *)

\* One node is in a pass at a time.
OnePass == \A p, q \in Pollers: phase[p] # "off" /\ phase[q] # "off" => p = q

\* What SunoBill says of a charge to the funding source and the token.
SunoCharge(t, status, done) ==
  /\ charged[t] \in {0, row[t].quota} /\ token[t] = charged[t]
  /\ ~done => charged[t] = row[t].quota
  /\ status = "FAILURE" => charged[t] = 0

\* What a pass relies on: its copy is of the row as it is, the refund is still to be
\* given, and what it will save agrees with the charge.
SunoWork(p, t) ==
  LET w == work[p][t] IN
  /\ w.pc \in {"idle", "timedout", "loaded", "refund", "refundToken", "save"}
  /\ w.pc # "idle" => row[t].status # "NONE" /\ w.quota = row[t].quota
  /\ w.pc \in {"timedout", "loaded"} => w.from = row[t].status /\ Unfinished(t) /\ w.next = "idle"
  /\ w.pc \in {"refund", "refundToken"} =>
       /\ charged[t] = (IF w.pc = "refund" THEN row[t].quota ELSE 0)
       /\ token[t] = row[t].quota
       /\ IF w.next = "idle" THEN row[t].status = "FAILURE" /\ row[t].done
                            ELSE w.done /\ w.status # "NONE"
  /\ w.pc = "save" => w.status # "NONE" /\ SunoCharge(t, w.status, w.done)

\* Between two passes, and before there is a row.
SunoInv(t) ==
  /\ missed[t] = 0
  /\ \A p \in Pollers: SunoWork(p, t)
  /\ stage[t] # "over" => row[t].status = "NONE"
  /\ stage[t] = "insert" => charged[t] = row[t].quota /\ token[t] = row[t].quota /\ ~row[t].done
  /\ row[t].status = "NONE" /\ stage[t] # "insert" => charged[t] = 0 /\ token[t] = 0
  /\ row[t].status # "NONE" /\ Quiet(t) => SunoCharge(t, row[t].status, row[t].done)

\* The inductive invariant behind SunoBill and the Suno part of NeverOverRefunded:
\* passes that take turns work on rows that no one else writes.
SerialInv ==
  /\ IInv
  /\ ~Overlap => /\ OnePass
                 /\ \A t \in Tasks: kind[t] = "suno" /\ disturbed[t] = {} => SunoInv(t)

=============================================================================
