------------------------------ MODULE SystemTask ------------------------------
(***************************************************************************)
(* System tasks of one type (model/system_task.go, service/system_task.go):*)
(* every master node runs the same loop, which reaps expired locks, creates*)
(* the next task row when it is due and claims a pending row.  A claimed   *)
(* row is executed by a handler goroutine under a lease, the row of the    *)
(* type in system_task_locks, which a heartbeat renews.                    *)
(*                                                                         *)
(* Every database statement is a step.  The nodes share one clock, and     *)
(* times are kept relative to it: left is locked_until - now, mage is      *)
(* now - the timestamp a loop took before the statements it is executing.  *)
(* With Stalls a node may stand still for longer than the TTL.  Without, a *)
(* timestamp is used within the TTL and the heartbeat comes in time, so    *)
(* that a lease expires only once its holder is gone or has let go of it.  *)
(*                                                                         *)
(* Rows and locks of different types share nothing, so one type is enough. *)
(***************************************************************************)
EXTENDS Integers, FiniteSets

CONSTANTS
  Runners,     \* master nodes (a node that restarts has a new runner id)
  NoRunner,    \* the id of none
  TTL,         \* systemTaskLockTTL
  Stalls,      \* may a node stand still for longer than the TTL?
  MaxAge,      \* bound on the age of a timestamp in use
  MaxTasks,    \* bound on the rows created
  MaxFaults,   \* bound on failing database statements
  MaxCrashes   \* bound on crashing nodes

ASSUME TaskBounds == MaxTasks \in Nat /\ MaxFaults \in Nat /\ MaxCrashes \in Nat
ASSUME TimesAssumption ==
  TTL \in Nat /\ MaxAge \in Nat /\ Stalls \in BOOLEAN /\ (~Stalls => MaxAge <= TTL)
ASSUME NoRunnerAssumption == NoRunner \notin Runners

Tasks == 1 .. MaxTasks   \* system_tasks.id

VARIABLES
  status,      \* per row: its status; "absent" when it is not created yet
  keyed,       \* rows whose active_key is set
  lock,        \* the row of the type in system_task_locks, or NoLock
  mpc, mtask,  \* per runner: where its loop is, and the row it is claiming
  msnap,       \* per runner: the expired lock it has read
  mage,        \* per runner: the age of its timestamp
  hpc, hby,    \* per row: where its handler is, and the runner it belongs to
  hres,        \* per row: the status its handler wants to finish with
  faults, crashes,
  dispatched   \* history, per row: how many handlers were started for it

loopVars == <<mpc, mtask, msnap, mage>>
handlerVars == <<hpc, hby, hres, dispatched>>
vars == <<status, keyed, lock, mpc, mtask, msnap, mage, hpc, hby, hres, faults, crashes,
          dispatched>>

\* An expired lock stays in the table; how long ago it expired matters only in
\* comparison with the age of a timestamp.
Locks == [task: Tasks, by: Runners, left: -(MaxAge + 1) .. TTL]
NoLock == [task |-> 0, by |-> NoRunner, left |-> 0]

Statuses == {"absent", "pending", "running", "succeeded", "failed"}
Terminal == {"succeeded", "failed"}
ActiveStatuses == {"pending", "running"}   \* activeSystemTaskStatuses
LoopPCs == {"idle", "reap", "drop", "sched", "create", "claim", "acquire",
            "inspect", "takeover", "evict", "start", "undo", "down"}
HandlerPCs == {"none", "working", "finish", "release", "done", "dead"}

\* No row of the type yet.
Init ==
  /\ status = [t \in Tasks |-> "absent"]
  /\ keyed = {}
  /\ lock = NoLock
  /\ mpc = [r \in Runners |-> "idle"]
  /\ mtask = [r \in Runners |-> 0]
  /\ msnap = [r \in Runners |-> NoLock]
  /\ mage = [r \in Runners |-> 0]
  /\ hpc = [t \in Tasks |-> "none"]
  /\ hby = [t \in Tasks |-> NoRunner]
  /\ hres = [t \in Tasks |-> "failed"]
  /\ faults = 0 /\ crashes = 0
  /\ dispatched = [t \in Tasks |-> 0]

-----------------------------------------------------------------------------

At(r, label) == mpc[r] = label
Goto(r, label) == mpc' = [mpc EXCEPT ![r] = label]
Step(t, from, to) == hpc[t] = from /\ hpc' = [hpc EXCEPT ![t] = to]

\* A database statement returns an error.
Fault == faults < MaxFaults /\ faults' = faults + 1

\* The lock row is the one of this task and runner.
Holds(t, r) == lock.task = t /\ lock.by = r

\* "locked_until < now", for the current time and for the timestamp of r.
Expired == lock.left < 0

\* Mutant: a claim looks at the clock again.
ExpiredByNow(r) == lock.left < 0

ExpiredFor(r) == lock.left < -mage[r]

\* ReleaseSystemTaskLock
ReleaseLock(t, r) == lock' = IF Holds(t, r) THEN NoLock ELSE lock

\* Mutant: the key of a reaped row stays.
MarkLeaseExpiredKeepsKey(t) ==
  /\ status' = [u \in Tasks |-> IF u = t /\ status[u] = "running" THEN "failed" ELSE status[u]]
  /\ UNCHANGED keyed

\* Mutant: a row that ended before its lock was released is failed all the same.
MarkLeaseExpiredAnyStatus(t) ==
  /\ status' = [status EXCEPT ![t] = "failed"]
  /\ keyed' = keyed \ {t}

\* MarkSystemTaskLeaseExpired: a row that is no longer running is left alone.
MarkLeaseExpired(t) ==
  /\ status' = [u \in Tasks |-> IF u = t /\ status[u] = "running" THEN "failed" ELSE status[u]]
  /\ keyed' = {u \in keyed : ~(u = t /\ status[u] = "running")}

\* Mutant: the insert does not set the active_key the unique index is on.
CreateRowUnkeyed(t) ==
  /\ status[t] = "absent" /\ \A u \in Tasks : u < t => status[u] # "absent"
  /\ keyed = {}
  /\ status' = [status EXCEPT ![t] = "pending"]
  /\ UNCHANGED keyed

\* CreateSystemTask: the unique index on active_key admits one active row.
CreateRow(t) ==
  /\ status[t] = "absent" /\ \A u \in Tasks : u < t => status[u] # "absent"
  /\ keyed = {}
  /\ status' = [status EXCEPT ![t] = "pending"]
  /\ keyed' = {t}

-----------------------------------------------------------------------------
(***************************************************************************)
(* The loop of a runner: StartSystemTaskRunner's runPass.                  *)
(***************************************************************************)

\* The locals of a stage of the pass are gone when it ends.
Leave(r, label) ==
  /\ Goto(r, label)
  /\ mtask' = [mtask EXCEPT ![r] = 0]
  /\ msnap' = [msnap EXCEPT ![r] = NoLock]
  /\ mage' = [mage EXCEPT ![r] = 0]

\* A tick or a wakeup starts a pass, in which reaping and scheduling are throttled
\* separately: it begins with any of the three stages.
\* ExpireStaleSystemTaskLocks reads the expired locks, ...
ScanLocks(r) ==
  /\ At(r, "idle")
  /\ \/ /\ Expired
        /\ msnap' = [msnap EXCEPT ![r] = lock]
        /\ Goto(r, "reap")
     \/ ~Expired /\ Goto(r, "sched") /\ UNCHANGED msnap
  /\ UNCHANGED <<status, keyed, lock, mtask, mage, handlerVars, faults, crashes>>

\* Mutant: the lock is dropped, the row is forgotten.
ReapNothing(r) ==
  /\ At(r, "reap")
  /\ Goto(r, "drop")
  /\ UNCHANGED <<status, keyed, lock, mtask, msnap, mage, handlerVars, faults, crashes>>

\* ... fails the row each one belongs to ...
ReapTask(r) ==
  /\ At(r, "reap")
  /\ MarkLeaseExpired(msnap[r].task)
  /\ Goto(r, "drop")
  /\ UNCHANGED <<lock, mtask, msnap, mage, handlerVars, faults, crashes>>

\* ... and deletes the lock, unless it has changed hands meanwhile.
DropLock(r) ==
  /\ At(r, "drop")
  /\ lock' = IF Holds(msnap[r].task, msnap[r].by) /\ ExpiredFor(r) THEN NoLock ELSE lock
  /\ Leave(r, "sched")
  /\ UNCHANGED <<status, keyed, handlerVars, faults, crashes>>

\* An error ends the stage, not the pass.
PassFails(r) ==
  /\ \/ mpc[r] \in {"reap", "drop"} /\ Leave(r, "sched")
     \/ mpc[r] \in {"sched", "create"} /\ Leave(r, "claim")
     \/ mpc[r] \in {"claim", "acquire", "inspect", "takeover"} /\ Leave(r, "idle")
  /\ Fault
  /\ UNCHANGED <<status, keyed, lock, handlerVars, crashes>>

\* runSystemTaskScheduler: an active row, a disabled handler or an interval that
\* has not elapsed means that nothing is due.
Schedule(r) ==
  /\ mpc[r] \in {"idle", "sched"}
  /\ \/ (\A t \in Tasks : status[t] \notin ActiveStatuses) /\ Goto(r, "create")
     \/ Goto(r, "claim")
  /\ UNCHANGED <<status, keyed, lock, mtask, msnap, mage, handlerVars, faults, crashes>>

ScheduleCreate(r) ==
  /\ At(r, "create")
  /\ \/ \E t \in Tasks : CreateRow(t)
     \/ keyed # {} /\ UNCHANGED <<status, keyed>>
     \/ (\A t \in Tasks : status[t] # "absent") /\ UNCHANGED <<status, keyed>>
  /\ Goto(r, "claim")
  /\ UNCHANGED <<lock, mtask, msnap, mage, handlerVars, faults, crashes>>

\* runSystemTaskClaimPass and the first read of ClaimSystemTask.
FindPending(r) ==
  /\ mpc[r] \in {"idle", "claim"}
  /\ \/ \E t \in Tasks :
          /\ status[t] = "pending" /\ \A u \in Tasks : u < t => status[u] # "pending"
          /\ mtask' = [mtask EXCEPT ![r] = t]
          /\ Goto(r, "acquire")
     \/ /\ \A t \in Tasks : status[t] # "pending"
        /\ Goto(r, "idle") /\ UNCHANGED mtask
  /\ UNCHANGED <<status, keyed, lock, msnap, mage, handlerVars, faults, crashes>>

\* The lock r writes: its locked_until was computed with its timestamp.
NewLock(r) == [task |-> mtask[r], by |-> r, left |-> TTL - mage[r]]

\* Mutant: the insert replaces an existing lock.
AcquireLockUpsert(r) ==
  /\ At(r, "acquire")
  /\ lock' = NewLock(r)
  /\ Goto(r, "start")
  /\ UNCHANGED <<status, keyed, mtask, msnap, mage, handlerVars, faults, crashes>>

\* acquireSystemTaskLock: the primary key on type admits one lock, ...
AcquireLock(r) ==
  /\ At(r, "acquire")
  /\ \/ /\ lock = NoLock
        /\ lock' = NewLock(r)
        /\ Goto(r, "start")
     \/ lock # NoLock /\ Goto(r, "inspect") /\ UNCHANGED lock
  /\ UNCHANGED <<status, keyed, mtask, msnap, mage, handlerVars, faults, crashes>>

\* ... an existing one is looked at ...
InspectLock(r) ==
  /\ At(r, "inspect")
  /\ \/ /\ lock # NoLock /\ ExpiredFor(r)
        /\ msnap' = [msnap EXCEPT ![r] = lock]
        /\ Goto(r, "takeover")
        /\ UNCHANGED <<mtask, mage>>
     \/ lock = NoLock /\ Leave(r, "idle")
     \/ lock # NoLock /\ ~ExpiredFor(r) /\ Leave(r, "idle")
  /\ UNCHANGED <<status, keyed, lock, handlerVars, faults, crashes>>

\* ... and taken over if it is still expired.
TakeOverLock(r) ==
  /\ At(r, "takeover")
  /\ \/ /\ ExpiredFor(r)
        /\ lock' = NewLock(r)
        /\ Goto(r, IF msnap[r].task # mtask[r] THEN "evict" ELSE "start")
        /\ UNCHANGED <<mtask, msnap, mage>>
     \/ ~ExpiredFor(r) /\ Leave(r, "idle") /\ UNCHANGED lock
  /\ UNCHANGED <<status, keyed, handlerVars, faults, crashes>>

\* ClaimSystemTask fails the row whose lock it took over, ...
EvictTask(r) ==
  /\ At(r, "evict")
  /\ MarkLeaseExpired(msnap[r].task)
  /\ Goto(r, "start")
  /\ UNCHANGED <<lock, mtask, msnap, mage, handlerVars, faults, crashes>>

\* Mutant: the row is set running without looking at its status.
StartTaskAnyStatus(r) ==
  /\ At(r, "start")
  /\ status' = [status EXCEPT ![mtask[r]] = "running"]
  /\ hpc' = [hpc EXCEPT ![mtask[r]] = "working"]
  /\ hby' = [hby EXCEPT ![mtask[r]] = r]
  /\ dispatched' = [dispatched EXCEPT ![mtask[r]] = @ + 1]
  /\ Leave(r, "idle")
  /\ UNCHANGED <<keyed, lock, hres, faults, crashes>>

\* ... sets its own row running if it is still pending and dispatches its handler.
StartTask(r) ==
  /\ At(r, "start")
  /\ status[mtask[r]] = "pending"
  /\ status' = [status EXCEPT ![mtask[r]] = "running"]
  /\ hpc' = [hpc EXCEPT ![mtask[r]] = "working"]
  /\ hby' = [hby EXCEPT ![mtask[r]] = r]
  /\ dispatched' = [dispatched EXCEPT ![mtask[r]] = @ + 1]
  /\ Leave(r, "idle")
  /\ UNCHANGED <<keyed, lock, hres, faults, crashes>>

StartLost(r) ==
  /\ At(r, "start")
  /\ status[mtask[r]] # "pending"
  /\ Goto(r, "undo")
  /\ UNCHANGED <<status, keyed, lock, mtask, msnap, mage, handlerVars, faults, crashes>>

\* The update fails, or the read after it does: then the row is running under a
\* lease nobody renews.
ClaimFails(r) ==
  /\ Fault
  /\ \/ /\ mpc[r] \in {"evict", "start"}
        /\ Goto(r, "undo")
        /\ UNCHANGED <<status, mtask, msnap, mage>>
     \/ /\ At(r, "start") /\ status[mtask[r]] = "pending"
        /\ status' = [status EXCEPT ![mtask[r]] = "running"]
        /\ Leave(r, "idle")
  /\ UNCHANGED <<keyed, lock, handlerVars, crashes>>

\* The claim is given up; an error of the release is ignored.
UndoClaim(r) ==
  /\ At(r, "undo")
  /\ \/ ReleaseLock(mtask[r], r) /\ UNCHANGED faults
     \/ Fault /\ UNCHANGED lock
  /\ Leave(r, "idle")
  /\ UNCHANGED <<status, keyed, handlerVars, crashes>>

-----------------------------------------------------------------------------
(***************************************************************************)
(* A handler under runWithLeaseHeartbeat.                                  *)
(***************************************************************************)

\* RenewSystemTaskLock.  When it fails the handler's context is cancelled, after
\* which Complete or Abandon ends it.
Renew(t) ==
  /\ hpc[t] = "working" /\ Holds(t, hby[t]) /\ ~Expired
  /\ lock' = [lock EXCEPT !.left = TTL]
  /\ UNCHANGED <<status, keyed, loopVars, handlerVars, faults, crashes>>

\* The work is over, or its context is cancelled.
Complete(t) ==
  /\ Step(t, "working", "finish")
  /\ \E s \in Terminal : hres' = [hres EXCEPT ![t] = s]
  /\ UNCHANGED <<status, keyed, lock, loopVars, hby, dispatched, faults, crashes>>

\* runLogCleanupTask returns without finishing the row when it cannot save its
\* state: the lock is lost or the statement failed.
Abandon(t) ==
  /\ Step(t, "working", "done")
  /\ \/ /\ Expired \/ ~Holds(t, hby[t]) \/ status[t] # "running"
        /\ UNCHANGED faults
     \/ Fault
  /\ UNCHANGED <<status, keyed, lock, loopVars, hby, hres, dispatched, crashes>>

\* FinishSystemTask's conditional update: a running row, locked by its runner.
Finishable(t) == status[t] = "running" /\ Holds(t, hby[t]) /\ ~Expired

Finish(t) ==
  /\ Step(t, "finish", "release")
  /\ Finishable(t)
  /\ status' = [status EXCEPT ![t] = hres[t]]
  /\ keyed' = keyed \ {t}
  /\ UNCHANGED <<lock, loopVars, hby, hres, dispatched, faults, crashes>>

\* ErrSystemTaskLockLost, or an error of the statement: the row is left as it is.
FinishFails(t) ==
  /\ Step(t, "finish", "done")
  /\ \/ ~Finishable(t) /\ UNCHANGED faults
     \/ Fault
  /\ UNCHANGED <<status, keyed, lock, loopVars, hby, hres, dispatched, crashes>>

Release(t) ==
  /\ Step(t, "release", "done")
  /\ \/ ReleaseLock(t, hby[t]) /\ UNCHANGED faults
     \/ Fault /\ UNCHANGED lock
  /\ UNCHANGED <<status, keyed, loopVars, hby, hres, dispatched, crashes>>

-----------------------------------------------------------------------------
(***************************************************************************)
(* The environment.                                                        *)
(***************************************************************************)

\* EnqueueSystemTask, StartLogCleanupTask: an administrator asks for a run.
Enqueue ==
  /\ \E t \in Tasks : CreateRow(t)
  /\ UNCHANGED <<lock, loopVars, handlerVars, faults, crashes>>

\* The holder of the lock is between acquiring it and dispatching the handler, or
\* its handler is not over.
Claiming(r) == mpc[r] \in {"evict", "start", "undo"}
Working(t) == hpc[t] \in {"working", "finish", "release"}
HolderAtWork ==
  \/ \E r \in Runners : Claiming(r) /\ Holds(mtask[r], r)
  \/ \E t \in Tasks : Working(t) /\ Holds(t, hby[t])

\* Statements that use the timestamp of a loop.
Stamped(r) == mpc[r] \in {"reap", "drop", "acquire", "inspect", "takeover", "evict", "start"}

\* Time passes.
Tick ==
  /\ \A r \in Runners : Stamped(r) => mage[r] < MaxAge
  /\ Stalls \/ ~HolderAtWork \/ lock.left > 0
  /\ mage' = [r \in Runners |-> IF Stamped(r) THEN mage[r] + 1 ELSE mage[r]]
  /\ lock' = IF lock # NoLock /\ lock.left > -(MaxAge + 1)
               THEN [lock EXCEPT !.left = @ - 1] ELSE lock
  /\ UNCHANGED <<status, keyed, mpc, mtask, msnap, handlerVars, faults, crashes>>

Crash(r) ==
  /\ crashes < MaxCrashes /\ crashes' = crashes + 1
  /\ ~At(r, "down") /\ Leave(r, "down")
  /\ hpc' = [t \in Tasks |-> IF Working(t) /\ hby[t] = r THEN "dead" ELSE hpc[t]]
  /\ UNCHANGED <<status, keyed, lock, hby, hres, dispatched, faults>>

Loop(r) ==
  \/ ScanLocks(r) \/ ReapTask(r) \/ DropLock(r) \/ PassFails(r)
  \/ Schedule(r) \/ ScheduleCreate(r) \/ FindPending(r)
  \/ AcquireLock(r) \/ InspectLock(r) \/ TakeOverLock(r)
  \/ EvictTask(r) \/ StartTask(r) \/ StartLost(r) \/ ClaimFails(r) \/ UndoClaim(r)

Handler(t) ==
  \/ Renew(t) \/ Complete(t) \/ Abandon(t)
  \/ Finish(t) \/ FinishFails(t) \/ Release(t)

Next ==
  \/ \E r \in Runners : Loop(r) \/ Crash(r)
  \/ \E t \in Tasks : Handler(t)
  \/ Enqueue \/ Tick

Spec == Init /\ [][Next]_vars

\* The ticker drives the loop, and its reaping is due again
\* and again; time passes; a handler honours its context.
Fairness ==
  /\ \A r \in Runners : /\ WF_vars(Loop(r))
                        /\ SF_vars(ScanLocks(r))
  /\ \A t \in Tasks : WF_vars(Handler(t)) /\ WF_vars(Complete(t) \/ Abandon(t))
  /\ WF_vars(Tick)

FairSpec == Spec /\ Fairness

-----------------------------------------------------------------------------
(***************************************************************************)
(* Properties.                                                             *)
(***************************************************************************)

\* The type of every variable.
TypeOK ==
  /\ status \in [Tasks -> Statuses]
  /\ keyed \subseteq Tasks
  /\ lock \in Locks \cup {NoLock}
  /\ mpc \in [Runners -> LoopPCs]
  /\ mtask \in [Runners -> Tasks \cup {0}]
  /\ msnap \in [Runners -> Locks \cup {NoLock}]
  /\ mage \in [Runners -> 0 .. MaxAge]
  /\ hpc \in [Tasks -> HandlerPCs]
  /\ hby \in [Tasks -> Runners \cup {NoRunner}]
  /\ hres \in [Tasks -> Terminal]
  /\ faults \in Nat /\ crashes \in Nat
  /\ dispatched \in [Tasks -> Nat]

\* "The task active_key unique index deduplicates concurrent creation": whatever
\* runners and administrators do at once, one row of a type is active at most,
\* because every way out of an active status clears the key and no other does.
OneActiveRow ==
  \A t, u \in Tasks : status[t] \in ActiveStatuses /\ status[u] \in ActiveStatuses => t = u

\* A row is handed to one handler at most, whatever leases expire during a claim.
ExecutedOnce == \A t \in Tasks : dispatched[t] <= 1

\* A row that was reaped is never finished by the handler that lost its lease,
\* and a row that was started is never started again: its life is
\* pending, running, and one of the terminal statuses.
OneLife ==
  [][\A t \in Tasks :
       /\ status[t] \in Terminal => status'[t] = status[t]
       /\ status[t] = "running" => status'[t] # "pending"]_vars

\* "A DB lease dedups execution across multiple master instances": as long as no
\* node stalls, two handlers of a type never run at once.
OneWorker == ~Stalls => \A t, u \in Tasks : Working(t) /\ Working(u) => t = u

\* As long as no node stalls, a running row is named by the lock, where the other
\* nodes find it when it expires, whichever node died in whichever step.
NoOrphan == ~Stalls => \A t \in Tasks : status[t] = "running" => lock.task = t

\* A row that is created is executed or failed in the end, whichever node dies in
\* whichever step: the type does not stay blocked.
RowsEnd == \A t \in Tasks : status[t] = "pending" ~> status[t] \in Terminal

-----------------------------------------------------------------------------

\* A lease belongs to whoever is at work, and has not expired.
LeaseHeld ==
  /\ \A t \in Tasks : Working(t) => Holds(t, hby[t]) /\ ~Expired
  /\ \A r \in Runners : Claiming(r) =>
       /\ Holds(mtask[r], r) /\ ~Expired
       /\ \A t \in Tasks : ~Working(t) /\ status[t] # "running"

\* The timestamp of a loop is older than every row that runs under a lock it may
\* still drop or take over.
StampsFence ==
  \A r \in Runners :
    /\ At(r, "drop") /\ Holds(msnap[r].task, msnap[r].by) /\ ExpiredFor(r)
         => status[msnap[r].task] # "running"
    /\ mpc[r] \in {"acquire", "inspect", "takeover"} /\ ExpiredFor(r)
         => \A t \in Tasks : status[t] # "running"

\* A row has its key as long as it is active, and no handler before it runs.
RowLife ==
  /\ keyed = {t \in Tasks : status[t] \in ActiveStatuses}
  /\ OneActiveRow
  /\ ExecutedOnce
  /\ \A t \in Tasks : /\ status[t] \in {"absent", "pending"}
                           => dispatched[t] = 0 /\ hpc[t] = "none"
                      /\ hpc[t] = "release" => status[t] # "running"

\* The locals of a loop at the statements that use them.
LoopShape ==
  \A r \in Runners :
    /\ mpc[r] \in {"acquire", "inspect", "takeover", "evict", "start", "undo"}
         => mtask[r] \in Tasks
    /\ mpc[r] \in {"reap", "drop", "takeover", "evict"} => msnap[r] \in Locks

\* Inductive invariant behind OneActiveRow, ExecutedOnce, OneWorker and NoOrphan.
IInv ==
  /\ TypeOK
  /\ RowLife
  /\ LoopShape
  /\ NoOrphan
  /\ ~Stalls => LeaseHeld /\ StampsFence

=============================================================================
