--------------------------- MODULE SystemTaskProofs ---------------------------
(***************************************************************************)
(* Proofs about SystemTask for any number of nodes and rows.               *)
(***************************************************************************)
EXTENDS SystemTask, TLAPS

USE DEF At, Goto, Leave, Step, Fault, Holds, ReleaseLock, Expired, ExpiredFor, loopVars,
        handlerVars, Claiming, Working, Stamped, Statuses, Terminal, ActiveStatuses

\* A lock has its fields, and only NoLock has no task.
LEMMA LockFields ==
  ASSUME TypeOK
  PROVE  /\ lock.left \in Int
         /\ lock # NoLock => lock.task \in Tasks /\ lock.by \in Runners
         /\ NoLock.task \notin Tasks /\ NoLock.left = 0
BY NoRunnerAssumption, TimesAssumption DEF TypeOK, Locks, NoLock, Tasks

\* ScanLocks keeps the invariant.
LEMMA ScanLocksStep ==
  ASSUME IInv, NEW r \in Runners, ScanLocks(r)
  PROVE  IInv'
<1>1. TypeOK'
  BY LockFields, TimesAssumption, TaskBounds
  DEF IInv, TypeOK, LoopShape, ScanLocks, LoopPCs, HandlerPCs, Locks, NoLock
<1>2. RowLife'
  BY <1>1, LockFields
  DEF IInv, TypeOK, RowLife, OneActiveRow, ExecutedOnce, LoopShape, ScanLocks
<1>3. LoopShape'
  BY <1>1, LockFields DEF IInv, TypeOK, LoopShape, ScanLocks
<1>4. NoOrphan'
  BY <1>1, LockFields, TimesAssumption
  DEF IInv, TypeOK, RowLife, OneActiveRow, LoopShape, NoOrphan, LeaseHeld, StampsFence,
      ScanLocks
<1>5. ASSUME ~Stalls PROVE LeaseHeld'
  BY <1>5, <1>1, LockFields, TimesAssumption
  DEF IInv, TypeOK, RowLife, OneActiveRow, LoopShape, NoOrphan, LeaseHeld, StampsFence,
      ScanLocks
<1>6. ASSUME ~Stalls PROVE StampsFence'
  BY <1>6, <1>1, LockFields, TimesAssumption
  DEF IInv, TypeOK, RowLife, OneActiveRow, LoopShape, NoOrphan, LeaseHeld, StampsFence,
      ScanLocks
<1> QED BY <1>1, <1>2, <1>3, <1>4, <1>5, <1>6 DEF IInv

\* ReapTask keeps the invariant.
LEMMA ReapTaskStep ==
  ASSUME IInv, NEW r \in Runners, ReapTask(r)
  PROVE  IInv'
<1>1. TypeOK'
  BY LockFields, TimesAssumption, TaskBounds
  DEF IInv, TypeOK, LoopShape, ReapTask, MarkLeaseExpired, LoopPCs, HandlerPCs, Locks,
      NoLock
<1>2. RowLife'
  BY <1>1, LockFields
  DEF IInv, TypeOK, RowLife, OneActiveRow, ExecutedOnce, LoopShape, ReapTask,
      MarkLeaseExpired
<1>3. LoopShape'
  BY <1>1, LockFields DEF IInv, TypeOK, LoopShape, ReapTask, MarkLeaseExpired
<1>4. NoOrphan'
  BY <1>1, LockFields, TimesAssumption
  DEF IInv, TypeOK, RowLife, OneActiveRow, LoopShape, NoOrphan, LeaseHeld, StampsFence,
      ReapTask, MarkLeaseExpired
<1>5. ASSUME ~Stalls PROVE LeaseHeld'
  BY <1>5, <1>1, LockFields, TimesAssumption
  DEF IInv, TypeOK, RowLife, OneActiveRow, LoopShape, NoOrphan, LeaseHeld, StampsFence,
      ReapTask, MarkLeaseExpired
<1>6. ASSUME ~Stalls PROVE StampsFence'
  BY <1>6, <1>1, LockFields, TimesAssumption
  DEF IInv, TypeOK, RowLife, OneActiveRow, LoopShape, NoOrphan, LeaseHeld, StampsFence,
      ReapTask, MarkLeaseExpired
<1> QED BY <1>1, <1>2, <1>3, <1>4, <1>5, <1>6 DEF IInv

\* DropLock keeps the invariant.
LEMMA DropLockStep ==
  ASSUME IInv, NEW r \in Runners, DropLock(r)
  PROVE  IInv'
<1>1. TypeOK'
  BY LockFields, TimesAssumption, TaskBounds
  DEF IInv, TypeOK, LoopShape, DropLock, LoopPCs, HandlerPCs, Locks, NoLock
<1>2. RowLife'
  BY <1>1, LockFields
  DEF IInv, TypeOK, RowLife, OneActiveRow, ExecutedOnce, LoopShape, DropLock
<1>3. LoopShape'
  BY <1>1, LockFields DEF IInv, TypeOK, LoopShape, DropLock
<1>4. NoOrphan'
  BY <1>1, LockFields, TimesAssumption
  DEF IInv, TypeOK, RowLife, OneActiveRow, LoopShape, NoOrphan, LeaseHeld, StampsFence,
      DropLock
<1>5. ASSUME ~Stalls PROVE LeaseHeld'
  BY <1>5, <1>1, LockFields, TimesAssumption
  DEF IInv, TypeOK, RowLife, OneActiveRow, LoopShape, NoOrphan, LeaseHeld, StampsFence,
      DropLock
<1>6. ASSUME ~Stalls PROVE StampsFence'
  BY <1>6, <1>1, LockFields, TimesAssumption
  DEF IInv, TypeOK, RowLife, OneActiveRow, LoopShape, NoOrphan, LeaseHeld, StampsFence,
      DropLock
<1> QED BY <1>1, <1>2, <1>3, <1>4, <1>5, <1>6 DEF IInv

\* PassFails keeps the invariant.
LEMMA PassFailsStep ==
  ASSUME IInv, NEW r \in Runners, PassFails(r)
  PROVE  IInv'
<1>1. TypeOK'
  BY LockFields, TimesAssumption, TaskBounds
  DEF IInv, TypeOK, LoopShape, PassFails, LoopPCs, HandlerPCs, Locks, NoLock
<1>2. RowLife'
  BY <1>1, LockFields
  DEF IInv, TypeOK, RowLife, OneActiveRow, ExecutedOnce, LoopShape, PassFails
<1>3. LoopShape'
  BY <1>1, LockFields DEF IInv, TypeOK, LoopShape, PassFails
<1>4. NoOrphan'
  BY <1>1, LockFields, TimesAssumption
  DEF IInv, TypeOK, RowLife, OneActiveRow, LoopShape, NoOrphan, LeaseHeld, StampsFence,
      PassFails
<1>5. ASSUME ~Stalls PROVE LeaseHeld'
  BY <1>5, <1>1, LockFields, TimesAssumption
  DEF IInv, TypeOK, RowLife, OneActiveRow, LoopShape, NoOrphan, LeaseHeld, StampsFence,
      PassFails
<1>6. ASSUME ~Stalls PROVE StampsFence'
  BY <1>6, <1>1, LockFields, TimesAssumption
  DEF IInv, TypeOK, RowLife, OneActiveRow, LoopShape, NoOrphan, LeaseHeld, StampsFence,
      PassFails
<1> QED BY <1>1, <1>2, <1>3, <1>4, <1>5, <1>6 DEF IInv

\* Schedule keeps the invariant.
LEMMA ScheduleStep ==
  ASSUME IInv, NEW r \in Runners, Schedule(r)
  PROVE  IInv'
<1>1. TypeOK'
  BY LockFields, TimesAssumption, TaskBounds
  DEF IInv, TypeOK, LoopShape, Schedule, LoopPCs, HandlerPCs, Locks, NoLock
<1>2. RowLife'
  BY <1>1, LockFields
  DEF IInv, TypeOK, RowLife, OneActiveRow, ExecutedOnce, LoopShape, Schedule
<1>3. LoopShape'
  BY <1>1, LockFields DEF IInv, TypeOK, LoopShape, Schedule
<1>4. NoOrphan'
  BY <1>1, LockFields, TimesAssumption
  DEF IInv, TypeOK, RowLife, OneActiveRow, LoopShape, NoOrphan, LeaseHeld, StampsFence,
      Schedule
<1>5. ASSUME ~Stalls PROVE LeaseHeld'
  BY <1>5, <1>1, LockFields, TimesAssumption
  DEF IInv, TypeOK, RowLife, OneActiveRow, LoopShape, NoOrphan, LeaseHeld, StampsFence,
      Schedule
<1>6. ASSUME ~Stalls PROVE StampsFence'
  BY <1>6, <1>1, LockFields, TimesAssumption
  DEF IInv, TypeOK, RowLife, OneActiveRow, LoopShape, NoOrphan, LeaseHeld, StampsFence,
      Schedule
<1> QED BY <1>1, <1>2, <1>3, <1>4, <1>5, <1>6 DEF IInv

\* ScheduleCreate keeps the invariant.
LEMMA ScheduleCreateStep ==
  ASSUME IInv, NEW r \in Runners, ScheduleCreate(r)
  PROVE  IInv'
<1>1. TypeOK'
  BY LockFields, TimesAssumption, TaskBounds
  DEF IInv, TypeOK, LoopShape, ScheduleCreate, CreateRow, LoopPCs, HandlerPCs, Locks,
      NoLock
<1>2. RowLife'
  BY <1>1, LockFields
  DEF IInv, TypeOK, RowLife, OneActiveRow, ExecutedOnce, LoopShape, ScheduleCreate,
      CreateRow
<1>3. LoopShape'
  BY <1>1, LockFields DEF IInv, TypeOK, LoopShape, ScheduleCreate, CreateRow
<1>4. NoOrphan'
  BY <1>1, LockFields, TimesAssumption
  DEF IInv, TypeOK, RowLife, OneActiveRow, LoopShape, NoOrphan, LeaseHeld, StampsFence,
      ScheduleCreate, CreateRow
<1>5. ASSUME ~Stalls PROVE LeaseHeld'
  BY <1>5, <1>1, LockFields, TimesAssumption
  DEF IInv, TypeOK, RowLife, OneActiveRow, LoopShape, NoOrphan, LeaseHeld, StampsFence,
      ScheduleCreate, CreateRow
<1>6. ASSUME ~Stalls PROVE StampsFence'
  BY <1>6, <1>1, LockFields, TimesAssumption
  DEF IInv, TypeOK, RowLife, OneActiveRow, LoopShape, NoOrphan, LeaseHeld, StampsFence,
      ScheduleCreate, CreateRow
<1> QED BY <1>1, <1>2, <1>3, <1>4, <1>5, <1>6 DEF IInv

\* FindPending keeps the invariant.
LEMMA FindPendingStep ==
  ASSUME IInv, NEW r \in Runners, FindPending(r)
  PROVE  IInv'
<1>1. TypeOK'
  BY LockFields, TimesAssumption, TaskBounds
  DEF IInv, TypeOK, LoopShape, FindPending, LoopPCs, HandlerPCs, Locks, NoLock
<1>2. RowLife'
  BY <1>1, LockFields
  DEF IInv, TypeOK, RowLife, OneActiveRow, ExecutedOnce, LoopShape, FindPending
<1>3. LoopShape'
  BY <1>1, LockFields DEF IInv, TypeOK, LoopShape, FindPending
<1>4. NoOrphan'
  BY <1>1, LockFields, TimesAssumption
  DEF IInv, TypeOK, RowLife, OneActiveRow, LoopShape, NoOrphan, LeaseHeld, StampsFence,
      FindPending
<1>5. ASSUME ~Stalls PROVE LeaseHeld'
  BY <1>5, <1>1, LockFields, TimesAssumption
  DEF IInv, TypeOK, RowLife, OneActiveRow, LoopShape, NoOrphan, LeaseHeld, StampsFence,
      FindPending
<1>6. ASSUME ~Stalls PROVE StampsFence'
  BY <1>6, <1>1, LockFields, TimesAssumption
  DEF IInv, TypeOK, RowLife, OneActiveRow, LoopShape, NoOrphan, LeaseHeld, StampsFence,
      FindPending
<1> QED BY <1>1, <1>2, <1>3, <1>4, <1>5, <1>6 DEF IInv

\* AcquireLock keeps the invariant.
LEMMA AcquireLockStep ==
  ASSUME IInv, NEW r \in Runners, AcquireLock(r)
  PROVE  IInv'
<1>1. TypeOK'
  BY LockFields, TimesAssumption, TaskBounds
  DEF IInv, TypeOK, LoopShape, AcquireLock, NewLock, LoopPCs, HandlerPCs, Locks, NoLock
<1>2. RowLife'
  BY <1>1, LockFields
  DEF IInv, TypeOK, RowLife, OneActiveRow, ExecutedOnce, LoopShape, AcquireLock, NewLock
<1>3. LoopShape'
  BY <1>1, LockFields DEF IInv, TypeOK, LoopShape, AcquireLock, NewLock
<1>4. NoOrphan'
  BY <1>1, LockFields, TimesAssumption
  DEF IInv, TypeOK, RowLife, OneActiveRow, LoopShape, NoOrphan, LeaseHeld, StampsFence,
      AcquireLock, NewLock
<1>5. ASSUME ~Stalls PROVE LeaseHeld'
  BY <1>5, <1>1, LockFields, TimesAssumption
  DEF IInv, TypeOK, RowLife, OneActiveRow, LoopShape, NoOrphan, LeaseHeld, StampsFence,
      AcquireLock, NewLock
<1>6. ASSUME ~Stalls PROVE StampsFence'
  BY <1>6, <1>1, LockFields, TimesAssumption
  DEF IInv, TypeOK, RowLife, OneActiveRow, LoopShape, NoOrphan, LeaseHeld, StampsFence,
      AcquireLock, NewLock
<1> QED BY <1>1, <1>2, <1>3, <1>4, <1>5, <1>6 DEF IInv

\* InspectLock keeps the invariant.
LEMMA InspectLockStep ==
  ASSUME IInv, NEW r \in Runners, InspectLock(r)
  PROVE  IInv'
<1>1. TypeOK'
  BY LockFields, TimesAssumption, TaskBounds
  DEF IInv, TypeOK, LoopShape, InspectLock, LoopPCs, HandlerPCs, Locks, NoLock
<1>2. RowLife'
  BY <1>1, LockFields
  DEF IInv, TypeOK, RowLife, OneActiveRow, ExecutedOnce, LoopShape, InspectLock
<1>3. LoopShape'
  BY <1>1, LockFields DEF IInv, TypeOK, LoopShape, InspectLock
<1>4. NoOrphan'
  BY <1>1, LockFields, TimesAssumption
  DEF IInv, TypeOK, RowLife, OneActiveRow, LoopShape, NoOrphan, LeaseHeld, StampsFence,
      InspectLock
<1>5. ASSUME ~Stalls PROVE LeaseHeld'
  BY <1>5, <1>1, LockFields, TimesAssumption
  DEF IInv, TypeOK, RowLife, OneActiveRow, LoopShape, NoOrphan, LeaseHeld, StampsFence,
      InspectLock
<1>6. ASSUME ~Stalls PROVE StampsFence'
  BY <1>6, <1>1, LockFields, TimesAssumption
  DEF IInv, TypeOK, RowLife, OneActiveRow, LoopShape, NoOrphan, LeaseHeld, StampsFence,
      InspectLock
<1> QED BY <1>1, <1>2, <1>3, <1>4, <1>5, <1>6 DEF IInv

\* TakeOverLock keeps the invariant.
LEMMA TakeOverLockStep ==
  ASSUME IInv, NEW r \in Runners, TakeOverLock(r)
  PROVE  IInv'
<1>1. TypeOK'
  BY LockFields, TimesAssumption, TaskBounds
  DEF IInv, TypeOK, LoopShape, TakeOverLock, NewLock, LoopPCs, HandlerPCs, Locks, NoLock
<1>2. RowLife'
  BY <1>1, LockFields
  DEF IInv, TypeOK, RowLife, OneActiveRow, ExecutedOnce, LoopShape, TakeOverLock, NewLock
<1>3. LoopShape'
  BY <1>1, LockFields DEF IInv, TypeOK, LoopShape, TakeOverLock, NewLock
<1>4. NoOrphan'
  BY <1>1, LockFields, TimesAssumption
  DEF IInv, TypeOK, RowLife, OneActiveRow, LoopShape, NoOrphan, LeaseHeld, StampsFence,
      TakeOverLock, NewLock
<1>5. ASSUME ~Stalls PROVE LeaseHeld'
  BY <1>5, <1>1, LockFields, TimesAssumption
  DEF IInv, TypeOK, RowLife, OneActiveRow, LoopShape, NoOrphan, LeaseHeld, StampsFence,
      TakeOverLock, NewLock
<1>6. ASSUME ~Stalls PROVE StampsFence'
  BY <1>6, <1>1, LockFields, TimesAssumption
  DEF IInv, TypeOK, RowLife, OneActiveRow, LoopShape, NoOrphan, LeaseHeld, StampsFence,
      TakeOverLock, NewLock
<1> QED BY <1>1, <1>2, <1>3, <1>4, <1>5, <1>6 DEF IInv

\* EvictTask keeps the invariant.
LEMMA EvictTaskStep ==
  ASSUME IInv, NEW r \in Runners, EvictTask(r)
  PROVE  IInv'
<1>1. TypeOK'
  BY LockFields, TimesAssumption, TaskBounds
  DEF IInv, TypeOK, LoopShape, EvictTask, MarkLeaseExpired, LoopPCs, HandlerPCs, Locks,
      NoLock
<1>2. RowLife'
  BY <1>1, LockFields
  DEF IInv, TypeOK, RowLife, OneActiveRow, ExecutedOnce, LoopShape, EvictTask,
      MarkLeaseExpired
<1>3. LoopShape'
  BY <1>1, LockFields DEF IInv, TypeOK, LoopShape, EvictTask, MarkLeaseExpired
<1>4. NoOrphan'
  BY <1>1, LockFields, TimesAssumption
  DEF IInv, TypeOK, RowLife, OneActiveRow, LoopShape, NoOrphan, LeaseHeld, StampsFence,
      EvictTask, MarkLeaseExpired
<1>5. ASSUME ~Stalls PROVE LeaseHeld'
  BY <1>5, <1>1, LockFields, TimesAssumption
  DEF IInv, TypeOK, RowLife, OneActiveRow, LoopShape, NoOrphan, LeaseHeld, StampsFence,
      EvictTask, MarkLeaseExpired
<1>6. ASSUME ~Stalls PROVE StampsFence'
  BY <1>6, <1>1, LockFields, TimesAssumption
  DEF IInv, TypeOK, RowLife, OneActiveRow, LoopShape, NoOrphan, LeaseHeld, StampsFence,
      EvictTask, MarkLeaseExpired
<1> QED BY <1>1, <1>2, <1>3, <1>4, <1>5, <1>6 DEF IInv

\* StartTask keeps the invariant.
LEMMA StartTaskStep ==
  ASSUME IInv, NEW r \in Runners, StartTask(r)
  PROVE  IInv'
<1>1. TypeOK'
  BY LockFields, TimesAssumption, TaskBounds
  DEF IInv, TypeOK, LoopShape, StartTask, LoopPCs, HandlerPCs, Locks, NoLock
<1>2. RowLife'
  BY <1>1, LockFields
  DEF IInv, TypeOK, RowLife, OneActiveRow, ExecutedOnce, LoopShape, StartTask
<1>3. LoopShape'
  BY <1>1, LockFields DEF IInv, TypeOK, LoopShape, StartTask
<1>4. NoOrphan'
  BY <1>1, LockFields, TimesAssumption
  DEF IInv, TypeOK, RowLife, OneActiveRow, LoopShape, NoOrphan, LeaseHeld, StampsFence,
      StartTask
<1>5. ASSUME ~Stalls PROVE LeaseHeld'
  BY <1>5, <1>1, LockFields, TimesAssumption
  DEF IInv, TypeOK, RowLife, OneActiveRow, LoopShape, NoOrphan, LeaseHeld, StampsFence,
      StartTask
<1>6. ASSUME ~Stalls PROVE StampsFence'
  BY <1>6, <1>1, LockFields, TimesAssumption
  DEF IInv, TypeOK, RowLife, OneActiveRow, LoopShape, NoOrphan, LeaseHeld, StampsFence,
      StartTask
<1> QED BY <1>1, <1>2, <1>3, <1>4, <1>5, <1>6 DEF IInv

\* StartLost keeps the invariant.
LEMMA StartLostStep ==
  ASSUME IInv, NEW r \in Runners, StartLost(r)
  PROVE  IInv'
<1>1. TypeOK'
  BY LockFields, TimesAssumption, TaskBounds
  DEF IInv, TypeOK, LoopShape, StartLost, LoopPCs, HandlerPCs, Locks, NoLock
<1>2. RowLife'
  BY <1>1, LockFields
  DEF IInv, TypeOK, RowLife, OneActiveRow, ExecutedOnce, LoopShape, StartLost
<1>3. LoopShape'
  BY <1>1, LockFields DEF IInv, TypeOK, LoopShape, StartLost
<1>4. NoOrphan'
  BY <1>1, LockFields, TimesAssumption
  DEF IInv, TypeOK, RowLife, OneActiveRow, LoopShape, NoOrphan, LeaseHeld, StampsFence,
      StartLost
<1>5. ASSUME ~Stalls PROVE LeaseHeld'
  BY <1>5, <1>1, LockFields, TimesAssumption
  DEF IInv, TypeOK, RowLife, OneActiveRow, LoopShape, NoOrphan, LeaseHeld, StampsFence,
      StartLost
<1>6. ASSUME ~Stalls PROVE StampsFence'
  BY <1>6, <1>1, LockFields, TimesAssumption
  DEF IInv, TypeOK, RowLife, OneActiveRow, LoopShape, NoOrphan, LeaseHeld, StampsFence,
      StartLost
<1> QED BY <1>1, <1>2, <1>3, <1>4, <1>5, <1>6 DEF IInv

\* ClaimFails keeps the invariant.
LEMMA ClaimFailsStep ==
  ASSUME IInv, NEW r \in Runners, ClaimFails(r)
  PROVE  IInv'
<1>1. TypeOK'
  BY LockFields, TimesAssumption, TaskBounds
  DEF IInv, TypeOK, LoopShape, ClaimFails, LoopPCs, HandlerPCs, Locks, NoLock
<1>2. RowLife'
  BY <1>1, LockFields
  DEF IInv, TypeOK, RowLife, OneActiveRow, ExecutedOnce, LoopShape, ClaimFails
<1>3. LoopShape'
  BY <1>1, LockFields DEF IInv, TypeOK, LoopShape, ClaimFails
<1>4. NoOrphan'
  BY <1>1, LockFields, TimesAssumption
  DEF IInv, TypeOK, RowLife, OneActiveRow, LoopShape, NoOrphan, LeaseHeld, StampsFence,
      ClaimFails
<1>5. ASSUME ~Stalls PROVE LeaseHeld'
  BY <1>5, <1>1, LockFields, TimesAssumption
  DEF IInv, TypeOK, RowLife, OneActiveRow, LoopShape, NoOrphan, LeaseHeld, StampsFence,
      ClaimFails
<1>6. ASSUME ~Stalls PROVE StampsFence'
  BY <1>6, <1>1, LockFields, TimesAssumption
  DEF IInv, TypeOK, RowLife, OneActiveRow, LoopShape, NoOrphan, LeaseHeld, StampsFence,
      ClaimFails
<1> QED BY <1>1, <1>2, <1>3, <1>4, <1>5, <1>6 DEF IInv

\* UndoClaim keeps the invariant.
LEMMA UndoClaimStep ==
  ASSUME IInv, NEW r \in Runners, UndoClaim(r)
  PROVE  IInv'
<1>1. TypeOK'
  BY LockFields, TimesAssumption, TaskBounds
  DEF IInv, TypeOK, LoopShape, UndoClaim, LoopPCs, HandlerPCs, Locks, NoLock
<1>2. RowLife'
  BY <1>1, LockFields
  DEF IInv, TypeOK, RowLife, OneActiveRow, ExecutedOnce, LoopShape, UndoClaim
<1>3. LoopShape'
  BY <1>1, LockFields DEF IInv, TypeOK, LoopShape, UndoClaim
<1>4. NoOrphan'
  BY <1>1, LockFields, TimesAssumption
  DEF IInv, TypeOK, RowLife, OneActiveRow, LoopShape, NoOrphan, LeaseHeld, StampsFence,
      UndoClaim
<1>5. ASSUME ~Stalls PROVE LeaseHeld'
  BY <1>5, <1>1, LockFields, TimesAssumption
  DEF IInv, TypeOK, RowLife, OneActiveRow, LoopShape, NoOrphan, LeaseHeld, StampsFence,
      UndoClaim
<1>6. ASSUME ~Stalls PROVE StampsFence'
  BY <1>6, <1>1, LockFields, TimesAssumption
  DEF IInv, TypeOK, RowLife, OneActiveRow, LoopShape, NoOrphan, LeaseHeld, StampsFence,
      UndoClaim
<1> QED BY <1>1, <1>2, <1>3, <1>4, <1>5, <1>6 DEF IInv

\* Crash keeps the invariant.
LEMMA CrashStep ==
  ASSUME IInv, NEW r \in Runners, Crash(r)
  PROVE  IInv'
<1>1. TypeOK'
  BY LockFields, TimesAssumption, TaskBounds
  DEF IInv, TypeOK, LoopShape, Crash, LoopPCs, HandlerPCs, Locks, NoLock
<1>2. RowLife'
  BY <1>1, LockFields DEF IInv, TypeOK, RowLife, OneActiveRow, ExecutedOnce, LoopShape, Crash
<1>3. LoopShape'
  BY <1>1, LockFields DEF IInv, TypeOK, LoopShape, Crash
<1>4. NoOrphan'
  BY <1>1, LockFields, TimesAssumption
  DEF IInv, TypeOK, RowLife, OneActiveRow, LoopShape, NoOrphan, LeaseHeld, StampsFence,
      Crash
<1>5. ASSUME ~Stalls PROVE LeaseHeld'
  BY <1>5, <1>1, LockFields, TimesAssumption
  DEF IInv, TypeOK, RowLife, OneActiveRow, LoopShape, NoOrphan, LeaseHeld, StampsFence,
      Crash
<1>6. ASSUME ~Stalls PROVE StampsFence'
  BY <1>6, <1>1, LockFields, TimesAssumption
  DEF IInv, TypeOK, RowLife, OneActiveRow, LoopShape, NoOrphan, LeaseHeld, StampsFence,
      Crash
<1> QED BY <1>1, <1>2, <1>3, <1>4, <1>5, <1>6 DEF IInv

\* Renew keeps the invariant.
LEMMA RenewStep ==
  ASSUME IInv, NEW t \in Tasks, Renew(t)
  PROVE  IInv'
<1>1. TypeOK'
  BY LockFields, TimesAssumption, TaskBounds
  DEF IInv, TypeOK, LoopShape, Renew, LoopPCs, HandlerPCs, Locks, NoLock
<1>2. RowLife'
  BY <1>1, LockFields DEF IInv, TypeOK, RowLife, OneActiveRow, ExecutedOnce, LoopShape, Renew
<1>3. LoopShape'
  BY <1>1, LockFields DEF IInv, TypeOK, LoopShape, Renew
<1>4. NoOrphan'
  BY <1>1, LockFields, TimesAssumption
  DEF IInv, TypeOK, RowLife, OneActiveRow, LoopShape, NoOrphan, LeaseHeld, StampsFence,
      Renew
<1>5. ASSUME ~Stalls PROVE LeaseHeld'
  BY <1>5, <1>1, LockFields, TimesAssumption
  DEF IInv, TypeOK, RowLife, OneActiveRow, LoopShape, NoOrphan, LeaseHeld, StampsFence,
      Renew
<1>6. ASSUME ~Stalls PROVE StampsFence'
  BY <1>6, <1>1, LockFields, TimesAssumption
  DEF IInv, TypeOK, RowLife, OneActiveRow, LoopShape, NoOrphan, LeaseHeld, StampsFence,
      Renew
<1> QED BY <1>1, <1>2, <1>3, <1>4, <1>5, <1>6 DEF IInv

\* Complete keeps the invariant.
LEMMA CompleteStep ==
  ASSUME IInv, NEW t \in Tasks, Complete(t)
  PROVE  IInv'
<1>1. TypeOK'
  BY LockFields, TimesAssumption, TaskBounds
  DEF IInv, TypeOK, LoopShape, Complete, LoopPCs, HandlerPCs, Locks, NoLock
<1>2. RowLife'
  BY <1>1, LockFields
  DEF IInv, TypeOK, RowLife, OneActiveRow, ExecutedOnce, LoopShape, Complete
<1>3. LoopShape'
  BY <1>1, LockFields DEF IInv, TypeOK, LoopShape, Complete
<1>4. NoOrphan'
  BY <1>1, LockFields, TimesAssumption
  DEF IInv, TypeOK, RowLife, OneActiveRow, LoopShape, NoOrphan, LeaseHeld, StampsFence,
      Complete
<1>5. ASSUME ~Stalls PROVE LeaseHeld'
  BY <1>5, <1>1, LockFields, TimesAssumption
  DEF IInv, TypeOK, RowLife, OneActiveRow, LoopShape, NoOrphan, LeaseHeld, StampsFence,
      Complete
<1>6. ASSUME ~Stalls PROVE StampsFence'
  BY <1>6, <1>1, LockFields, TimesAssumption
  DEF IInv, TypeOK, RowLife, OneActiveRow, LoopShape, NoOrphan, LeaseHeld, StampsFence,
      Complete
<1> QED BY <1>1, <1>2, <1>3, <1>4, <1>5, <1>6 DEF IInv

\* Abandon keeps the invariant.
LEMMA AbandonStep ==
  ASSUME IInv, NEW t \in Tasks, Abandon(t)
  PROVE  IInv'
<1>1. TypeOK'
  BY LockFields, TimesAssumption, TaskBounds
  DEF IInv, TypeOK, LoopShape, Abandon, LoopPCs, HandlerPCs, Locks, NoLock
<1>2. RowLife'
  BY <1>1, LockFields DEF IInv, TypeOK, RowLife, OneActiveRow, ExecutedOnce, LoopShape, Abandon
<1>3. LoopShape'
  BY <1>1, LockFields DEF IInv, TypeOK, LoopShape, Abandon
<1>4. NoOrphan'
  BY <1>1, LockFields, TimesAssumption
  DEF IInv, TypeOK, RowLife, OneActiveRow, LoopShape, NoOrphan, LeaseHeld, StampsFence,
      Abandon
<1>5. ASSUME ~Stalls PROVE LeaseHeld'
  BY <1>5, <1>1, LockFields, TimesAssumption
  DEF IInv, TypeOK, RowLife, OneActiveRow, LoopShape, NoOrphan, LeaseHeld, StampsFence,
      Abandon
<1>6. ASSUME ~Stalls PROVE StampsFence'
  BY <1>6, <1>1, LockFields, TimesAssumption
  DEF IInv, TypeOK, RowLife, OneActiveRow, LoopShape, NoOrphan, LeaseHeld, StampsFence,
      Abandon
<1> QED BY <1>1, <1>2, <1>3, <1>4, <1>5, <1>6 DEF IInv

\* Finish keeps the invariant.
LEMMA FinishStep ==
  ASSUME IInv, NEW t \in Tasks, Finish(t)
  PROVE  IInv'
<1>1. TypeOK'
  BY LockFields, TimesAssumption, TaskBounds
  DEF IInv, TypeOK, LoopShape, Finish, Finishable, LoopPCs, HandlerPCs, Locks, NoLock
<1>2. RowLife'
  BY <1>1, LockFields
  DEF IInv, TypeOK, RowLife, OneActiveRow, ExecutedOnce, LoopShape, Finish, Finishable
<1>3. LoopShape'
  BY <1>1, LockFields DEF IInv, TypeOK, LoopShape, Finish, Finishable
<1>4. NoOrphan'
  BY <1>1, LockFields, TimesAssumption
  DEF IInv, TypeOK, RowLife, OneActiveRow, LoopShape, NoOrphan, LeaseHeld, StampsFence,
      Finish, Finishable
<1>5. ASSUME ~Stalls PROVE LeaseHeld'
  BY <1>5, <1>1, LockFields, TimesAssumption
  DEF IInv, TypeOK, RowLife, OneActiveRow, LoopShape, NoOrphan, LeaseHeld, StampsFence,
      Finish, Finishable
<1>6. ASSUME ~Stalls PROVE StampsFence'
  BY <1>6, <1>1, LockFields, TimesAssumption
  DEF IInv, TypeOK, RowLife, OneActiveRow, LoopShape, NoOrphan, LeaseHeld, StampsFence,
      Finish, Finishable
<1> QED BY <1>1, <1>2, <1>3, <1>4, <1>5, <1>6 DEF IInv

\* FinishFails keeps the invariant.
LEMMA FinishFailsStep ==
  ASSUME IInv, NEW t \in Tasks, FinishFails(t)
  PROVE  IInv'
<1>1. TypeOK'
  BY LockFields, TimesAssumption, TaskBounds
  DEF IInv, TypeOK, LoopShape, FinishFails, Finishable, LoopPCs, HandlerPCs, Locks, NoLock
<1>2. RowLife'
  BY <1>1, LockFields
  DEF IInv, TypeOK, RowLife, OneActiveRow, ExecutedOnce, LoopShape, FinishFails, Finishable
<1>3. LoopShape'
  BY <1>1, LockFields DEF IInv, TypeOK, LoopShape, FinishFails, Finishable
<1>4. NoOrphan'
  BY <1>1, LockFields, TimesAssumption
  DEF IInv, TypeOK, RowLife, OneActiveRow, LoopShape, NoOrphan, LeaseHeld, StampsFence,
      FinishFails, Finishable
<1>5. ASSUME ~Stalls PROVE LeaseHeld'
  BY <1>5, <1>1, LockFields, TimesAssumption
  DEF IInv, TypeOK, RowLife, OneActiveRow, LoopShape, NoOrphan, LeaseHeld, StampsFence,
      FinishFails, Finishable
<1>6. ASSUME ~Stalls PROVE StampsFence'
  BY <1>6, <1>1, LockFields, TimesAssumption
  DEF IInv, TypeOK, RowLife, OneActiveRow, LoopShape, NoOrphan, LeaseHeld, StampsFence,
      FinishFails, Finishable
<1> QED BY <1>1, <1>2, <1>3, <1>4, <1>5, <1>6 DEF IInv

\* Release keeps the invariant.
LEMMA ReleaseStep ==
  ASSUME IInv, NEW t \in Tasks, Release(t)
  PROVE  IInv'
<1>1. TypeOK'
  BY LockFields, TimesAssumption, TaskBounds
  DEF IInv, TypeOK, LoopShape, Release, LoopPCs, HandlerPCs, Locks, NoLock
<1>2. RowLife'
  BY <1>1, LockFields DEF IInv, TypeOK, RowLife, OneActiveRow, ExecutedOnce, LoopShape, Release
<1>3. LoopShape'
  BY <1>1, LockFields DEF IInv, TypeOK, LoopShape, Release
<1>4. NoOrphan'
  BY <1>1, LockFields, TimesAssumption
  DEF IInv, TypeOK, RowLife, OneActiveRow, LoopShape, NoOrphan, LeaseHeld, StampsFence,
      Release
<1>5. ASSUME ~Stalls PROVE LeaseHeld'
  BY <1>5, <1>1, LockFields, TimesAssumption
  DEF IInv, TypeOK, RowLife, OneActiveRow, LoopShape, NoOrphan, LeaseHeld, StampsFence,
      Release
<1>6. ASSUME ~Stalls PROVE StampsFence'
  BY <1>6, <1>1, LockFields, TimesAssumption
  DEF IInv, TypeOK, RowLife, OneActiveRow, LoopShape, NoOrphan, LeaseHeld, StampsFence,
      Release
<1> QED BY <1>1, <1>2, <1>3, <1>4, <1>5, <1>6 DEF IInv

\* Enqueue keeps the invariant.
LEMMA EnqueueStep ==
  ASSUME IInv, Enqueue
  PROVE  IInv'
<1>1. TypeOK'
  BY LockFields, TimesAssumption, TaskBounds
  DEF IInv, TypeOK, LoopShape, Enqueue, CreateRow, LoopPCs, HandlerPCs, Locks, NoLock
<1>2. RowLife'
  BY <1>1, LockFields
  DEF IInv, TypeOK, RowLife, OneActiveRow, ExecutedOnce, LoopShape, Enqueue, CreateRow
<1>3. LoopShape'
  BY <1>1, LockFields DEF IInv, TypeOK, LoopShape, Enqueue, CreateRow
<1>4. NoOrphan'
  BY <1>1, LockFields, TimesAssumption
  DEF IInv, TypeOK, RowLife, OneActiveRow, LoopShape, NoOrphan, LeaseHeld, StampsFence,
      Enqueue, CreateRow
<1>5. ASSUME ~Stalls PROVE LeaseHeld'
  BY <1>5, <1>1, LockFields, TimesAssumption
  DEF IInv, TypeOK, RowLife, OneActiveRow, LoopShape, NoOrphan, LeaseHeld, StampsFence,
      Enqueue, CreateRow
<1>6. ASSUME ~Stalls PROVE StampsFence'
  BY <1>6, <1>1, LockFields, TimesAssumption
  DEF IInv, TypeOK, RowLife, OneActiveRow, LoopShape, NoOrphan, LeaseHeld, StampsFence,
      Enqueue, CreateRow
<1> QED BY <1>1, <1>2, <1>3, <1>4, <1>5, <1>6 DEF IInv

\* Tick keeps the invariant.
LEMMA TickStep ==
  ASSUME IInv, Tick
  PROVE  IInv'
<1>1. TypeOK'
  BY LockFields, TimesAssumption, TaskBounds
  DEF IInv, TypeOK, LoopShape, Tick, HolderAtWork, LoopPCs, HandlerPCs, Locks, NoLock
<1>2. RowLife'
  BY <1>1, LockFields
  DEF IInv, TypeOK, RowLife, OneActiveRow, ExecutedOnce, LoopShape, Tick, HolderAtWork
<1>3. LoopShape'
  BY <1>1, LockFields DEF IInv, TypeOK, LoopShape, Tick, HolderAtWork
<1>4. NoOrphan'
  BY <1>1, LockFields, TimesAssumption
  DEF IInv, TypeOK, RowLife, OneActiveRow, LoopShape, NoOrphan, LeaseHeld, StampsFence,
      Tick, HolderAtWork
<1>5. ASSUME ~Stalls PROVE LeaseHeld'
  BY <1>5, <1>1, LockFields, TimesAssumption
  DEF IInv, TypeOK, RowLife, OneActiveRow, LoopShape, NoOrphan, LeaseHeld, StampsFence,
      Tick, HolderAtWork
<1>6. ASSUME ~Stalls PROVE StampsFence'
  BY <1>6, <1>1, LockFields, TimesAssumption
  DEF IInv, TypeOK, RowLife, OneActiveRow, LoopShape, NoOrphan, LeaseHeld, StampsFence,
      Tick, HolderAtWork
<1> QED BY <1>1, <1>2, <1>3, <1>4, <1>5, <1>6 DEF IInv

-----------------------------------------------------------------------------

\* The empty table satisfies the invariant.
LEMMA InitInv == Init => IInv
<1> SUFFICES ASSUME Init PROVE IInv OBVIOUS
<1>1. TypeOK
  BY TimesAssumption DEF Init, TypeOK, LoopPCs, HandlerPCs
<1>2. RowLife /\ LoopShape
  BY DEF Init, RowLife, LoopShape, OneActiveRow, ExecutedOnce
<1>3. NoOrphan /\ LeaseHeld /\ StampsFence
  BY DEF Init, NoOrphan, LeaseHeld, StampsFence
<1> QED BY <1>1, <1>2, <1>3 DEF IInv

\* A step that changes nothing keeps the invariant.
LEMMA StutterStep ==
  ASSUME IInv, UNCHANGED vars
  PROVE  IInv'
BY DEF IInv, TypeOK, RowLife, OneActiveRow, ExecutedOnce, LoopShape, NoOrphan, LeaseHeld,
   StampsFence, vars

\* The inductive invariant, for any number of nodes and rows, whatever crashes and
\* fails, and, but for its last part, however long nodes stand still.
THEOREM Invariance == Spec => []IInv
<1>1. ASSUME IInv, NEW r \in Runners, Loop(r) \/ Crash(r) PROVE IInv'
  BY <1>1, ScanLocksStep, ReapTaskStep, DropLockStep, PassFailsStep, ScheduleStep,
     ScheduleCreateStep, FindPendingStep, AcquireLockStep, InspectLockStep, TakeOverLockStep,
     EvictTaskStep, StartTaskStep, StartLostStep, ClaimFailsStep, UndoClaimStep, CrashStep
  DEF Loop
<1>2. ASSUME IInv, NEW t \in Tasks, Handler(t) PROVE IInv'
  BY <1>2, RenewStep, CompleteStep, AbandonStep, FinishStep, FinishFailsStep, ReleaseStep
  DEF Handler
<1>3. IInv /\ [Next]_vars => IInv'
  BY <1>1, <1>2, EnqueueStep, TickStep, StutterStep DEF Next
<1> QED BY <1>3, InitInv, PTL DEF Spec

\* Every variable keeps its type.
THEOREM TypeCorrect == Spec => []TypeOK
BY Invariance, PTL DEF IInv

\* At most one row of a type is active (the unique index on active_key).
THEOREM SingleActiveRow == Spec => []OneActiveRow
BY Invariance, PTL DEF IInv, RowLife

\* No row is handed to two handlers (the conditional update of ClaimSystemTask).
THEOREM AtMostOnce == Spec => []ExecutedOnce
BY Invariance, PTL DEF IInv, RowLife

\* Without stalls, the lease admits one handler of a type at a time.
THEOREM MutualExclusion == Spec => []OneWorker
<1>1. IInv => OneWorker
  BY DEF IInv, LeaseHeld, OneWorker
<1> QED BY <1>1, Invariance, PTL

\* Without stalls, a running row can always be found by its lock.
THEOREM Recoverable == Spec => []NoOrphan
BY Invariance, PTL DEF IInv

\* Terminal rows are final and a started row never becomes pending again, stalls
\* or not.
THEOREM LifeCycle == Spec => OneLife
<1> DEFINE A == \A t \in Tasks :
                  /\ status[t] \in Terminal => status'[t] = status[t]
                  /\ status[t] = "running" => status'[t] # "pending"
<1>1. ASSUME IInv, NEW r \in Runners, Loop(r) \/ Crash(r) PROVE A
  BY <1>1 DEF IInv, TypeOK, LoopShape, Loop, Crash, ScanLocks, ReapTask, DropLock, PassFails,
     Schedule, ScheduleCreate, FindPending, AcquireLock, InspectLock, TakeOverLock, EvictTask,
     StartTask, StartLost, ClaimFails, UndoClaim, MarkLeaseExpired, CreateRow
<1>2. ASSUME IInv, NEW t \in Tasks, Handler(t) PROVE A
  BY <1>2 DEF IInv, TypeOK, Handler, Renew, Complete, Abandon, Finish, FinishFails, Release,
     Finishable
<1>3. ASSUME IInv, Enqueue \/ Tick \/ UNCHANGED vars PROVE A
  BY <1>3 DEF IInv, TypeOK, Enqueue, CreateRow, Tick, vars
<1>4. IInv /\ [Next]_vars => [A]_vars
  BY <1>1, <1>2, <1>3 DEF Next
<1> QED BY <1>4, Invariance, PTL DEF Spec, OneLife

=============================================================================
