-------------------------- MODULE QuotaCacheProofs --------------------------
(***************************************************************************)
(* The ledger of a user's quota and the bound on its overdraft, for any    *)
(* number of requests at a time, any amounts, and any number of changes,   *)
(* goroutines, crashes and failed statements.                              *)
(***************************************************************************)
EXTENDS QuotaCache, FiniteSetTheorems, TLAPS

Kinds == {"none", "incr", "populate", "field"}
Places == {"idle", "miss", "admitted", "trusted", "held"}

-----------------------------------------------------------------------------
(* Types. *)

\* A free slot is a job.
LEMMA NoJobType == NoJob \in [kind : Kinds, value : Int, checked : BOOLEAN]
BY DEF NoJob, Kinds

\* Starting a goroutine keeps the type of jobs.
LEMMA GoType ==
  ASSUME TypeOK, NEW kind \in Kinds, NEW value \in Int, Go(kind, value)
  PROVE  jobs' \in [JobIds -> [kind : Kinds, value : Int, checked : BOOLEAN]]
<1>1. CASE ~config.redis
  BY <1>1 DEF TypeOK, Go, Kinds
<1>2. CASE config.redis
  <2>1. PICK j \in JobIds :
          jobs' = [jobs EXCEPT ![j] = [kind |-> kind, value |-> value, checked |-> FALSE]]
    BY <1>2 DEF Go
  <2>2. [kind |-> kind, value |-> value, checked |-> FALSE]
          \in [kind : Kinds, value : Int, checked : BOOLEAN]
    OBVIOUS
  <2>3. jobs \in [JobIds -> [kind : Kinds, value : Int, checked : BOOLEAN]]
    BY DEF TypeOK, Kinds
  <2>. QED BY <2>1, <2>2, <2>3
<1>. QED BY <1>1, <1>2

\* Decide admits a request or leaves it idle.
LEMMA DecideType ==
  ASSUME TypeOK, NEW r \in Requests, NEW quota \in Int, Decide(r, quota)
  PROVE  req' \in [Requests -> Places] /\ changes' \in 0 .. MaxChanges
BY QuotaAssumption DEF TypeOK, Decide, Places

\* The part of the type invariant that a change of the quota touches.
LEMMA ChangeType ==
  ASSUME TypeOK, NEW delta \in Int,
         (Change(delta) /\ UNCHANGED faults) \/ ChangeFails(delta)
  PROVE  /\ db' \in Int /\ store' \in Int /\ owed' \in Int /\ faults' \in 0 .. MaxFaults
         /\ jobs' \in [JobIds -> [kind : Kinds, value : Int, checked : BOOLEAN]]
         /\ UNCHANGED <<config, inviter, taken, writing, cache, cut, lost>>
<1>1. Go("incr", delta)
  BY DEF Change, ChangeFails
<1>2. jobs' \in [JobIds -> [kind : Kinds, value : Int, checked : BOOLEAN]]
  BY <1>1, GoType DEF Kinds
<1>. QED BY <1>2, QuotaAssumption DEF TypeOK, Change, ChangeFails, Fault, balance

\* Every step keeps the types.
LEMMA TypeStep == TypeOK /\ [Next]_vars => TypeOK'
<1>. SUFFICES ASSUME TypeOK, [Next]_vars PROVE TypeOK'
  OBVIOUS
<1>. USE QuotaAssumption
<1>1. ASSUME NEW r \in Requests, ReadCache(r) PROVE TypeOK'
  <2>1. cache.quota \in Int BY DEF TypeOK, inviter
  <2>2. req' \in [Requests -> Places] /\ changes' \in 0 .. MaxChanges
    BY <1>1, <2>1, DecideType DEF ReadCache, TypeOK, inviter, Places
  <2>. QED BY <1>1, <2>2 DEF ReadCache, TypeOK, inviter, balance, Places
<1>2. ASSUME NEW r \in Requests, ReadDB(r) PROVE TypeOK'
  <2>1. db \in Int BY DEF TypeOK, inviter
  <2>2. req' \in [Requests -> Places] /\ changes' \in 0 .. MaxChanges
    BY <1>2, <2>1, DecideType DEF ReadDB
  <2>3. jobs' \in [JobIds -> [kind : Kinds, value : Int, checked : BOOLEAN]]
    BY <1>2, <2>1, GoType DEF ReadDB, Kinds
  <2>. QED BY <1>2, <2>2, <2>3 DEF ReadDB, TypeOK, inviter, balance, Places, Kinds
<1>3. ASSUME NEW r \in Requests, PreConsume(r) PROVE TypeOK'
  <2>1. (Change(-Hold) /\ UNCHANGED faults) \/ ChangeFails(-Hold)
    BY <1>3 DEF PreConsume
  <2>2. -Hold \in Int OBVIOUS
  <2>3. req' \in [Requests -> Places] /\ UNCHANGED changes
    BY <1>3 DEF PreConsume, TypeOK, inviter, Places
  <2>. QED BY <2>1, <2>2, <2>3, ChangeType DEF TypeOK, inviter, Places, Kinds
<1>4. ASSUME NEW r \in Requests, NEW cost \in Costs, Settle(r, cost) PROVE TypeOK'
  <2>. DEFINE delta == (IF req[r] = "held" THEN Hold ELSE 0) - cost
  <2>1. delta \in Int OBVIOUS
  <2>2. req' \in [Requests -> Places] /\ UNCHANGED changes
    BY <1>4 DEF Settle, TypeOK, inviter, Places
  <2>3. \/ UNCHANGED <<config, inviter, balance, cache, jobs, owed, cut, lost, faults>>
        \/ (Change(delta) /\ UNCHANGED faults) \/ ChangeFails(delta)
    BY <1>4 DEF Settle
  <2>4. CASE UNCHANGED <<config, inviter, balance, cache, jobs, owed, cut, lost, faults>>
    BY <2>2, <2>4 DEF TypeOK, inviter, balance, Places
  <2>5. CASE (Change(delta) /\ UNCHANGED faults) \/ ChangeFails(delta)
    <3>. HIDE DEF delta
    <3>. QED BY <2>1, <2>2, <2>5, ChangeType DEF TypeOK, inviter, Places, Kinds
  <2>. QED BY <2>3, <2>4, <2>5
<1>5. ASSUME NEW delta \in Int, ChangeRow(delta) PROVE TypeOK'
  <2>1. jobs' \in [JobIds -> [kind : Kinds, value : Int, checked : BOOLEAN]]
    BY <1>5, GoType DEF ChangeRow, Kinds
  <2>. QED BY <1>5, <2>1, QuotaAssumption DEF ChangeRow, Fault, TypeOK, inviter, Kinds
<1>6. ASSUME NEW amount \in Amounts, Credit(amount) \/ Override(amount) PROVE TypeOK'
  BY <1>6 DEF Credit, Override, TypeOK, inviter
<1>7. CASE EditProfile
  <2>1. jobs' \in [JobIds -> [kind : Kinds, value : Int, checked : BOOLEAN]]
    BY <1>7, GoType DEF EditProfile, Kinds
  <2>. QED BY <1>7, <2>1 DEF EditProfile, TypeOK, inviter, balance, Kinds
<1>8. CASE InvalidateUserCache \/ Expire
  <2>1. NoHash \in [quota : Int, full : BOOLEAN, ttl : BOOLEAN, exists : BOOLEAN]
    BY DEF NoHash
  <2>2. cache' = NoHash /\ UNCHANGED <<config, inviter, balance, jobs, req, owed, cut, lost, changes, faults>>
    BY <1>8 DEF InvalidateUserCache, Expire
  <2>. QED BY <2>1, <2>2 DEF TypeOK, inviter, balance
<1>9. CASE TakeStore \/ WriteStore
  <2>1. db' \in Int /\ store' \in Int /\ taken' \in Int /\ faults' \in 0 .. MaxFaults
    BY <1>9 DEF TakeStore, WriteStore, TypeOK, inviter, Fault
  <2>3. writing' \in BOOLEAN /\ lost' \in BOOLEAN
    BY <1>9, Zenon DEF TakeStore, WriteStore, TypeOK, inviter
  <2>2. UNCHANGED <<config, inviter, cache, jobs, req, owed, cut, changes>>
    BY <1>9 DEF TakeStore, WriteStore
  <2>. QED BY <2>1, <2>2, <2>3 DEF TypeOK, inviter
<1>10. ASSUME NEW j \in JobIds, TTL(j) PROVE TypeOK'
  <2>1. jobs' \in [JobIds -> [kind : Kinds, value : Int, checked : BOOLEAN]]
    BY <1>10, NoJobType DEF TTL, TypeOK, inviter, Kinds
  <2>. QED BY <1>10, <2>1 DEF TTL, TypeOK, inviter, balance, Kinds
<1>11. ASSUME NEW j \in JobIds, Exec(j) PROVE TypeOK'
  <2>1. cache' \in [quota : Int, full : BOOLEAN, ttl : BOOLEAN, exists : BOOLEAN]
    BY <1>11 DEF Exec, HIncrBy, HSetObj, Hash, TypeOK, inviter
  <2>2. jobs' \in [JobIds -> [kind : Kinds, value : Int, checked : BOOLEAN]]
    BY <1>11, NoJobType DEF Exec, TypeOK, inviter, Kinds
  <2>. QED BY <1>11, <2>1, <2>2 DEF Exec, TypeOK, inviter, balance, Kinds
<1>12. CASE Crash
  <2>1. jobs' \in [JobIds -> [kind : Kinds, value : Int, checked : BOOLEAN]]
    BY <1>12, NoJobType DEF Crash
  <2>2. lost' \in BOOLEAN /\ writing' \in BOOLEAN
    BY <1>12 DEF Crash
  <2>3. store' \in Int /\ taken' \in Int /\ faults' \in 0 .. MaxFaults
    BY <1>12 DEF Crash, Fault, TypeOK, inviter
  <2>4. req' \in [Requests -> Places] /\ UNCHANGED <<config, db, cache, owed, undone, cut, changes>>
    BY <1>12 DEF Crash, Places
  <2>5. invite' \subseteq (1 .. MaxChanges) \X Int
    BY <1>12 DEF Crash, TypeOK
  <2>. QED BY <2>1, <2>2, <2>3, <2>4, <2>5 DEF TypeOK, Kinds, Places
<1>13. CASE UNCHANGED vars
  BY <1>13 DEF vars, balance, TypeOK, inviter
<1>15. CASE InviteRead
  <2>1. <<changes + 1, db>> \in (1 .. MaxChanges) \X Int
    BY <1>15 DEF InviteRead, TypeOK
  <2>2. invite' \subseteq (1 .. MaxChanges) \X Int /\ changes' \in 0 .. MaxChanges
    BY <1>15, <2>1 DEF InviteRead, TypeOK
  <2>. QED BY <1>15, <2>2 DEF InviteRead, TypeOK, balance
<1>16. ASSUME NEW i \in invite, InviteSave(i) PROVE TypeOK'
  <2>1. i[2] \in Int /\ invite' \subseteq (1 .. MaxChanges) \X Int
    BY <1>16 DEF InviteSave, TypeOK
  <2>2. db' \in Int /\ undone' \in Int /\ cut' \in Nat /\ faults' \in 0 .. MaxFaults
    BY <1>16, <2>1 DEF InviteSave, Fault, TypeOK
  <2>. QED BY <1>16, <2>1, <2>2 DEF InviteSave, TypeOK
<1>14. \A amount \in Amounts : amount \in Int /\ -amount \in Int
  OBVIOUS
<1>. QED BY <1>1, <1>2, <1>3, <1>4, <1>5, <1>6, <1>7, <1>8, <1>9, <1>10, <1>11, <1>12, <1>13,
            <1>14, <1>15, <1>16 DEF Next

-----------------------------------------------------------------------------
(* The ledger: where a delta is, from the call that accepts it to the row. *)

\* A change that is accepted enters the store or the row, and one that fails neither.
LEMMA ChangeLedger ==
  ASSUME TypeOK, Ledger, NEW delta \in Int, Change(delta) \/ ChangeFails(delta)
  PROVE  Ledger'
<1>1. /\ db \in Int /\ store \in Int /\ taken \in Int /\ undone \in Int /\ owed \in Int
  BY DEF TypeOK
<1>2. UNCHANGED <<taken, undone, lost>>
  BY DEF Change, ChangeFails, balance, inviter
<1>3. \/ db' = db /\ store' = store + delta /\ owed' = owed + delta
      \/ db' = db + delta /\ store' = store /\ owed' = owed + delta
      \/ db' = db /\ store' = store /\ owed' = owed
  BY DEF Change, ChangeFails, balance
<1>4. db' + store' + taken' + undone' - owed' = db + store + taken + undone - owed
  BY <1>1, <1>2, <1>3
<1>. QED BY <1>1, <1>2, <1>3, <1>4 DEF Ledger

\* Every step keeps the ledger.
LEMMA LedgerStep == TypeOK /\ Ledger /\ UpdaterIdle /\ [Next]_vars => Ledger'
<1>. SUFFICES ASSUME TypeOK, Ledger, UpdaterIdle, [Next]_vars PROVE Ledger'
  OBVIOUS
<1>. USE QuotaAssumption
<1>1. CASE UNCHANGED <<db, store, taken, undone, owed, lost>>
  BY <1>1 DEF Ledger
<1>2. ASSUME NEW r \in Requests, PreConsume(r) PROVE Ledger'
  <2>1. -Hold \in Int OBVIOUS
  <2>. QED BY <1>2, <2>1, ChangeLedger DEF PreConsume
<1>3. ASSUME NEW r \in Requests, NEW cost \in Costs, Settle(r, cost) PROVE Ledger'
  <2>. DEFINE delta == (IF req[r] = "held" THEN Hold ELSE 0) - cost
  <2>1. delta \in Int OBVIOUS
  <2>2. UNCHANGED <<db, store, taken, undone, owed, lost>> \/ Change(delta) \/ ChangeFails(delta)
    BY <1>3 DEF Settle, balance, inviter
  <2>. HIDE DEF delta
  <2>. QED BY <1>1, <2>1, <2>2, ChangeLedger
<1>4. ASSUME NEW delta \in Int, ChangeRow(delta) PROVE Ledger'
  <2>1. UNCHANGED <<store, taken, undone, lost>>
    BY <1>4 DEF ChangeRow, inviter
  <2>2. (db' = db + delta /\ owed' = owed + delta) \/ (db' = db /\ owed' = owed)
    BY <1>4 DEF ChangeRow
  <2>. QED BY <2>1, <2>2 DEF TypeOK, Ledger
<1>5. ASSUME NEW amount \in Amounts, Credit(amount) \/ Override(amount) PROVE Ledger'
  BY <1>5 DEF Credit, Override, TypeOK, Ledger, inviter
<1>6. CASE TakeStore \/ WriteStore
  <2>1. CASE TakeStore
    <3>1. taken' = store /\ store' = 0 /\ db' = db /\ owed' = owed /\ lost' = lost /\ undone' = undone
      BY <2>1 DEF TakeStore, inviter
    <3>2. taken = 0
      BY <2>1 DEF TakeStore, UpdaterIdle
    <3>. QED BY <3>1, <3>2 DEF TypeOK, Ledger
  <2>2. CASE WriteStore
    <3>1. lost' = TRUE \/ (db' = db + taken /\ lost' = lost)
      BY <2>2 DEF WriteStore
    <3>2. taken' = 0 /\ store' = store /\ owed' = owed /\ undone' = undone
      BY <2>2 DEF WriteStore, inviter
    <3>3. CASE lost' = TRUE
      BY <3>3 DEF Ledger
    <3>4. CASE db' = db + taken /\ lost' = lost
      BY <3>2, <3>4 DEF TypeOK, Ledger
    <3>. QED BY <3>1, <3>3, <3>4
  <2>. QED BY <1>6, <2>1, <2>2
<1>7. CASE Crash
  <2>1. ~lost' => ~lost /\ store = 0 /\ taken = 0
    BY <1>7, Zenon DEF Crash
  <2>2. store' = 0 /\ taken' = 0 /\ db' = db /\ owed' = owed /\ undone' = undone
    BY <1>7 DEF Crash
  <2>. QED BY <2>1, <2>2 DEF TypeOK, Ledger
<1>8. ASSUME NEW r \in Requests, ReadCache(r) \/ ReadDB(r) PROVE Ledger'
  BY <1>1, <1>8 DEF ReadCache, ReadDB, balance, inviter
<1>9. CASE EditProfile \/ InvalidateUserCache \/ Expire
  BY <1>1, <1>9 DEF EditProfile, InvalidateUserCache, Expire, balance, inviter
<1>10. ASSUME NEW j \in JobIds, TTL(j) \/ Exec(j) PROVE Ledger'
  BY <1>1, <1>10 DEF TTL, Exec, balance, inviter
<1>11. CASE UNCHANGED vars
  BY <1>1, <1>11 DEF vars, balance, inviter
<1>13. CASE InviteRead
  BY <1>1, <1>13 DEF InviteRead, balance
<1>14. ASSUME NEW i \in invite, InviteSave(i) PROVE Ledger'
  <2>1. i[2] \in Int
    BY DEF TypeOK
  <2>2. UNCHANGED <<store, taken, owed, lost>>
    BY <1>14 DEF InviteSave
  <2>3. (db' = i[2] /\ undone' = undone + db - i[2]) \/ (db' = db /\ undone' = undone)
    BY <1>14 DEF InviteSave
  <2>4. db' + store' + taken' + undone' = db + store + taken + undone
    <3>1. db \in Int /\ store \in Int /\ taken \in Int /\ undone \in Int
      BY DEF TypeOK
    <3>. QED BY <2>1, <2>2, <2>3, <3>1
  <2>. QED BY <2>2, <2>4 DEF Ledger
<1>12. \A amount \in Amounts : amount \in Int /\ -amount \in Int
  OBVIOUS
<1>. QED BY <1>2, <1>3, <1>4, <1>5, <1>6, <1>7, <1>8, <1>9, <1>10, <1>11, <1>12,
            <1>13, <1>14 DEF Next

\* The configuration is that of the start.
LEMMA ConfigFixed == [Next]_vars => config' = config
<1>1. ASSUME NEW r \in Requests, ReadCache(r) \/ ReadDB(r) \/ PreConsume(r) PROVE config' = config
  BY <1>1 DEF ReadCache, ReadDB, PreConsume, Change, ChangeFails
<1>2. ASSUME NEW r \in Requests, NEW cost \in Costs, Settle(r, cost) PROVE config' = config
  BY <1>2 DEF Settle, Change, ChangeFails
<1>3. ASSUME NEW amount, ChangeRow(amount) \/ ChangeRow(-amount) \/ Credit(amount) \/ Override(amount)
      PROVE  config' = config
  BY <1>3 DEF ChangeRow, Credit, Override
<1>4. ASSUME EditProfile \/ InvalidateUserCache \/ Expire \/ TakeStore \/ WriteStore \/ Crash
      PROVE  config' = config
  BY <1>4 DEF EditProfile, InvalidateUserCache, Expire, TakeStore, WriteStore, Crash
<1>5. ASSUME NEW j \in JobIds, TTL(j) \/ Exec(j) PROVE config' = config
  BY <1>5 DEF TTL, Exec
<1>6. ASSUME InviteRead \/ \E i \in invite : InviteSave(i) PROVE config' = config
  BY <1>6 DEF InviteRead, InviteSave
<1>. QED BY <1>1, <1>2, <1>3, <1>4, <1>5, <1>6 DEF Next, vars

\* Without the updater nothing is ever in memory only.
LEMMA OnlyBatchLosesStep == OnlyBatchLoses /\ [Next]_vars => OnlyBatchLoses'
<1>. SUFFICES ASSUME OnlyBatchLoses, [Next]_vars, ~config.batch PROVE OnlyBatchLoses'
  BY ConfigFixed DEF OnlyBatchLoses
<1>1. ~lost /\ store = 0 /\ taken = 0 /\ ~writing
  BY DEF OnlyBatchLoses
<1>2. CASE UNCHANGED <<config, store, taken, writing, lost>>
  BY <1>1, <1>2 DEF OnlyBatchLoses
<1>3. ASSUME NEW r \in Requests, ReadCache(r) \/ ReadDB(r) \/ PreConsume(r)
                \/ \E cost \in Costs : Settle(r, cost)
      PROVE  UNCHANGED <<config, store, taken, writing, lost>>
  BY <1>3 DEF ReadCache, ReadDB, PreConsume, Settle, Change, ChangeFails, balance
<1>4. ASSUME NEW amount, ChangeRow(amount) \/ ChangeRow(-amount) \/ Credit(amount) \/ Override(amount)
      PROVE  UNCHANGED <<config, store, taken, writing, lost>>
  BY <1>4 DEF ChangeRow, Credit, Override
<1>5. ASSUME EditProfile \/ InvalidateUserCache \/ Expire \/ \E j \in JobIds : TTL(j) \/ Exec(j)
      PROVE  UNCHANGED <<config, store, taken, writing, lost>>
  BY <1>5 DEF EditProfile, InvalidateUserCache, Expire, TTL, Exec, balance
<1>9. ASSUME InviteRead \/ \E i \in invite : InviteSave(i)
      PROVE  UNCHANGED <<config, store, taken, writing, lost>>
  BY <1>9 DEF InviteRead, InviteSave, balance
<1>6. ~TakeStore /\ ~WriteStore
  BY <1>1 DEF TakeStore, WriteStore
<1>7. CASE Crash
  BY <1>1, <1>7 DEF Crash, OnlyBatchLoses
<1>8. CASE UNCHANGED vars
  BY <1>2, <1>8 DEF vars, balance
<1>. QED BY <1>2, <1>3, <1>4, <1>5, <1>6, <1>7, <1>8, <1>9 DEF Next

-----------------------------------------------------------------------------
(* The overdraft. *)

\* Two disjoint sets of requests are finite and together no larger than Requests.
LEMMA Counts ==
  ASSUME NEW U \in SUBSET Requests, NEW C \in SUBSET Requests, U \cap C = {}
  PROVE  /\ IsFiniteSet(U) /\ IsFiniteSet(C)
         /\ Cardinality(U) \in Nat /\ Cardinality(C) \in Nat
         /\ Cardinality(Requests) \in Nat /\ Cardinality(Requests) >= 1
         /\ Cardinality(U) + Cardinality(C) <= Cardinality(Requests)
<1>1. IsFiniteSet(Requests) /\ Requests # {}
  BY QuotaAssumption
<1>2. IsFiniteSet(U) /\ IsFiniteSet(C)
  BY <1>1, FS_Subset
<1>3. Cardinality(U \cup C) <= Cardinality(Requests)
  <2>1. U \cup C \in SUBSET Requests OBVIOUS
  <2>. QED BY <1>1, <2>1, FS_Subset
<1>4. Cardinality(U \cup C) = Cardinality(U) + Cardinality(C) - Cardinality(U \cap C)
  BY <1>2, FS_Union
<1>5. Cardinality(U \cap C) = 0
  BY FS_EmptySet
<1>6. Cardinality(U) \in Nat /\ Cardinality(C) \in Nat /\ Cardinality(Requests) \in Nat
  BY <1>1, <1>2, FS_CardinalityType
<1>7. Cardinality(Requests) # 0
  BY <1>1, FS_EmptySet
<1>. QED BY <1>2, <1>3, <1>4, <1>5, <1>6, <1>7

\* What u requests that were not charged and c that were may still charge.
Outstanding(u, c) == MaxCost * u + (MaxCost - Hold) * c

\* They charge no more than all requests that run at once can cost.
LEMMA OutstandingBound ==
  ASSUME NEW u \in Nat, NEW c \in Nat, NEW n \in Nat, u + c <= n
  PROVE  Outstanding(u, c) \in Int /\ Outstanding(u, c) <= MaxCost * n
<1>. USE QuotaAssumption
<1>1. MaxCost * n = MaxCost * u + MaxCost * c + MaxCost * (n - u - c)
  OBVIOUS
<1>2. MaxCost * (n - u - c) >= 0
  OBVIOUS
<1>3. (MaxCost - Hold) * c = MaxCost * c - Hold * c
  OBVIOUS
<1>4. Hold * c >= 0 /\ Hold * c \in Int /\ MaxCost * c \in Int /\ MaxCost * u \in Int
      /\ MaxCost * n \in Int /\ MaxCost * (n - u - c) \in Int
  OBVIOUS
<1>. QED BY <1>1, <1>2, <1>3, <1>4 DEF Outstanding

\* One request more or less of either sort.
LEMMA OutstandingStep ==
  ASSUME NEW u \in Nat, NEW c \in Nat
  PROVE  /\ Outstanding(u, c) \in Int /\ Outstanding(u, c) >= 0
         /\ Outstanding(u + 1, c) = Outstanding(u, c) + MaxCost
         /\ Outstanding(u, c + 1) = Outstanding(u, c) + MaxCost - Hold
<1>. USE QuotaAssumption
<1>1. MaxCost * (u + 1) = MaxCost * u + MaxCost
  OBVIOUS
<1>2. (MaxCost - Hold) * (c + 1) = (MaxCost - Hold) * c + (MaxCost - Hold)
  OBVIOUS
<1>3. MaxCost * u >= 0 /\ (MaxCost - Hold) * c >= 0
  OBVIOUS
<1>4. MaxCost * u \in Int /\ (MaxCost - Hold) * c \in Int
  OBVIOUS
<1>. QED BY <1>1, <1>2, <1>3, <1>4 DEF Outstanding

Owing(U, C) == Outstanding(Cardinality(U), Cardinality(C))
Floor == Hold - MaxCost * Cardinality(Requests)

\* The floor is an integer below any quota that is not negative.
LEMMA FloorBelow == Floor \in Int /\ Floor <= 0
<1>. USE QuotaAssumption
<1>1. Cardinality(Requests) \in Nat /\ Cardinality(Requests) >= 1
  <2>1. {} \in SUBSET Requests /\ {} \cap {} = {} OBVIOUS
  <2>. QED BY <2>1, Counts
<1>2. MaxCost * Cardinality(Requests) = MaxCost + MaxCost * (Cardinality(Requests) - 1)
  BY <1>1
<1>3. MaxCost * (Cardinality(Requests) - 1) >= 0 /\ MaxCost * Cardinality(Requests) \in Int
      /\ MaxCost * (Cardinality(Requests) - 1) \in Int
  BY <1>1
<1>. QED BY <1>2, <1>3 DEF Floor

\* The row d, with k taken away, is above what the sets of requests owe.
Covered(d, k, U, C) == d >= Owing(U, C) + Floor - k

\* Exposure in these terms, before and after a step.
LEMMA ExposureMeans ==
  ASSUME NEW U \in SUBSET Requests, NEW C \in SUBSET Requests, U \cap C = {},
         NEW d \in Int, NEW k \in Nat
  PROVE  /\ Owing(U, C) \in Int /\ Owing(U, C) >= 0
         /\ Covered(d, k, U, C) <=>
              d >= MaxCost * Cardinality(U) + (MaxCost - Hold) * Cardinality(C)
                     + Hold - MaxCost * Cardinality(Requests) - k
<1>. USE QuotaAssumption
<1>1. Cardinality(U) \in Nat /\ Cardinality(C) \in Nat /\ Cardinality(Requests) \in Nat
  BY Counts
<1>2. /\ MaxCost * Cardinality(U) \in Int /\ MaxCost * Cardinality(Requests) \in Int
      /\ (MaxCost - Hold) * Cardinality(C) \in Int
  BY <1>1
<1>3. Owing(U, C) \in Int /\ Owing(U, C) >= 0
  BY <1>1, OutstandingStep DEF Owing
<1>. QED BY <1>2, <1>3 DEF Covered, Owing, Floor, Outstanding

\* A request that is admitted on a quota that covers its hold leaves the row covered.
LEMMA AdmitCovered ==
  ASSUME NEW U \in SUBSET Requests, NEW C \in SUBSET Requests, U \cap C = {},
         NEW d \in Int, NEW k \in Nat, d >= Hold
  PROVE  Covered(d, k, U, C)
<1>. USE QuotaAssumption
<1>1. Cardinality(U) \in Nat /\ Cardinality(C) \in Nat /\ Cardinality(Requests) \in Nat
      /\ Cardinality(U) + Cardinality(C) <= Cardinality(Requests)
  BY Counts
<1>2. Owing(U, C) \in Int /\ Owing(U, C) <= MaxCost * Cardinality(Requests)
  BY <1>1, OutstandingBound DEF Owing
<1>3. MaxCost * Cardinality(Requests) \in Int
  BY <1>1
<1>. QED BY <1>2, <1>3 DEF Covered, Floor

\* A request that leaves the sets owes nothing any more; one whose hold is taken
\* owes as much less.
LEMMA MoveOwing ==
  ASSUME NEW U \in SUBSET Requests, NEW C \in SUBSET Requests, U \cap C = {}, NEW r \in U \cup C
  PROVE  /\ r \in U => Owing(U \ {r}, C) = Owing(U, C) - MaxCost
         /\ r \in C => Owing(U, C \ {r}) = Owing(U, C) - (MaxCost - Hold)
         /\ r \in U => Owing(U \ {r}, C \cup {r}) = Owing(U, C) - Hold
<1>. USE QuotaAssumption
<1>1. IsFiniteSet(U) /\ IsFiniteSet(C) /\ Cardinality(U) \in Nat /\ Cardinality(C) \in Nat
  BY Counts
<1>2. ASSUME r \in U
      PROVE  /\ Owing(U \ {r}, C) = Owing(U, C) - MaxCost
             /\ Owing(U \ {r}, C \cup {r}) = Owing(U, C) - Hold
  <2>. DEFINE u == Cardinality(U \ {r})
  <2>1. Cardinality(U) = u + 1 /\ u \in Nat
    <3>1. IsFiniteSet(U \ {r}) /\ u = Cardinality(U) - 1
      BY <1>1, <1>2, FS_RemoveElement
    <3>2. u \in Nat
      BY <3>1, FS_CardinalityType
    <3>. QED BY <1>1, <3>1, <3>2
  <2>2. Cardinality(C \cup {r}) = Cardinality(C) + 1
    BY <1>1, <1>2, FS_AddElement
  <2>. HIDE DEF u
  <2>3. /\ Outstanding(u + 1, Cardinality(C)) = Outstanding(u, Cardinality(C)) + MaxCost
        /\ Outstanding(u, Cardinality(C) + 1) = Outstanding(u, Cardinality(C)) + MaxCost - Hold
        /\ Outstanding(u, Cardinality(C)) \in Int
    BY <1>1, <2>1, OutstandingStep
  <2>. QED BY <2>1, <2>2, <2>3 DEF Owing, u
<1>3. ASSUME r \in C PROVE Owing(U, C \ {r}) = Owing(U, C) - (MaxCost - Hold)
  <2>. DEFINE c == Cardinality(C \ {r})
  <2>1. Cardinality(C) = c + 1 /\ c \in Nat
    <3>1. IsFiniteSet(C \ {r}) /\ c = Cardinality(C) - 1
      BY <1>1, <1>3, FS_RemoveElement
    <3>2. c \in Nat
      BY <3>1, FS_CardinalityType
    <3>. QED BY <1>1, <3>1, <3>2
  <2>. HIDE DEF c
  <2>2. /\ Outstanding(Cardinality(U), c + 1) = Outstanding(Cardinality(U), c) + MaxCost - Hold
        /\ Outstanding(Cardinality(U), c) \in Int
    BY <1>1, <2>1, OutstandingStep
  <2>. QED BY <2>1, <2>2 DEF Owing, c
<1>. QED BY <1>2, <1>3

\* What is owed counts against the row and what was taken away from it.
LEMMA Slack ==
  ASSUME NEW owing \in Int, NEW d \in Int, NEW e \in Int, NEW k \in Nat, NEW l \in Nat,
         e + l >= d + k
  PROVE  owing - e - l <= owing - d - k
OBVIOUS

\* Every step keeps the exposure: a check that the row passes covers the request,
\* and every charge was covered by one.
LEMMA ExposureStep == TypeOK /\ OnlyBatchLoses /\ Exposure /\ [Next]_vars => Exposure'
<1>. SUFFICES ASSUME TypeOK, TypeOK', OnlyBatchLoses, Exposure, [Next]_vars, Direct PROVE Exposure'
  BY TypeStep, ConfigFixed DEF Exposure, Direct
<1>. USE QuotaAssumption
<1>. DEFINE U == Uncharged  C == Charged  V == Uncharged'  D == Charged'
<1>1. /\ U \in SUBSET Requests /\ C \in SUBSET Requests /\ U \cap C = {}
      /\ V \in SUBSET Requests /\ D \in SUBSET Requests /\ V \cap D = {}
  BY DEF Uncharged, Charged
<1>2. db \in Int /\ db' \in Int /\ cut \in Nat /\ cut' \in Nat
  BY DEF TypeOK
<1>3. Covered(db, cut, U, C)
  BY <1>1, <1>2, ExposureMeans DEF Exposure
<1>4. Covered(db', cut', V, D) => Exposure'
  BY <1>1, <1>2, ExposureMeans DEF Exposure
<1>5. Owing(U, C) \in Int /\ Owing(V, D) \in Int /\ Floor \in Int
  BY <1>1, <1>2, ExposureMeans, FloorBelow
<1>6. ASSUME Owing(V, D) - db' - cut' <= Owing(U, C) - db - cut PROVE Exposure'
  BY <1>2, <1>3, <1>4, <1>5, <1>6 DEF Covered
<1>7. ASSUME req' = req, db' + cut' >= db + cut PROVE Exposure'
  <2>1. Owing(V, D) = Owing(U, C) BY <1>7 DEF Uncharged, Charged
  <2>2. Owing(U, C) - db' - cut' <= Owing(U, C) - db - cut
    BY <1>2, <1>5, <1>7, Slack
  <2>. QED BY <1>6, <2>1, <2>2
<1>8. ASSUME NEW r \in Requests, Decide(r, db), req[r] = "miss", db' = db, cut' = cut PROVE Exposure'
  <2>1. CASE db >= Hold
    BY <1>1, <1>2, <1>4, <1>8, <2>1, AdmitCovered
  <2>2. CASE req' = [req EXCEPT ![r] = "idle"]
    <3>1. V = U /\ D = C BY <1>8, <2>2 DEF Uncharged, Charged, TypeOK
    <3>. QED BY <1>2, <1>5, <1>6, <1>8, <3>1
  <2>3. db >= Hold \/ req' = [req EXCEPT ![r] = "idle"]
    BY <1>2, <1>8 DEF Decide
  <2>. QED BY <2>1, <2>2, <2>3
<1>9. ASSUME NEW r \in Requests, ReadCache(r) \/ ReadDB(r) PROVE Exposure'
  <2>1. CASE ReadDB(r)
    BY <1>8, <2>1 DEF ReadDB, balance
  <2>2. CASE ReadCache(r)
    <3>1. req' = [req EXCEPT ![r] = "miss"] /\ req[r] = "idle" /\ db' = db /\ cut' = cut
      BY <2>2 DEF ReadCache, balance, Direct
    <3>2. V = U /\ D = C BY <3>1 DEF Uncharged, Charged, TypeOK
    <3>. QED BY <1>2, <1>5, <1>6, <3>1, <3>2
  <2>. QED BY <1>9, <2>1, <2>2
<1>10. ASSUME NEW r \in Requests, PreConsume(r) PROVE Exposure'
  <2>1. r \in U /\ r \in U \cup C
    BY <1>10 DEF PreConsume, Uncharged
  <2>2. CASE Change(-Hold) /\ req' = [req EXCEPT ![r] = "held"]
    <3>1. V = U \ {r} /\ D = C \cup {r}
      BY <2>2 DEF Uncharged, Charged, TypeOK
    <3>2. Owing(V, D) = Owing(U, C) - Hold
      BY <1>1, <2>1, <3>1, MoveOwing
    <3>3. db' = db - Hold /\ cut' = cut
      BY <1>2, <2>2 DEF Change, Direct
    <3>. QED BY <1>2, <1>5, <1>6, <3>2, <3>3
  <2>3. CASE ChangeFails(-Hold) /\ req' = [req EXCEPT ![r] = "idle"]
    <3>1. V = U \ {r} /\ D = C
      BY <1>10, <2>3 DEF PreConsume, Uncharged, Charged, TypeOK
    <3>2. Owing(V, D) = Owing(U, C) - MaxCost
      BY <1>1, <2>1, <3>1, MoveOwing
    <3>3. db' = db /\ cut' = cut
      BY <2>3 DEF ChangeFails, balance
    <3>. QED BY <1>2, <1>5, <1>6, <3>2, <3>3
  <2>. QED BY <1>10, <2>2, <2>3 DEF PreConsume
<1>11. ASSUME NEW r \in Requests, NEW cost \in Costs, Settle(r, cost) PROVE Exposure'
  <2>. DEFINE held == IF req[r] = "held" THEN Hold ELSE 0
  <2>1. cost \in Nat /\ cost <= MaxCost
    OBVIOUS
  <2>2. cut' = cut /\ (db' = db + (held - cost) \/ db' = db)
    BY <1>2, <1>11, <2>1 DEF Settle, Change, ChangeFails, Direct, balance
  <2>3. req' = [req EXCEPT ![r] = "idle"] /\ req[r] \in {"held", "trusted"}
    BY <1>11 DEF Settle
  <2>4. CASE req[r] = "held"
    <3>1. r \in C /\ V = U /\ D = C \ {r}
      BY <2>3, <2>4 DEF Uncharged, Charged, TypeOK
    <3>2. Owing(V, D) = Owing(U, C) - (MaxCost - Hold)
      BY <1>1, <3>1, MoveOwing
    <3>. QED BY <1>2, <1>5, <1>6, <2>1, <2>2, <2>4, <3>2
  <2>5. CASE req[r] = "trusted"
    <3>1. r \in U /\ V = U \ {r} /\ D = C
      BY <2>3, <2>5 DEF Uncharged, Charged, TypeOK
    <3>2. Owing(V, D) = Owing(U, C) - MaxCost
      <4>1. r \in U \cup C BY <3>1
      <4>2. Owing(U \ {r}, C) = Owing(U, C) - MaxCost
        BY <1>1, <3>1, <4>1, MoveOwing
      <4>. QED BY <3>1, <4>2
    <3>. QED BY <1>2, <1>5, <1>6, <2>1, <2>2, <2>5, <3>2
  <2>. QED BY <2>3, <2>4, <2>5
<1>12. ASSUME NEW delta \in Int, ChangeRow(delta) PROVE Exposure'
  <2>1. /\ req' = req
        /\ \/ db' = db + delta /\ cut' = IF delta < 0 THEN cut - delta ELSE cut
           \/ db' = db /\ cut' = cut
    BY <1>12 DEF ChangeRow
  <2>2. db' + cut' >= db + cut
    <3>1. CASE db' = db + delta /\ cut' = IF delta < 0 THEN cut - delta ELSE cut
      BY <1>2, <3>1
    <3>2. CASE db' = db /\ cut' = cut
      BY <1>2, <3>2
    <3>. QED BY <2>1, <3>1, <3>2
  <2>. QED BY <1>7, <2>1, <2>2
<1>13. ASSUME NEW amount \in Amounts, Credit(amount) \/ Override(amount) PROVE Exposure'
  <2>1. req' = req
    BY <1>13 DEF Credit, Override
  <2>2. CASE Credit(amount)
    <3>1. db' + cut' >= db + cut BY <1>2, <2>2 DEF Credit
    <3>. QED BY <1>7, <2>1, <3>1
  <2>3. CASE Override(amount)
    <3>1. db' = amount /\ cut' = IF amount < db THEN cut + db - amount ELSE cut
      BY <2>3 DEF Override
    <3>2. db' + cut' >= db + cut BY <1>2, <3>1
    <3>. QED BY <1>7, <2>1, <3>2
  <2>. QED BY <1>13, <2>2, <2>3
<1>20. CASE InviteRead
  <2>1. req' = req /\ db' = db /\ cut' = cut
    BY <1>20 DEF InviteRead, balance
  <2>2. db' + cut' >= db + cut
    BY <1>2, <2>1
  <2>. QED BY <1>7, <2>1, <2>2
<1>21. ASSUME NEW i \in invite, InviteSave(i) PROVE Exposure'
  <2>1. req' = req /\ i[2] \in Int
    BY <1>21 DEF InviteSave, TypeOK
  <2>2. CASE db' = i[2] /\ cut' = IF i[2] < db THEN cut + db - i[2] ELSE cut
    <3>1. db' + cut' >= db + cut BY <1>2, <2>1, <2>2
    <3>. QED BY <1>7, <2>1, <3>1
  <2>3. CASE db' = db /\ cut' = cut
    <3>1. db' + cut' >= db + cut BY <1>2, <2>3
    <3>. QED BY <1>7, <2>1, <3>1
  <2>. QED BY <1>21, <2>2, <2>3 DEF InviteSave
<1>14. CASE EditProfile \/ InvalidateUserCache \/ Expire
  <2>1. req' = req /\ db' = db /\ cut' = cut
    BY <1>14 DEF EditProfile, InvalidateUserCache, Expire, balance
  <2>2. db' + cut' >= db + cut
    BY <1>2, <2>1
  <2>. QED BY <1>7, <2>1, <2>2
<1>15. ~TakeStore /\ ~WriteStore
  BY DEF TakeStore, WriteStore, OnlyBatchLoses, Direct
<1>16. ASSUME NEW j \in JobIds, TTL(j) \/ Exec(j) PROVE Exposure'
  BY <1>2, <1>7, <1>16 DEF TTL, Exec, balance
<1>17. CASE Crash
  <2>1. V = {} /\ D = {} /\ db' = db /\ cut' = cut
    BY <1>17 DEF Crash, Uncharged, Charged
  <2>2. Owing(V, D) = 0
    BY <2>1, FS_EmptySet DEF Owing, Outstanding
  <2>3. Owing(U, C) >= 0
    BY <1>1, <1>2, ExposureMeans
  <2>. QED BY <1>2, <1>5, <1>6, <2>1, <2>2, <2>3
<1>18. CASE UNCHANGED vars
  BY <1>2, <1>7, <1>18 DEF vars, balance
<1>19. \A amount \in Amounts : amount \in Int /\ -amount \in Int
  OBVIOUS
<1>. QED BY <1>9, <1>10, <1>11, <1>12, <1>13, <1>14, <1>15, <1>16, <1>17, <1>18, <1>19,
            <1>20, <1>21 DEF Next

-----------------------------------------------------------------------------
(* The theorems. *)

\* Every step leaves an idle updater with nothing to write.
LEMMA UpdaterIdleStep == UpdaterIdle /\ [Next]_vars => UpdaterIdle'
<1>. SUFFICES ASSUME UpdaterIdle, [Next]_vars PROVE UpdaterIdle'
  OBVIOUS
<1>1. CASE UNCHANGED <<taken, writing>>
  BY <1>1 DEF UpdaterIdle
<1>2. ASSUME NEW r \in Requests, ReadCache(r) \/ ReadDB(r) \/ PreConsume(r)
                \/ \E cost \in Costs : Settle(r, cost)
      PROVE  UNCHANGED <<taken, writing>>
  BY <1>2 DEF ReadCache, ReadDB, PreConsume, Settle, Change, ChangeFails, balance
<1>3. ASSUME NEW amount, ChangeRow(amount) \/ ChangeRow(-amount) \/ Credit(amount) \/ Override(amount)
      PROVE  UNCHANGED <<taken, writing>>
  BY <1>3 DEF ChangeRow, Credit, Override
<1>4. ASSUME EditProfile \/ InvalidateUserCache \/ Expire \/ \E j \in JobIds : TTL(j) \/ Exec(j)
      PROVE  UNCHANGED <<taken, writing>>
  BY <1>4 DEF EditProfile, InvalidateUserCache, Expire, TTL, Exec, balance
<1>9. ASSUME InviteRead \/ \E i \in invite : InviteSave(i) PROVE UNCHANGED <<taken, writing>>
  BY <1>9 DEF InviteRead, InviteSave, balance
<1>5. CASE TakeStore
  BY <1>5 DEF TakeStore, UpdaterIdle
<1>6. CASE WriteStore
  BY <1>6 DEF WriteStore, UpdaterIdle
<1>7. CASE Crash
  BY <1>7 DEF Crash, UpdaterIdle
<1>8. CASE UNCHANGED vars
  BY <1>1, <1>8 DEF vars, balance
<1>. QED BY <1>1, <1>2, <1>3, <1>4, <1>5, <1>6, <1>7, <1>8, <1>9 DEF Next

\* The row starts with a quota that no request has touched.
LEMMA InitInv == Init => IInv
<1>. SUFFICES ASSUME Init PROVE IInv
  OBVIOUS
<1>. USE QuotaAssumption
<1>1. TypeOK
  <2>1. NoHash \in [quota : Int, full : BOOLEAN, ttl : BOOLEAN, exists : BOOLEAN]
    BY DEF NoHash
  <2>2. jobs \in [JobIds -> [kind : Kinds, value : Int, checked : BOOLEAN]]
    BY NoJobType DEF Init
  <2>3. /\ db \in Int /\ store \in Int /\ taken \in Int /\ owed \in Int /\ cut \in Nat
        /\ invite \subseteq (1 .. MaxChanges) \X Int /\ undone \in Int
        /\ changes \in 0 .. MaxChanges /\ faults \in 0 .. MaxFaults
    BY DEF Init
  <2>4. req \in [Requests -> Places]
    BY DEF Init, Places
  <2>5. config \in [redis : BOOLEAN, batch : BOOLEAN] /\ writing \in BOOLEAN /\ lost \in BOOLEAN
    BY DEF Init
  <2>6. cache \in [quota : Int, full : BOOLEAN, ttl : BOOLEAN, exists : BOOLEAN]
    BY <2>1 DEF Init
  <2>. QED BY <2>2, <2>3, <2>4, <2>5, <2>6 DEF TypeOK, Kinds, Places
<1>2. Ledger /\ OnlyBatchLoses /\ UpdaterIdle
  BY DEF Init, Ledger, OnlyBatchLoses, UpdaterIdle
<1>3. Exposure
  <2>1. Uncharged = {} /\ Charged = {}
    BY DEF Init, Uncharged, Charged
  <2>2. db \in Int /\ db >= 0 /\ cut = 0
    BY DEF Init
  <2>3. Owing({}, {}) = 0
    BY FS_EmptySet DEF Owing, Outstanding
  <2>4. Covered(db, cut, {}, {})
    BY <2>2, <2>3, FloorBelow DEF Covered
  <2>5. {} \in SUBSET Requests /\ {} \cap {} = {} OBVIOUS
  <2>. QED BY <2>1, <2>2, <2>4, <2>5, ExposureMeans DEF Exposure
<1>. QED BY <1>1, <1>2, <1>3 DEF IInv

\* The inductive invariant of the quota's way between the callers, the updater's
\* stores and the row.
THEOREM Invariance == Spec => []IInv
<1>1. IInv /\ [Next]_vars => IInv'
  BY TypeStep, LedgerStep, OnlyBatchLosesStep, UpdaterIdleStep, ExposureStep DEF IInv
<1>. QED BY <1>1, InitInv, PTL DEF Spec

\* batchUpdate, addNewRecord and the direct writes neither lose nor double a change,
\* unless the process dies or its statement fails with deltas in memory; and the Save
\* of inviteUser undoes what reached the row since it was read, no less and no more.
THEOREM LedgerBalances == Spec => []Ledger
<1>1. IInv => Ledger
  BY DEF IInv
<1>. QED BY <1>1, Invariance, PTL

\* Without the batch updater a crash or a failed statement loses nothing; the changes
\* that inviteUser's Save undoes are lost with it as without it.
THEOREM WritesThrough == Spec => []OnlyBatchLoses
<1>1. IInv => OnlyBatchLoses
  BY DEF IInv
<1>. QED BY <1>1, Invariance, PTL

\* tryWallet's check, though it is apart from the decrement, bounds the overdraft by
\* what the requests that run at once can cost, with neither Redis nor the updater and
\* less what the administrator or inviteUser's Save has taken away.
THEOREM BoundedOverdraft == Spec => []OverdraftBound
<1>1. IInv => OverdraftBound
  <2>. SUFFICES ASSUME IInv, Direct PROVE db >= Hold - MaxCost * Cardinality(Requests) - cut
    BY DEF OverdraftBound
  <2>1. /\ Uncharged \in SUBSET Requests /\ Charged \in SUBSET Requests
        /\ Uncharged \cap Charged = {}
    BY DEF Uncharged, Charged
  <2>2. db \in Int /\ cut \in Nat
    BY DEF IInv, TypeOK
  <2>3. Covered(db, cut, Uncharged, Charged) /\ Owing(Uncharged, Charged) \in Int
        /\ Owing(Uncharged, Charged) >= 0
    BY <2>1, <2>2, ExposureMeans DEF IInv, Exposure
  <2>. QED BY <2>2, <2>3, FloorBelow DEF Covered, Floor
<1>. QED BY <1>1, Invariance, PTL
=============================================================================
