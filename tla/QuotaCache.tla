----------------------------- MODULE QuotaCache -----------------------------
(***************************************************************************)
(* The quota of one user on its way between three places: the row in the   *)
(* database, the deltas that the batch updater of a node has gathered      *)
(* (model/utils.go), and the hash in Redis that every request reads        *)
(* (model/user_cache.go, common/redis.go).  Whether Redis and the batch    *)
(* updater are enabled is fixed when the node starts.                      *)
(*                                                                         *)
(* Each of GetUserQuota's reads, each Redis command or transaction and     *)
(* each statement is an action; the cache is written by goroutines that    *)
(* run at any later time.  The TTL that a goroutine asks for and the       *)
(* command that follows are two actions.  One node is modelled; what other *)
(* nodes do to the row are the actions that write it directly.  A token's  *)
(* quota (model/token.go, model/token_cache.go) goes the same ways.        *)
(***************************************************************************)
EXTENDS Integers, FiniteSets

CONSTANTS
  Requests,    \* request slots: how many requests of the user run at once
  Initial,     \* the quotas that the row may have at first
  Hold,        \* preConsumedQuota of a request
  Costs,       \* what a request may cost in the end
  MaxCost,     \* the most of them
  TrustQuota,  \* above this a request may be trusted: nothing is held
  Amounts,     \* what is added, subtracted or set from outside
  MaxChanges,  \* bound on the requests admitted and the changes from outside
  MaxJobs,     \* bound on the goroutines that wait
  MaxFaults    \* bound on crashes and failed statements

ASSUME QuotaAssumption ==
  /\ IsFiniteSet(Requests) /\ Requests # {}
  /\ Initial \subseteq Nat /\ Costs \subseteq 0 .. MaxCost
  /\ Hold \in Nat \ {0} /\ MaxCost \in Nat /\ Hold <= MaxCost
  /\ TrustQuota \in Nat /\ Amounts \subseteq Nat
  /\ MaxChanges \in Nat /\ MaxJobs \in Nat /\ MaxFaults \in Nat

VARIABLES
  config,      \* RedisEnabled and BatchUpdateEnabled
  db,          \* users.quota
  store,       \* batchUpdateStores[BatchUpdateTypeUserQuota][id], 0 if absent
  taken,       \* stores[...][id] of a batchUpdate that runs
  writing,     \* batchUpdate has taken the stores
  cache,       \* the hash user:<id>: Quota, all fields present, with a TTL
  jobs,        \* the goroutines that will write the hash
  req,         \* where the requests are
  invite,      \* the quotas of the rows that calls of inviteUser have in memory
  owed,        \* history: the initial quota and every change that was accepted
  undone,      \* history: the changes that inviteUser's Save has overwritten
  cut,         \* history: what the administrator, or that Save, has taken away
  lost,        \* history: accepted changes died with the process or its write
  changes, faults

balance == <<db, store, taken, writing>>
inviter == <<invite, undone>>
vars == <<config, balance, cache, jobs, req, inviter, owed, cut, lost, changes, faults>>

NoHash == [quota |-> 0, full |-> FALSE, ttl |-> FALSE, exists |-> FALSE]
Hash(q, full, ttl) == [quota |-> q, full |-> full, ttl |-> ttl, exists |-> TRUE]

NoJob == [kind |-> "none", value |-> 0, checked |-> FALSE]
JobIds == 1 .. MaxJobs

\* gopool.Go: nothing is written when Redis is disabled.
Go(kind, value) ==
  IF ~config.redis THEN UNCHANGED jobs
  ELSE \E j \in JobIds :
         /\ jobs[j] = NoJob /\ \A i \in 1 .. j - 1 : jobs[i] # NoJob
         /\ jobs' = [jobs EXCEPT ![j] = [kind |-> kind, value |-> value, checked |-> FALSE]]

Fault == faults < MaxFaults /\ faults' = faults + 1

-----------------------------------------------------------------------------
(* The requests. *)

\* Mutant: a quota that is not used up admits any request.
DecideIfPositive(r, quota) ==
  \/ /\ quota > 0
     /\ changes < MaxChanges /\ changes' = changes + 1
     /\ \/ req' = [req EXCEPT ![r] = "admitted"]
        \/ quota > TrustQuota /\ req' = [req EXCEPT ![r] = "trusted"]
  \/ req' = [req EXCEPT ![r] = "idle"] /\ UNCHANGED changes

\* tryWallet: the quota must cover the hold; a trusted request will hold nothing.
\* The request is rejected otherwise, or the quota was read only to show it.
Decide(r, quota) ==
  \/ /\ quota > 0 /\ quota - Hold >= 0
     /\ changes < MaxChanges /\ changes' = changes + 1
     /\ \/ req' = [req EXCEPT ![r] = "admitted"]
        \/ quota > TrustQuota /\ req' = [req EXCEPT ![r] = "trusted"]
  \/ req' = [req EXCEPT ![r] = "idle"] /\ UNCHANGED changes

\* GetUserQuota, GetUserCache: the hash, if it is there.
ReadCache(r) ==
  /\ req[r] = "idle"
  /\ IF config.redis /\ cache.exists THEN Decide(r, cache.quota)
     ELSE req' = [req EXCEPT ![r] = "miss"] /\ UNCHANGED changes
  /\ UNCHANGED <<config, inviter, balance, cache, jobs, owed, cut, lost, faults>>

\* The row otherwise, and a goroutine that fills the hash from it.
ReadDB(r) ==
  /\ req[r] = "miss"
  /\ Decide(r, db)
  /\ Go("populate", db)
  /\ UNCHANGED <<config, inviter, balance, cache, owed, cut, lost, faults>>

\* Mutant: the delta is added to the row and to the store.
ChangeTwice(delta) ==
  /\ Go("incr", delta)
  /\ db' = db + delta
  /\ store' = IF config.batch THEN store + delta ELSE store
  /\ owed' = owed + delta
  /\ UNCHANGED <<config, inviter, taken, writing, cache, cut, lost>>

\* IncreaseUserQuota and DecreaseUserQuota with db = false: addNewRecord, or the row.
Change(delta) ==
  /\ Go("incr", delta)
  /\ db' = IF config.batch THEN db ELSE db + delta
  /\ store' = IF config.batch THEN store + delta ELSE store
  /\ owed' = owed + delta
  /\ UNCHANGED <<config, inviter, taken, writing, cache, cut, lost>>

\* The statement fails and so does the call, but the goroutine runs.
ChangeFails(delta) ==
  /\ ~config.batch /\ Fault
  /\ Go("incr", delta)
  /\ UNCHANGED <<config, inviter, balance, cache, owed, cut, lost>>

\* WalletFunding.PreConsume
PreConsume(r) ==
  /\ req[r] = "admitted"
  /\ \/ Change(-Hold) /\ req' = [req EXCEPT ![r] = "held"] /\ UNCHANGED faults
     \/ ChangeFails(-Hold) /\ req' = [req EXCEPT ![r] = "idle"]
  /\ UNCHANGED changes

\* WalletFunding.Settle, and Refund for a cost of 0.
Settle(r, cost) ==
  /\ req[r] \in {"held", "trusted"}
  /\ req' = [req EXCEPT ![r] = "idle"]
  /\ LET delta == (IF req[r] = "held" THEN Hold ELSE 0) - cost
     IN  \/ /\ delta = 0
            /\ UNCHANGED <<config, inviter, balance, cache, jobs, owed, cut, lost, faults>>
         \/ delta # 0 /\ Change(delta) /\ UNCHANGED faults
         \/ delta # 0 /\ ChangeFails(delta)
  /\ UNCHANGED changes

-----------------------------------------------------------------------------
(* Changes from outside. *)

\* The administrator adds or subtracts, a check-in: db = true goes to the row.  The
\* goroutine runs even when the statement fails.
ChangeRow(delta) ==
  /\ changes < MaxChanges /\ changes' = changes + 1
  /\ Go("incr", delta)
  /\ \/ /\ db' = db + delta
        /\ owed' = owed + delta
        /\ cut' = IF delta < 0 THEN cut - delta ELSE cut
        /\ UNCHANGED faults
     \/ Fault /\ UNCHANGED <<db, owed, cut>>
  /\ UNCHANGED <<config, inviter, store, taken, writing, cache, lost, req>>

\* A paid order or a redemption code adds to the row and leaves the hash alone.
Credit(amount) ==
  /\ changes < MaxChanges /\ changes' = changes + 1
  /\ db' = db + amount
  /\ owed' = owed + amount
  /\ UNCHANGED <<config, inviter, store, taken, writing, cache, jobs, cut, lost, req, faults>>

\* The administrator sets the row: deltas that were gathered still come on top.
Override(amount) ==
  /\ changes < MaxChanges /\ changes' = changes + 1
  /\ db' = amount
  /\ owed' = owed + amount - db
  /\ cut' = IF amount < db THEN cut + db - amount ELSE cut
  /\ UNCHANGED <<config, inviter, store, taken, writing, cache, jobs, lost, req, faults>>

\* inviteUser reads the row of the inviter without a lock ...
InviteRead ==
  /\ changes < MaxChanges /\ changes' = changes + 1
  /\ invite' = invite \cup {<<changes + 1, db>>}
  /\ UNCHANGED <<config, balance, cache, jobs, req, owed, undone, cut, lost, faults>>

\* ... and saves all of it, the quota as it was read too, past the store and the hash.
InviteSave(i) ==
  /\ i \in invite
  /\ invite' = invite \ {i}
  /\ \/ /\ db' = i[2]
        /\ undone' = undone + db - i[2]
        /\ cut' = IF i[2] < db THEN cut + db - i[2] ELSE cut
        /\ UNCHANGED faults
     \/ Fault /\ UNCHANGED <<db, undone, cut>>
  /\ UNCHANGED <<config, store, taken, writing, cache, jobs, req, owed, lost, changes>>

\* updateUserCache: a field other than the quota is written to the hash.
EditProfile ==
  /\ changes < MaxChanges /\ changes' = changes + 1
  /\ Go("field", 0)
  /\ UNCHANGED <<config, inviter, balance, cache, owed, cut, lost, req, faults>>

InvalidateUserCache ==
  /\ config.redis /\ cache.exists
  /\ cache' = NoHash
  /\ UNCHANGED <<config, inviter, balance, jobs, req, owed, cut, lost, changes, faults>>

-----------------------------------------------------------------------------
(* batchUpdate. *)

\* Mutant: the store is cleared when its delta has been written.
TakeStoreLate ==
  /\ config.batch /\ ~writing /\ store # 0
  /\ taken' = store /\ writing' = TRUE
  /\ UNCHANGED <<config, inviter, db, store, cache, jobs, req, owed, cut, lost, changes, faults>>

\* Under the lock of the store.
TakeStore ==
  /\ config.batch /\ ~writing /\ store # 0
  /\ taken' = store /\ store' = 0 /\ writing' = TRUE
  /\ UNCHANGED <<config, inviter, db, cache, jobs, req, owed, cut, lost, changes, faults>>

\* updateUserQuotaUsedQuotaAndRequestCount: a statement that fails is logged.
WriteStore ==
  /\ writing
  /\ taken' = 0 /\ writing' = FALSE
  /\ \/ db' = db + taken /\ UNCHANGED <<lost, faults>>
     \/ Fault /\ lost' = TRUE /\ UNCHANGED db
  /\ UNCHANGED <<config, inviter, store, cache, jobs, req, owed, cut, changes>>

-----------------------------------------------------------------------------
(* Redis. *)

\* RedisHIncrBy and RedisHSetField ask for the TTL: no key, nothing to do.
TTL(j) ==
  /\ jobs[j].kind \in {"incr", "field"} /\ ~jobs[j].checked
  /\ jobs' = IF cache.exists /\ cache.ttl THEN [jobs EXCEPT ![j].checked = TRUE]
             ELSE [jobs EXCEPT ![j] = NoJob]
  /\ UNCHANGED <<config, inviter, balance, cache, req, owed, cut, lost, changes, faults>>

\* Mutant: the key's expiry is left as it is.
HIncrByKeepsExpiry(delta) == Hash(cache.quota + delta, cache.full, cache.ttl)

\* HINCRBY and EXPIRE in a transaction: a key that is gone is made anew.
HIncrBy(delta) == Hash(cache.quota + delta, cache.full, TRUE)

\* RedisHSetObj: every field, and the expiry, for RedisKeyCacheSeconds > 0.
HSetObj(value) == Hash(value, TRUE, TRUE)

Exec(j) ==
  /\ jobs[j].kind = "populate" \/ jobs[j].checked
  /\ cache' = IF jobs[j].kind = "populate" THEN HSetObj(jobs[j].value)
              ELSE HIncrBy(jobs[j].value)
  /\ jobs' = [jobs EXCEPT ![j] = NoJob]
  /\ UNCHANGED <<config, inviter, balance, req, owed, cut, lost, changes, faults>>

Expire ==
  /\ cache.exists /\ cache.ttl
  /\ cache' = NoHash
  /\ UNCHANGED <<config, inviter, balance, jobs, req, owed, cut, lost, changes, faults>>

\* The process dies and starts again; calls of inviteUser on other nodes go on.
Crash ==
  /\ Fault
  /\ lost' = (lost \/ store # 0 \/ taken # 0)
  /\ store' = 0 /\ taken' = 0 /\ writing' = FALSE
  /\ jobs' = [j \in JobIds |-> NoJob]
  /\ req' = [r \in Requests |-> "idle"]
  /\ invite' \in SUBSET invite
  /\ UNCHANGED <<config, db, cache, owed, undone, cut, changes>>

-----------------------------------------------------------------------------
Init ==
  /\ config \in [redis : BOOLEAN, batch : BOOLEAN]
  /\ db \in Initial /\ owed = db
  /\ store = 0 /\ taken = 0 /\ writing = FALSE
  /\ cache = NoHash
  /\ jobs = [j \in JobIds |-> NoJob]
  /\ req = [r \in Requests |-> "idle"]
  /\ invite = {} /\ undone = 0 /\ cut = 0 /\ lost = FALSE
  /\ changes = 0 /\ faults = 0

Next ==
  \/ \E r \in Requests :
       \/ ReadCache(r) \/ ReadDB(r) \/ PreConsume(r)
       \/ \E cost \in Costs : Settle(r, cost)
  \/ \E amount \in Amounts :
       ChangeRow(amount) \/ ChangeRow(-amount) \/ Credit(amount) \/ Override(amount)
  \/ InviteRead \/ \E i \in invite : InviteSave(i)
  \/ EditProfile \/ InvalidateUserCache
  \/ TakeStore \/ WriteStore
  \/ \E j \in JobIds : TTL(j) \/ Exec(j)
  \/ Expire
  \/ Crash

Spec == Init /\ [][Next]_vars

\* batchUpdate runs every BatchUpdateInterval, goroutines are scheduled, keys expire.
FairSpec ==
  /\ Spec
  /\ WF_vars(TakeStore) /\ WF_vars(WriteStore)
  /\ \A j \in JobIds : WF_vars(TTL(j) \/ Exec(j))
  /\ WF_vars(Expire)

-----------------------------------------------------------------------------
(* Properties. *)

TypeOK ==
  /\ config \in [redis : BOOLEAN, batch : BOOLEAN]
  /\ db \in Int /\ store \in Int /\ taken \in Int /\ owed \in Int /\ cut \in Nat
  /\ invite \subseteq (1 .. MaxChanges) \X Int /\ undone \in Int
  /\ writing \in BOOLEAN /\ lost \in BOOLEAN
  /\ cache \in [quota : Int, full : BOOLEAN, ttl : BOOLEAN, exists : BOOLEAN]
  /\ jobs \in [JobIds -> [kind : {"none", "incr", "populate", "field"}, value : Int,
                          checked : BOOLEAN]]
  /\ req \in [Requests -> {"idle", "miss", "admitted", "trusted", "held"}]
  /\ changes \in 0 .. MaxChanges /\ faults \in 0 .. MaxFaults

\* Every change that a caller was told had been made is in the row, in the store or
\* in the hands of batchUpdate, exactly once, whatever the requests, the updater and
\* the administrator interleave.  There are two exceptions.  The process died, or the
\* updater's statement failed, with deltas in its memory (lost).  And inviteUser, which
\* reads the inviter's row without a lock and then saves it whole: that puts back the
\* quota it read, so the charges and credits that reached the row in between are undone,
\* exactly those and nothing else.
Ledger == ~lost => db + store + taken + undone = owed

\* Without the batch updater no crash and no failed statement loses anything: what
\* inviteUser undoes is then all that the row is short of.
\* (The updater's maps are the only copies of what they hold.)
OnlyBatchLoses == ~config.batch => (~lost /\ store = 0 /\ taken = 0 /\ ~writing)

\* A batchUpdate that has written its deltas has none left to write again.
UpdaterIdle == ~writing => taken = 0

\* Requests that have passed the check and may still charge all of MaxCost, and
\* those that may charge what their hold leaves of it.
Uncharged == {r \in Requests : req[r] \in {"admitted", "trusted"}}
Charged == {r \in Requests : req[r] = "held"}

\* A quota read from the row is not above the row as it will be once every request
\* that was admitted has charged its most: what the check of the next one relies on.
Direct == ~config.batch /\ ~config.redis
Exposure ==
  Direct => db >= MaxCost * Cardinality(Uncharged) + (MaxCost - Hold) * Cardinality(Charged)
                    + Hold - MaxCost * Cardinality(Requests) - cut

IInv == TypeOK /\ Ledger /\ OnlyBatchLoses /\ UpdaterIdle /\ Exposure

\* Requests that check the same quota side by side overdraw it, but by no more than
\* the requests that run at once can cost, less the one hold that was covered.
\* What the administrator took away, and a credit that inviteUser's Save undid, come
\* off that bound (cut).  It is so with neither Redis nor the batch updater; with either of them a
\* request may see a quota that misses any number of earlier charges.
OverdraftBound ==
  Direct => db >= Hold - MaxCost * Cardinality(Requests) - cut

\* Whatever goroutines write to the hash out of order, on a key that expired between
\* TTL and HINCRBY, or from a row that did not have the updater's deltas yet: once
\* nothing changes any more the row has every change, but for those lost or undone (see
\* Ledger), and the hash, if there is one, is complete and has the row's quota.
CacheHeals ==
  <>[](/\ lost \/ db + undone = owed
       /\ cache.exists => cache.full /\ cache.quota = db)
=============================================================================
