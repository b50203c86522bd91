-------------------------------- MODULE TopUp --------------------------------
(***************************************************************************)
(* Top-up orders: the rows of top_ups, the calls that change them (the     *)
(* gateways' webhooks, the administrator's completion, the request that    *)
(* opens an order) on several nodes that share the database, and LockOrder *)
(* / UnlockOrder, which serialise calls about one order on ONE node.       *)
(*                                                                         *)
(* A worker is a goroutine that serves such calls one after the other.     *)
(* Every transaction and every statement outside one is a step, and so is  *)
(* each critical section of the order lock.  The gateways may notify any   *)
(* number of times, late, and any node; the administrator may complete any *)
(* order at any time.  A database statement may fail (MaxFaults) and a     *)
(* node may crash (MaxCrashes), which loses its workers and its locks.     *)
(***************************************************************************)
EXTENDS Integers

CONSTANTS
  Orders,        \* trade numbers
  Nodes,
  Workers,
  NodeOf,        \* the node of each worker
  Mutexes,       \* refCountedMutex objects
  NoMutex, NoWorker, NoOrder,
  Providers,     \* payment providers in use
  MaxFaults, MaxCrashes

AllProviders == {"epay", "stripe", "creem", "waffo", "waffo_pancake"}

ASSUME ProvidersAssumption == Providers \subseteq AllProviders
ASSUME NodeOfAssumption == NodeOf \in [Workers -> Nodes]
ASSUME NoneAssumption == 
  NoMutex \notin Mutexes /\ NoWorker \notin Workers /\ NoOrder \notin Orders
ASSUME LimitsAssumption == MaxFaults \in Nat /\ MaxCrashes \in Nat

VARIABLES
  provider,   \* per order: top_ups.payment_provider
  status,     \* per order: top_ups.status; "none" when the row is not inserted
  gateway,    \* per order: what its gateway knows of it
  pc, job,    \* per worker: where it is, and the call it serves
  entry,      \* orderLocks, per node and order: the mutex stored, or NoMutex
  users,      \* per mutex: the workers its refCount counts
  holder,     \* per mutex: the worker that has locked mu, or NoWorker
  mutex,      \* per worker: its rcm
  faults, crashes,
  \* History, per order: how often the user was credited, the nodes that served a
  \* call about it, and what spoiled it.
  credits, served, spoiled

orderVars == <<provider, gateway>>
lockVars == <<entry, users, holder, mutex>>
history == <<credits, served, spoiled>>
vars == <<provider, status, gateway, pc, job, entry, users, holder, mutex, faults, crashes,
          credits, served, spoiled>>

Statuses == {"none", "pending", "success", "failed", "expired"}
Ended == {"success", "failed", "expired"}
Calls == {"paid", "expired", "asyncFailed", "manual"}
NoJob == [call |-> "none", order |-> NoOrder]

\* Between LockOrder and UnlockOrder.
Inside == {"locked", "save", "credit", "unlock"}
\* With a reference to a mutex.
Using == {"wait", "leave"} \cup Inside
PCs == {"idle", "asking", "enter"} \cup Using

Init ==
  /\ provider \in [Orders -> Providers]
  /\ status = [o \in Orders |-> "none"]
  /\ gateway = [o \in Orders |-> "none"]
  /\ pc = [w \in Workers |-> "idle"]
  /\ job = [w \in Workers |-> NoJob]
  /\ entry = [n \in Nodes |-> [o \in Orders |-> NoMutex]]
  /\ users = [m \in Mutexes |-> {}]
  /\ holder = [m \in Mutexes |-> NoWorker]
  /\ mutex = [w \in Workers |-> NoMutex]
  /\ faults = 0 /\ crashes = 0
  /\ credits = [o \in Orders |-> 0]
  /\ served = [o \in Orders |-> {}]
  /\ spoiled = [o \in Orders |-> {}]

-----------------------------------------------------------------------------

At(w, label) == pc[w] = label
Goto(w, label) == pc' = [pc EXCEPT ![w] = label]
Fault == faults < MaxFaults /\ faults' = faults + 1
Save(o, s) == status' = [status EXCEPT ![o] = s]
Spoil(o, why) == spoiled' = [spoiled EXCEPT ![o] = @ \cup {why}]

\* A Save of the whole row, as it was read before, to status s: unnoticed by the
\* code, it may overwrite what another call has made of the order in between.
StaleSave(o, s, why) ==
  /\ Save(o, s)
  /\ IF status[o] = "pending" THEN UNCHANGED spoiled ELSE Spoil(o, why)

\* IncreaseUserQuota, or the update of users.quota in a transaction.
Credit(o) == credits' = [credits EXCEPT ![o] = @ + 1]

NoCredit == UNCHANGED credits

-----------------------------------------------------------------------------
(***************************************************************************)
(* Opening an order.                                                       *)
(***************************************************************************)

\* RequestEpay and StripeAdaptor.RequestPay: the gateway first, then the row.
RequestPay(w, o) ==
  /\ At(w, "idle") /\ provider[o] \in {"epay", "stripe"}
  /\ status[o] = "none" /\ gateway[o] = "none"
  /\ Save(o, "pending")
  /\ gateway' = [gateway EXCEPT ![o] = "open"]
  /\ UNCHANGED <<provider, pc, job, lockVars, faults, crashes, history>>

\* The insert fails.  Stripe has a session by then, which can only expire: the user is
\* not given its link.  Epay's link is computed without asking the gateway.
RequestPayFails(w, o) ==
  /\ At(w, "idle") /\ provider[o] = "stripe"
  /\ status[o] = "none" /\ gateway[o] = "none"
  /\ Fault
  /\ gateway' = [gateway EXCEPT ![o] = "closed"]
  /\ UNCHANGED <<provider, status, pc, job, lockVars, crashes, history>>

\* CreemAdaptor.RequestPay, RequestWaffoPay and RequestWaffoPancakePay insert the row
\* and then ask the gateway.
InsertOrder(w, o) ==
  /\ At(w, "idle") /\ provider[o] \in {"creem", "waffo", "waffo_pancake"} /\ status[o] = "none"
  /\ Save(o, "pending")
  /\ Goto(w, "asking")
  /\ job' = [job EXCEPT ![w] = [call |-> "request", order |-> o]]
  /\ UNCHANGED <<orderVars, lockVars, faults, crashes, history>>

Finish(w) == Goto(w, "idle") /\ job' = [job EXCEPT ![w] = NoJob]

GatewayOpens(w) ==
  /\ At(w, "asking")
  /\ gateway' = [gateway EXCEPT ![job[w].order] = "open"]
  /\ Finish(w)
  /\ UNCHANGED <<provider, status, lockVars, faults, crashes, history>>

\* The gateway refuses.  Waffo and Waffo Pancake save the row as failed, whatever
\* its status is now; Creem leaves it pending.
GatewayRefuses(w) ==
  LET o == job[w].order
  IN /\ At(w, "asking")
     /\ \/ /\ provider[o] # "creem"
           /\ StaleSave(o, "failed", "request")
           /\ UNCHANGED faults
        \/ /\ provider[o] # "creem"
           /\ Fault
           /\ UNCHANGED <<status, spoiled>>
        \/ /\ provider[o] = "creem"
           /\ UNCHANGED <<status, spoiled, faults>>
     /\ Finish(w)
     /\ UNCHANGED <<orderVars, lockVars, crashes, credits, served>>

\* The user pays, or the gateway gives up waiting.
Pay(o) ==
  /\ gateway[o] = "open"
  /\ gateway' = [gateway EXCEPT ![o] = "paid"]
  /\ UNCHANGED <<provider, status, pc, job, lockVars, faults, crashes, history>>

Close(o) ==
  /\ gateway[o] = "open"
  /\ gateway' = [gateway EXCEPT ![o] = "closed"]
  /\ UNCHANGED <<provider, status, pc, job, lockVars, faults, crashes, history>>

-----------------------------------------------------------------------------
(***************************************************************************)
(* LockOrder and UnlockOrder.                                              *)
(***************************************************************************)

\* A call about order o arrives: a webhook that is verified, or the administrator's.
Deliverable(o, call) ==
  \/ call = "paid" /\ gateway[o] = "paid"
  \/ call \in {"expired", "asyncFailed"} /\ provider[o] = "stripe" /\ gateway[o] = "closed"
  \/ call = "manual" /\ status[o] # "none"

Begin(w, o, call) ==
  /\ At(w, "idle") /\ Deliverable(o, call)
  /\ Goto(w, "enter")
  /\ job' = [job EXCEPT ![w] = [call |-> call, order |-> o]]
  /\ served' = [served EXCEPT ![o] = @ \cup {NodeOf[w]}]
  /\ UNCHANGED <<orderVars, status, lockVars, faults, crashes, credits, spoiled>>

\* An object no one refers to any more is free to be allocated again.
Fresh(m) ==
  /\ \A n \in Nodes, o \in Orders : entry[n][o] # m
  /\ \A w \in Workers : mutex[w] # m

\* LockOrder under createLock: load or store the mutex, and count the reference.
Enter(w) ==
  LET n == NodeOf[w]
      o == job[w].order
  IN /\ At(w, "enter")
     /\ \/ /\ entry[n][o] # NoMutex
           /\ mutex' = [mutex EXCEPT ![w] = entry[n][o]]
           /\ users' = [users EXCEPT ![entry[n][o]] = @ \cup {w}]
           /\ UNCHANGED <<entry, holder>>
        \/ /\ entry[n][o] = NoMutex
           /\ \E m \in Mutexes :
                /\ Fresh(m)
                /\ entry' = [entry EXCEPT ![n][o] = m]
                /\ mutex' = [mutex EXCEPT ![w] = m]
                /\ users' = [users EXCEPT ![m] = {w}]
                /\ holder' = [holder EXCEPT ![m] = NoWorker]
     /\ Goto(w, "wait")
     /\ UNCHANGED <<orderVars, status, job, faults, crashes, history>>

\* rcm.mu.Lock()
Acquire(w) ==
  /\ At(w, "wait") /\ holder[mutex[w]] = NoWorker
  /\ holder' = [holder EXCEPT ![mutex[w]] = w]
  /\ Goto(w, "locked")
  /\ UNCHANGED <<orderVars, status, job, entry, users, mutex, faults, crashes, history>>

\* UnlockOrder unlocks the mutex it finds in the map (LockSafe: there is one), ...
Unlock(w) ==
  LET m == entry[NodeOf[w]][job[w].order]
  IN /\ At(w, "unlock") /\ m # NoMutex
     /\ holder' = [holder EXCEPT ![m] = NoWorker]
     /\ mutex' = [mutex EXCEPT ![w] = m]
     /\ Goto(w, "leave")
     /\ UNCHANGED <<orderVars, status, job, entry, users, faults, crashes, history>>

\* Mutant: the mutex is deleted although others are waiting for it.
LeaveDeletes(w) ==
  /\ At(w, "leave")
  /\ users' = [users EXCEPT ![mutex[w]] = @ \ {w}]
  /\ mutex' = [mutex EXCEPT ![w] = NoMutex]
  /\ entry' = [entry EXCEPT ![NodeOf[w]][job[w].order] = NoMutex]
  /\ Finish(w)
  /\ UNCHANGED <<orderVars, status, holder, faults, crashes, history>>

\* Mutant: nobody deletes the mutex.
LeaveKeeps(w) ==
  /\ At(w, "leave")
  /\ users' = [users EXCEPT ![mutex[w]] = @ \ {w}]
  /\ mutex' = [mutex EXCEPT ![w] = NoMutex]
  /\ Finish(w)
  /\ UNCHANGED <<orderVars, status, entry, holder, faults, crashes, history>>

\* ... and drops its reference under createLock; the last one deletes the mutex.
Leave(w) ==
  /\ At(w, "leave")
  /\ users' = [users EXCEPT ![mutex[w]] = @ \ {w}]
  /\ mutex' = [mutex EXCEPT ![w] = NoMutex]
  /\ IF users[mutex[w]] \ {w} = {}
       THEN entry' = [entry EXCEPT ![NodeOf[w]][job[w].order] = NoMutex]
       ELSE UNCHANGED entry
  /\ Finish(w)
  /\ UNCHANGED <<orderVars, status, holder, faults, crashes, history>>

-----------------------------------------------------------------------------
(***************************************************************************)
(* What a call does inside the lock.                                       *)
(***************************************************************************)

Serves(w, call) == At(w, "locked") /\ job[w].call = call

\* Mutant: any order that has not succeeded is completed.
CompletableUnlessDone(o) == status[o] # "success"

\* The check of the locked row in Recharge, RechargeCreem, RechargeWaffo,
\* RechargeWaffoPancake and ManualCompleteTopUp.
Completable(o) == status[o] = "pending"

\* One transaction on the locked row: the status and the user's quota together.  A
\* row that is not pending is left alone, with or without an error.
Complete(o) ==
  \/ /\ Completable(o)
     /\ Save(o, "success") /\ Credit(o)
     /\ UNCHANGED faults
  \/ ~Completable(o) /\ UNCHANGED <<status, faults>> /\ NoCredit
  \/ Completable(o) /\ Fault /\ UNCHANGED status /\ NoCredit

\* fulfillOrder, handleCheckoutCompleted, handleWaffoPayment and WaffoPancakeWebhook;
\* no subscription order has the trade number of a top-up.
Fulfill(w) ==
  /\ Serves(w, "paid") /\ provider[job[w].order] # "epay"
  /\ Complete(job[w].order)
  /\ Goto(w, "unlock")
  /\ UNCHANGED <<orderVars, job, lockVars, crashes, served, spoiled>>

\* AdminCompleteTopUp
ManualComplete(w) ==
  /\ Serves(w, "manual")
  /\ Complete(job[w].order)
  /\ Goto(w, "unlock")
  /\ UNCHANGED <<orderVars, job, lockVars, crashes, served, spoiled>>

\* Mutant: a notification is served whatever the status is.
EpayReadAny(w) ==
  /\ Serves(w, "paid") /\ provider[job[w].order] = "epay"
  /\ Goto(w, "save")
  /\ UNCHANGED <<orderVars, status, job, lockVars, faults, crashes, history>>

\* EpayNotify: GetTopUpByTradeNo, ...
EpayRead(w) ==
  /\ Serves(w, "paid") /\ provider[job[w].order] = "epay"
  /\ Goto(w, IF status[job[w].order] = "pending" THEN "save" ELSE "unlock")
  /\ UNCHANGED <<orderVars, status, job, lockVars, faults, crashes, history>>

\* ... topUp.Update(), a Save of the whole row, ...
EpaySave(w) ==
  /\ At(w, "save") /\ job[w].call = "paid"
  /\ \/ StaleSave(job[w].order, "success", "stale") /\ Goto(w, "credit") /\ UNCHANGED faults
     \/ Fault /\ Goto(w, "unlock") /\ UNCHANGED <<status, spoiled>>
  /\ UNCHANGED <<orderVars, job, lockVars, crashes, credits, served>>

\* ... and IncreaseUserQuota, a statement of its own.
EpayCredit(w) ==
  /\ At(w, "credit")
  /\ \/ Credit(job[w].order) /\ UNCHANGED <<faults, spoiled>>
     \/ Fault /\ NoCredit /\ Spoil(job[w].order, "credit")
  /\ Goto(w, "unlock")
  /\ UNCHANGED <<orderVars, status, job, lockVars, crashes, served>>

\* sessionExpired: UpdatePendingTopUpStatus, one transaction.
Expire(w) ==
  /\ Serves(w, "expired")
  /\ \/ status[job[w].order] = "pending" /\ Save(job[w].order, "expired") /\ UNCHANGED faults
     \/ status[job[w].order] # "pending" /\ UNCHANGED <<status, faults>>
     \/ status[job[w].order] = "pending" /\ Fault /\ UNCHANGED status
  /\ Goto(w, "unlock")
  /\ UNCHANGED <<orderVars, job, lockVars, crashes, history>>

\* Mutant: the order is marked failed whatever its status is.
AsyncFailedReadAny(w) ==
  /\ Serves(w, "asyncFailed")
  /\ Goto(w, "save")
  /\ UNCHANGED <<orderVars, status, job, lockVars, faults, crashes, history>>

\* sessionAsyncPaymentFailed: read, ...
AsyncFailedRead(w) ==
  /\ Serves(w, "asyncFailed")
  /\ Goto(w, IF status[job[w].order] = "pending" THEN "save" ELSE "unlock")
  /\ UNCHANGED <<orderVars, status, job, lockVars, faults, crashes, history>>

\* ... then Save.
AsyncFailedSave(w) ==
  /\ At(w, "save") /\ job[w].call = "asyncFailed"
  /\ \/ StaleSave(job[w].order, "failed", "stale") /\ UNCHANGED faults
     \/ Fault /\ UNCHANGED <<status, spoiled>>
  /\ Goto(w, "unlock")
  /\ UNCHANGED <<orderVars, job, lockVars, crashes, credits, served>>

\* handleWaffoPayment for any status but PAY_SUCCESS: one transaction, and no lock.
WaffoNotPaid(o) ==
  /\ provider[o] = "waffo" /\ gateway[o] # "none" /\ status[o] = "pending"
  /\ Save(o, "failed")
  /\ UNCHANGED <<orderVars, pc, job, lockVars, faults, crashes, history>>

-----------------------------------------------------------------------------

\* A node dies and starts again: its calls and its order locks are gone.
Crash(n) ==
  LET dead == {w \in Workers : NodeOf[w] = n}
      gone == {m \in Mutexes : \E o \in Orders : entry[n][o] = m}
  IN /\ crashes < MaxCrashes /\ crashes' = crashes + 1
     /\ pc' = [w \in Workers |-> IF w \in dead THEN "idle" ELSE pc[w]]
     /\ job' = [w \in Workers |-> IF w \in dead THEN NoJob ELSE job[w]]
     /\ entry' = [entry EXCEPT ![n] = [o \in Orders |-> NoMutex]]
     /\ mutex' = [w \in Workers |-> IF w \in dead THEN NoMutex ELSE mutex[w]]
     /\ users' = [m \in Mutexes |-> IF m \in gone THEN {} ELSE users[m]]
     /\ holder' = [m \in Mutexes |-> IF m \in gone THEN NoWorker ELSE holder[m]]
     /\ spoiled' = [o \in Orders |->
          IF \E w \in dead : pc[w] = "credit" /\ job[w].order = o
            THEN spoiled[o] \cup {"credit"} ELSE spoiled[o]]
     /\ UNCHANGED <<orderVars, status, faults, credits, served>>

WorkerStep(w) ==
  \/ GatewayOpens(w) \/ GatewayRefuses(w)
  \/ Enter(w) \/ Acquire(w) \/ Unlock(w) \/ Leave(w)
  \/ Fulfill(w) \/ ManualComplete(w)
  \/ EpayRead(w) \/ EpaySave(w) \/ EpayCredit(w)
  \/ Expire(w) \/ AsyncFailedRead(w) \/ AsyncFailedSave(w)

Next ==
  \/ \E w \in Workers : WorkerStep(w)
  \/ \E w \in Workers, o \in Orders :
       \/ RequestPay(w, o) \/ RequestPayFails(w, o) \/ InsertOrder(w, o)
       \/ \E call \in Calls : Begin(w, o, call)
  \/ \E o \in Orders : Pay(o) \/ Close(o) \/ WaffoNotPaid(o)
  \/ \E n \in Nodes : Crash(n)

Spec == Init /\ [][Next]_vars

-----------------------------------------------------------------------------
(* Properties *)

\* Every call about the order ran on the same node.
OneNode(o) == \A m, n \in served[o] : m = n

\* A call saved the order on one node although another node had ended it since the
\* call read it.
Overtaken(o) == "stale" \in spoiled[o] /\ ~OneNode(o)

\* "Order-level mutual exclusion" (AdminCompleteTopUp): two calls about one order on
\* one node are never both between LockOrder and UnlockOrder.
OrderExclusive ==
  \A v, w \in Workers :
    /\ pc[v] \in Inside /\ pc[w] \in Inside
    /\ NodeOf[v] = NodeOf[w] /\ job[v].order = job[w].order
    => v = w

\* Only orders in use have a mutex in orderLocks: UnlockOrder leaks none.
NoLockLeak ==
  \A n \in Nodes, o \in Orders :
    entry[n][o] # NoMutex =>
      \E w \in Workers : NodeOf[w] = n /\ pc[w] \in Using /\ job[w].order = o

\* No order is credited twice, however often, late and concurrently its gateway and
\* the administrator ask for it, whatever fails and whoever crashes, on any number of
\* nodes, with one exception: an Epay order that EpayNotify saves although another
\* node has ended it since EpayNotify read it.
CreditedOnce ==
  \A o \in Orders : (provider[o] = "epay" => ~Overtaken(o)) => credits[o] <= 1

\* No worker is in the middle of something about order o.
AtRest(o) == \A w \in Workers : pc[w] # "idle" => job[w].order # o

\* The user has the quota if and only if the order says so, once no one is at work on
\* the order.  Three things spoil it: the credit of an Epay order failed or died after
\* its save ("credit"); a Waffo request that the gateway refused was marked failed
\* after the order had ended ("request"); and EpayNotify or Stripe's
\* async_payment_failed saved a row that another node had ended since the read
\* (Overtaken).
CreditMatchesStatus ==
  \A o \in Orders :
    /\ AtRest(o)
    /\ spoiled[o] \cap {"credit", "request"} = {} /\ ~Overtaken(o)
    => credits[o] = IF status[o] = "success" THEN 1 ELSE 0

\* An order that has ended keeps its status (webhooks that come late or again, the
\* administrator, expiry, crashes).  Two saves of a whole row change it nevertheless:
\* the failed one of a refused Waffo request, and that of EpayNotify or Stripe's
\* async_payment_failed, which takes two nodes that serve the order.
EndedStays ==
  [][\A o \in Orders :
       status[o] \in Ended /\ status'[o] # status[o] =>
         \/ provider[o] \in {"waffo", "waffo_pancake"} /\ "request" \in spoiled'[o]
         \/ provider[o] \in {"epay", "stripe"} /\ Overtaken(o)']_vars

\* "Row lock, avoids concurrent completion" (ManualCompleteTopUp): no order is ever
\* credited twice.
NoDoubleCredit == \A o \in Orders : credits[o] <= 1

-----------------------------------------------------------------------------
(***************************************************************************)
(* The inductive invariant.                                                *)
(***************************************************************************)

\* The type of every variable, history included.
TypeOK ==
  /\ provider \in [Orders -> Providers]
  /\ status \in [Orders -> Statuses]
  /\ gateway \in [Orders -> {"none", "open", "paid", "closed"}]
  /\ pc \in [Workers -> PCs]
  /\ job \in [Workers -> [call: Calls \cup {"none", "request"}, order: Orders \cup {NoOrder}]]
  /\ entry \in [Nodes -> [Orders -> Mutexes \cup {NoMutex}]]
  /\ users \in [Mutexes -> SUBSET Workers]
  /\ holder \in [Mutexes -> Workers \cup {NoWorker}]
  /\ mutex \in [Workers -> Mutexes \cup {NoMutex}]
  /\ faults \in Nat /\ crashes \in Nat
  /\ credits \in [Orders -> Nat]
  /\ served \in [Orders -> SUBSET Nodes]
  /\ spoiled \in [Orders -> SUBSET {"request", "credit", "stale"}]

\* The order of a worker's call, which its node serves.
Busy(w) ==
  /\ pc[w] # "idle" => job[w].order \in Orders
  /\ pc[w] = "asking" => provider[job[w].order] \in {"creem", "waffo", "waffo_pancake"}
  /\ pc[w] \in {"enter"} \cup Using =>
       NodeOf[w] \in served[job[w].order] /\ job[w].call \in Calls
  /\ pc[w] = "save" => \/ job[w].call = "paid" /\ provider[job[w].order] = "epay"
                       \/ job[w].call = "asyncFailed" /\ provider[job[w].order] = "stripe"
  /\ pc[w] = "credit" => provider[job[w].order] = "epay" /\ status[job[w].order] = "success"
  /\ job[w].call \in {"expired", "asyncFailed"} => provider[job[w].order] = "stripe"

\* A worker that refers to a mutex finds it in the map, is counted by it, and has
\* locked it exactly while it is inside.
LockSafe(w) ==
  /\ pc[w] \in Using <=> mutex[w] # NoMutex
  /\ pc[w] \in Using => /\ entry[NodeOf[w]][job[w].order] = mutex[w]
                        /\ w \in users[mutex[w]]
                        /\ pc[w] \in Inside <=> holder[mutex[w]] = w

\* A mutex is in the map once, counts only workers that refer to it, at least one
\* while it is in the map, and is held only by one of them.
MutexSafe(m) ==
  /\ \A w \in users[m] : pc[w] \in Using /\ mutex[w] = m
  /\ holder[m] # NoWorker => holder[m] \in users[m]
  /\ \A n \in Nodes, o \in Orders : entry[n][o] = m => users[m] # {}
  /\ \A n, k \in Nodes, o, p \in Orders :
       entry[n][o] = m /\ entry[k][p] = m => n = k /\ o = p

\* No credit before the order has succeeded, and only one.
OpenUncredited(o) ==
  /\ status[o] \in {"none", "pending"} => credits[o] = 0
  /\ (provider[o] = "epay" => "stale" \notin spoiled[o]) => credits[o] <= 1

\* Only a second node makes a save stale.
StaleSpoils(o) ==
  "stale" \in spoiled[o] => provider[o] \in {"epay", "stripe"} /\ ~OneNode(o)

\* A call that has read the order pending still finds it so if one node serves the
\* order; one that is about to credit it is the first to, and the only one, unless a
\* save was stale.
Owns(w) ==
  LET o == job[w].order IN
  /\ pc[w] = "save" /\ OneNode(o) => status[o] = "pending"
  /\ pc[w] = "credit" /\ "stale" \notin spoiled[o] =>
       /\ credits[o] = 0
       /\ \A v \in Workers : pc[v] = "credit" /\ job[v].order = o => v = w

Crediting(o) == \E w \in Workers : pc[w] = "credit" /\ job[w].order = o

\* The credits of an order follow from its status and from who is about to credit it.
Ledger(o) ==
  spoiled[o] = {} => credits[o] = IF status[o] = "success" /\ ~Crediting(o) THEN 1 ELSE 0

\* The inductive invariant: calls stay with their order, the order lock excludes and
\* counts right, and the credits of an order follow from its status and from the
\* call that is between saving and crediting it.
IInv ==
  /\ TypeOK
  /\ \A w \in Workers : Busy(w) /\ LockSafe(w) /\ Owns(w)
  /\ \A m \in Mutexes : MutexSafe(m)
  /\ \A o \in Orders : OpenUncredited(o) /\ StaleSpoils(o) /\ Ledger(o)
=============================================================================
