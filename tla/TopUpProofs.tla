----------------------------- MODULE TopUpProofs -----------------------------
(***************************************************************************)
(* The safety of top-up orders for any orders, nodes and workers, and any  *)
(* number of failures and crashes.                                         *)
(***************************************************************************)
EXTENDS TopUp, TLAPS

(***************************************************************************)
(* Order locks exclude: LockSafe and MutexSafe give OrderExclusive.        *)
(***************************************************************************)

\* Two workers of one node inside the lock of one order are the same worker.
LEMMA Exclusive ==
  ASSUME IInv, NEW v \in Workers, NEW w \in Workers,
         pc[v] \in Inside, pc[w] \in Inside,
         NodeOf[v] = NodeOf[w], job[v].order = job[w].order
  PROVE  v = w
<1>1. pc[v] \in Using /\ pc[w] \in Using
  BY DEF Using
<1>2. LockSafe(v) /\ LockSafe(w)
  BY DEF IInv
<1>3. mutex[v] = mutex[w] /\ holder[mutex[v]] = v /\ holder[mutex[w]] = w
  BY <1>1, <1>2 DEF LockSafe
<1>. QED BY <1>3

\* The same for two workers that serve an order of one node.
LEMMA ExclusiveOnOneNode ==
  ASSUME IInv, NEW v \in Workers, NEW w \in Workers,
         pc[v] \in Inside, pc[w] \in Inside,
         job[v].order = job[w].order, OneNode(job[w].order)
  PROVE  v = w
<1>1. Busy(v) /\ Busy(w)
  BY DEF IInv
<1>2. NodeOf[v] \in served[job[v].order] /\ NodeOf[w] \in served[job[w].order]
  BY <1>1 DEF Busy, Using
<1>3. NodeOf[v] = NodeOf[w]
  BY <1>2 DEF OneNode
<1>. QED BY <1>3, Exclusive

(***************************************************************************)
(* Frames: what a step that does not touch the locks, or the money, keeps. *)
(***************************************************************************)

\* A step outside the four lock steps and the crash keeps the lock invariants.
LEMMA LockFrame ==
  ASSUME IInv, UNCHANGED lockVars,
         \A v \in Workers : /\ pc'[v] \in Using <=> pc[v] \in Using
                            /\ pc'[v] \in Inside <=> pc[v] \in Inside
                            /\ pc[v] \in Using => job'[v].order = job[v].order
  PROVE  (\A v \in Workers : LockSafe(v)') /\ (\A m \in Mutexes : MutexSafe(m)')
<1>1. ASSUME NEW v \in Workers PROVE LockSafe(v)'
  <2>1. LockSafe(v) BY DEF IInv
  <2>. QED BY <2>1 DEF LockSafe, lockVars
<1>2. ASSUME NEW m \in Mutexes PROVE MutexSafe(m)'
  <2>1. MutexSafe(m) /\ users[m] \subseteq Workers BY DEF IInv, TypeOK
  <2>. QED BY <2>1 DEF MutexSafe, lockVars
<1>. QED BY <1>1, <1>2

\* A step that writes no status and no credit, and takes no worker to "save" or
\* "credit" or away from "credit", keeps the ledger.
LEMMA MoneyFrame ==
  ASSUME IInv, UNCHANGED <<provider, status, credits, spoiled>>,
         \A o \in Orders : served[o] \subseteq served'[o],
         \A v \in Workers : /\ pc'[v] \in {"save", "credit"} => pc'[v] = pc[v] /\ job'[v] = job[v]
                            /\ pc[v] = "credit" => pc'[v] = "credit" /\ job'[v] = job[v]
  PROVE  (\A v \in Workers : Owns(v)') /\ (\A o \in Orders : OpenUncredited(o)' /\ StaleSpoils(o)' /\ Ledger(o)')
<1>1. \A o \in Orders : OneNode(o)' => OneNode(o)
  BY DEF OneNode
<1>2. \A v \in Workers : pc'[v] \in {"save", "credit"} => job'[v].order \in Orders
  BY DEF IInv, Busy
<1>3. ASSUME NEW v \in Workers PROVE Owns(v)'
  <2>1. Owns(v) BY DEF IInv
  <2>. QED BY <2>1, <1>1, <1>2 DEF Owns
<1>4. ASSUME NEW o \in Orders PROVE OpenUncredited(o)' /\ StaleSpoils(o)' /\ Ledger(o)'
  <2>1. OpenUncredited(o) /\ StaleSpoils(o) /\ Ledger(o) BY DEF IInv
  <2>2. Crediting(o)' <=> Crediting(o) BY DEF Crediting
  <2>. QED BY <2>1, <2>2, <1>1 DEF OpenUncredited, StaleSpoils, Ledger
<1>. QED BY <1>3, <1>4

\* What a worker's step keeps of the calls the other workers serve.
LEMMA BusyFrame ==
  ASSUME IInv, NEW w \in Workers, UNCHANGED provider,
         \A o \in Orders : served[o] \subseteq served'[o],
         \A v \in Workers \ {w} : pc'[v] = pc[v] /\ job'[v] = job[v],
         \A v \in Workers \ {w} : pc[v] = "credit" => status'[job[v].order] = "success"
  PROVE  \A v \in Workers \ {w} : Busy(v)'
<1>. SUFFICES ASSUME NEW v \in Workers \ {w} PROVE Busy(v)'
  OBVIOUS
<1>1. Busy(v) BY DEF IInv
<1>2. pc[v] \in {"enter"} \cup Using => job[v].order \in Orders
  BY <1>1 DEF Busy, Using, Inside
<1>. QED BY <1>1, <1>2 DEF Busy

-----------------------------------------------------------------------------
(***************************************************************************)
(* Opening orders, and the gateways.                                       *)
(***************************************************************************)

\* Every variable of a state of IInv has its type.
LEMMA Types == IInv => TypeOK
BY DEF IInv

\* A mark keeps the type of the marks.
LEMMA SpoilType ==
  ASSUME IInv, NEW o \in Orders, NEW why \in {"request", "credit", "stale"}, Spoil(o, why)
  PROVE  spoiled' \in [Orders -> SUBSET {"request", "credit", "stale"}]
<1>. DEFINE S == SUBSET {"request", "credit", "stale"}
<1>1. spoiled \in [Orders -> S] BY Types DEF TypeOK
<1>2. spoiled[o] \cup {why} \in S BY <1>1
<1>3. spoiled' = [spoiled EXCEPT ![o] = spoiled[o] \cup {why}] BY DEF Spoil
<1>. HIDE DEF S
<1>4. spoiled' \in [Orders -> S] BY <1>1, <1>2, <1>3
<1>. QED BY <1>4 DEF S

\* An order that is inserted was neither owned nor credited.
LEMMA InsertMoney ==
  ASSUME IInv, NEW o \in Orders, status[o] = "none", Save(o, "pending"),
         UNCHANGED <<provider, credits, spoiled, served>>,
         \A v \in Workers : /\ pc'[v] \in {"save", "credit"} <=> pc[v] \in {"save", "credit"}
                            /\ pc[v] \in {"save", "credit"} => pc'[v] = pc[v] /\ job'[v] = job[v]
  PROVE  (\A v \in Workers : Owns(v)') /\ (\A p \in Orders : OpenUncredited(p)' /\ StaleSpoils(p)' /\ Ledger(p)')
<1>1. status'[o] = "pending" /\ \A p \in Orders : p # o => status'[p] = status[p]
  BY Types DEF Save, TypeOK
<1>2. \A p \in Orders : OneNode(p)' <=> OneNode(p)
  BY DEF OneNode
<1>3. \A v \in Workers : pc[v] \in {"save", "credit"} => job[v].order \in Orders
  BY DEF IInv, Busy
<1>4. ASSUME NEW v \in Workers PROVE Owns(v)'
  <2>1. Owns(v) BY DEF IInv
  <2>. QED BY <2>1, <1>1, <1>2, <1>3 DEF Owns
<1>5. ASSUME NEW p \in Orders PROVE OpenUncredited(p)' /\ StaleSpoils(p)' /\ Ledger(p)'
  <2>1. OpenUncredited(p) /\ StaleSpoils(p) /\ Ledger(p) BY DEF IInv
  <2>2. Crediting(p)' <=> Crediting(p) BY DEF Crediting
  <2>. QED BY <2>1, <2>2, <1>1, <1>2 DEF OpenUncredited, StaleSpoils, Ledger
<1>. QED BY <1>4, <1>5

\* RequestPay keeps the invariant.
LEMMA RequestPayStep ==
  ASSUME IInv, NEW w \in Workers, NEW o \in Orders, RequestPay(w, o)
  PROVE  IInv'
<1>1. TypeOK' BY Types DEF RequestPay, Save, TypeOK, lockVars, history, Statuses
<1>2. \A v \in Workers : Busy(v)'
  <2>. SUFFICES ASSUME NEW v \in Workers PROVE Busy(v)'
    OBVIOUS
  <2>1. Busy(v) BY DEF IInv
  <2>2. pc[v] = "credit" => status'[job[v].order] = status[job[v].order]
    BY <2>1, Types DEF RequestPay, Save, Busy, TypeOK
  <2>. QED BY <2>1, <2>2 DEF RequestPay, Busy, history
<1>3. (\A v \in Workers : LockSafe(v)') /\ (\A m \in Mutexes : MutexSafe(m)')
  BY LockFrame DEF RequestPay
<1>4. (\A v \in Workers : Owns(v)') /\ (\A p \in Orders : OpenUncredited(p)' /\ StaleSpoils(p)' /\ Ledger(p)')
  BY InsertMoney DEF RequestPay, history
<1>. QED BY <1>1, <1>2, <1>3, <1>4 DEF IInv

\* An insert that fails keeps the invariant.
LEMMA RequestPayFailsStep ==
  ASSUME IInv, NEW w \in Workers, NEW o \in Orders, RequestPayFails(w, o)
  PROVE  IInv'
<1>0. /\ UNCHANGED <<provider, status, pc, job, crashes>>
      /\ UNCHANGED lockVars /\ UNCHANGED history
  BY DEF RequestPayFails
<1>1. TypeOK'
  <2>1. gateway' \in [Orders -> {"none", "open", "paid", "closed"}] /\ faults' \in Nat
    BY Types DEF RequestPayFails, Fault, TypeOK
  <2>. QED BY <1>0, <2>1, Types DEF TypeOK, lockVars, history
<1>2. \A v \in Workers : Busy(v)'
  BY <1>0 DEF IInv, Busy, history
<1>3. (\A v \in Workers : LockSafe(v)') /\ (\A m \in Mutexes : MutexSafe(m)')
  BY <1>0, LockFrame
<1>4. (\A v \in Workers : Owns(v)') /\ (\A p \in Orders : OpenUncredited(p)' /\ StaleSpoils(p)' /\ Ledger(p)')
  BY <1>0, MoneyFrame DEF history
<1>. QED BY <1>1, <1>2, <1>3, <1>4 DEF IInv

\* InsertOrder keeps the invariant.
LEMMA InsertOrderStep ==
  ASSUME IInv, NEW w \in Workers, NEW o \in Orders, InsertOrder(w, o)
  PROVE  IInv'
<1>0. /\ pc[w] = "idle" /\ pc'[w] = "asking" /\ job'[w] = [call |-> "request", order |-> o]
      /\ \A v \in Workers \ {w} : pc'[v] = pc[v] /\ job'[v] = job[v]
  BY Types DEF InsertOrder, At, Goto, TypeOK
<1>1. TypeOK'
  BY Types DEF InsertOrder, Save, Goto, TypeOK, lockVars, history, orderVars, Statuses, PCs
<1>2. \A v \in Workers : Busy(v)'
  <2>1. \A v \in Workers \ {w} : pc[v] = "credit" => status'[job[v].order] = "success"
    BY Types DEF InsertOrder, Save, IInv, Busy, TypeOK
  <2>2. \A v \in Workers \ {w} : Busy(v)'
    BY <1>0, <2>1, BusyFrame DEF InsertOrder, orderVars, history
  <2>3. Busy(w)'
    BY <1>0 DEF InsertOrder, orderVars, Busy, Using, Inside
  <2>. QED BY <2>2, <2>3
<1>3. (\A v \in Workers : LockSafe(v)') /\ (\A m \in Mutexes : MutexSafe(m)')
  BY <1>0, LockFrame DEF InsertOrder, Using, Inside
<1>4. (\A v \in Workers : Owns(v)') /\ (\A p \in Orders : OpenUncredited(p)' /\ StaleSpoils(p)' /\ Ledger(p)')
  <2>1. \A v \in Workers : /\ pc'[v] \in {"save", "credit"} <=> pc[v] \in {"save", "credit"}
                           /\ pc[v] \in {"save", "credit"} => pc'[v] = pc[v] /\ job'[v] = job[v]
    BY <1>0
  <2>. QED BY <2>1, InsertMoney DEF InsertOrder, orderVars, history
<1>. QED BY <1>1, <1>2, <1>3, <1>4 DEF IInv

\* An order that ends uncompleted: nobody owns it, and it was pending or is exempt.
LEMMA FailMoney ==
  ASSUME IInv, NEW o \in Orders, NEW s \in {"failed", "expired"}, Save(o, s),
         provider[o] # "epay", UNCHANGED <<provider, credits, served>>,
         \A p \in Orders : spoiled[p] \subseteq spoiled'[p],
         \A p \in Orders : "stale" \in spoiled'[p] =>
            "stale" \in spoiled[p] \/ (p = o /\ provider[o] = "stripe" /\ ~OneNode(o)),
         status[o] = "pending" \/ spoiled'[o] # {},
         \A v \in Workers : /\ pc'[v] \in {"save", "credit"} => pc'[v] = pc[v] /\ job'[v] = job[v]
                            /\ pc[v] = "credit" => pc'[v] = "credit" /\ job'[v] = job[v],
         \A v \in Workers : pc'[v] = "save" /\ job'[v].order = o => ~OneNode(o)
  PROVE  (\A v \in Workers : Owns(v)') /\ (\A p \in Orders : OpenUncredited(p)' /\ StaleSpoils(p)' /\ Ledger(p)')
<1>1. status'[o] = s /\ \A p \in Orders : p # o => status'[p] = status[p]
  BY Types DEF Save, TypeOK
<1>2. \A p \in Orders : OneNode(p)' <=> OneNode(p)
  BY DEF OneNode
<1>3. \A v \in Workers : pc[v] \in {"save", "credit"} => job[v].order \in Orders
  BY DEF IInv, Busy
<1>4. \A v \in Workers : pc[v] = "credit" => job[v].order # o
  BY DEF IInv, Busy
<1>5. ASSUME NEW v \in Workers PROVE Owns(v)'
  <2>1. Owns(v) BY DEF IInv
  <2>. QED BY <2>1, <1>1, <1>2, <1>3, <1>4 DEF Owns
<1>6. ASSUME NEW p \in Orders PROVE OpenUncredited(p)' /\ StaleSpoils(p)' /\ Ledger(p)'
  <2>1. OpenUncredited(p) /\ StaleSpoils(p) /\ Ledger(p) BY DEF IInv
  <2>2. Crediting(p)' <=> Crediting(p) BY DEF Crediting
  <2>3. OpenUncredited(p)' BY <2>1, <1>1, <1>2 DEF OpenUncredited
  <2>6. StaleSpoils(p)' BY <2>1, <1>2 DEF StaleSpoils
  <2>4. CASE p # o
    BY <2>1, <2>2, <2>3, <2>4, <2>6, <1>1, <1>2 DEF Ledger
  <2>5. CASE p = o
    <3>1. status[o] = "pending" => credits[o] = 0 BY <2>1, <2>5 DEF OpenUncredited
    <3>. QED BY <3>1, <2>3, <2>5, <2>6, <1>1, <1>2 DEF Ledger
  <2>. QED BY <2>3, <2>4, <2>5
<1>. QED BY <1>5, <1>6

\* GatewayOpens keeps the invariant.
LEMMA GatewayOpensStep ==
  ASSUME IInv, NEW w \in Workers, GatewayOpens(w)
  PROVE  IInv'
<1>0. /\ pc[w] = "asking" /\ pc'[w] = "idle" /\ job'[w] = NoJob
      /\ \A v \in Workers \ {w} : pc'[v] = pc[v] /\ job'[v] = job[v]
  BY Types DEF GatewayOpens, Finish, At, Goto, TypeOK
<1>1. TypeOK'
  BY Types DEF GatewayOpens, Finish, NoJob, Goto, TypeOK, lockVars, history, PCs
<1>2. \A v \in Workers : Busy(v)'
  <2>1. \A v \in Workers \ {w} : pc[v] = "credit" => status'[job[v].order] = "success"
    BY DEF GatewayOpens, IInv, Busy
  <2>2. \A v \in Workers \ {w} : Busy(v)'
    BY <1>0, <2>1, BusyFrame DEF GatewayOpens, history
  <2>3. Busy(w)' BY <1>0 DEF Busy, NoJob, Using, Inside
  <2>. QED BY <2>2, <2>3
<1>3. (\A v \in Workers : LockSafe(v)') /\ (\A m \in Mutexes : MutexSafe(m)')
  BY <1>0, LockFrame DEF GatewayOpens, Using, Inside
<1>4. (\A v \in Workers : Owns(v)') /\ (\A p \in Orders : OpenUncredited(p)' /\ StaleSpoils(p)' /\ Ledger(p)')
  BY <1>0, MoneyFrame DEF GatewayOpens, history
<1>. QED BY <1>1, <1>2, <1>3, <1>4 DEF IInv

\* GatewayRefuses keeps the invariant: the orders of a request are not Epay's.
LEMMA GatewayRefusesStep ==
  ASSUME IInv, NEW w \in Workers, GatewayRefuses(w)
  PROVE  IInv'
<1>. DEFINE o == job[w].order
<1>0. /\ pc[w] = "asking" /\ pc'[w] = "idle" /\ job'[w] = NoJob
      /\ \A v \in Workers \ {w} : pc'[v] = pc[v] /\ job'[v] = job[v]
  BY Types DEF GatewayRefuses, Finish, At, Goto, TypeOK
<1>a. o \in Orders /\ provider[o] \in {"creem", "waffo", "waffo_pancake"}
  BY <1>0 DEF IInv, Busy
<1>b. /\ UNCHANGED <<provider, gateway, credits, served, crashes>>
      /\ UNCHANGED lockVars
  BY DEF GatewayRefuses, orderVars
<1>c. \/ /\ Save(o, "failed")
         /\ spoiled' = IF status[o] = "pending" THEN spoiled
                       ELSE [spoiled EXCEPT ![o] = @ \cup {"request"}]
         /\ UNCHANGED faults
      \/ UNCHANGED <<status, spoiled>> /\ (UNCHANGED faults \/ Fault)
  BY DEF GatewayRefuses, StaleSave, Spoil
<1>1. TypeOK'
  <2>1. status' \in [Orders -> Statuses]
    BY <1>c, Types DEF Save, TypeOK, Statuses
  <2>2. spoiled' \in [Orders -> SUBSET {"request", "credit", "stale"}]
    <3>1. CASE UNCHANGED spoiled BY <3>1, Types DEF TypeOK
    <3>2. CASE Spoil(o, "request") BY <3>2, <1>a, SpoilType
    <3>. QED BY <1>c, <3>1, <3>2 DEF Spoil
  <2>3. faults' \in Nat
    BY <1>c, Types DEF TypeOK, Fault
  <2>4. /\ pc' \in [Workers -> PCs]
        /\ job' \in [Workers -> [call: Calls \cup {"none", "request"}, order: Orders \cup {NoOrder}]]
    BY Types DEF GatewayRefuses, Finish, NoJob, Goto, TypeOK, PCs
  <2>. QED BY <1>b, <2>1, <2>2, <2>3, <2>4, Types DEF TypeOK, lockVars
<1>2. \A v \in Workers : Busy(v)'
  <2>1. \A v \in Workers \ {w} : pc[v] = "credit" => status'[job[v].order] = "success"
    BY <1>a, <1>c, Types DEF Save, IInv, Busy, TypeOK
  <2>2. \A v \in Workers \ {w} : Busy(v)'
    BY <1>0, <1>b, <2>1, BusyFrame
  <2>3. Busy(w)' BY <1>0 DEF Busy, NoJob, Using, Inside
  <2>. QED BY <2>2, <2>3
<1>3. (\A v \in Workers : LockSafe(v)') /\ (\A m \in Mutexes : MutexSafe(m)')
  BY <1>0, <1>b, LockFrame DEF Using, Inside
<1>4. (\A v \in Workers : Owns(v)') /\ (\A p \in Orders : OpenUncredited(p)' /\ StaleSpoils(p)' /\ Ledger(p)')
  <2>1. \A v \in Workers : /\ pc'[v] \in {"save", "credit"} => pc'[v] = pc[v] /\ job'[v] = job[v]
                           /\ pc[v] = "credit" => pc'[v] = "credit" /\ job'[v] = job[v]
    BY <1>0
  <2>2. \A v \in Workers : pc'[v] = "save" => job'[v].order # o
    BY <2>1, <1>a DEF IInv, Busy
  <2>3. CASE UNCHANGED <<status, spoiled>>
    BY <2>1, <2>3, <1>b, MoneyFrame
  <2>4. CASE /\ Save(o, "failed")
             /\ spoiled' = IF status[o] = "pending" THEN spoiled
                           ELSE [spoiled EXCEPT ![o] = @ \cup {"request"}]
    <3>1. /\ \A p \in Orders : spoiled[p] \subseteq spoiled'[p]
          /\ \A p \in Orders : "stale" \in spoiled'[p] => "stale" \in spoiled[p]
          /\ status[o] = "pending" \/ spoiled'[o] # {}
      BY <2>4, <1>a, Types DEF TypeOK
    <3>. QED BY <2>1, <2>2, <2>4, <3>1, <1>a, <1>b, FailMoney
  <2>. QED BY <2>3, <2>4, <1>c
<1>. QED BY <1>1, <1>2, <1>3, <1>4 DEF IInv

\* The gateway's own steps, and a Waffo notification of a payment not made.
LEMMA GatewayStep ==
  ASSUME IInv, NEW o \in Orders, Pay(o) \/ Close(o) \/ WaffoNotPaid(o)
  PROVE  IInv'
<1>0. /\ UNCHANGED <<provider, pc, job, faults, crashes>>
      /\ UNCHANGED lockVars /\ UNCHANGED history
      /\ \/ UNCHANGED status
         \/ provider[o] = "waffo" /\ status[o] = "pending" /\ Save(o, "failed")
  BY DEF Pay, Close, WaffoNotPaid, orderVars
<1>1. TypeOK'
  <2>1. gateway' \in [Orders -> {"none", "open", "paid", "closed"}]
    BY Types DEF Pay, Close, WaffoNotPaid, orderVars, TypeOK
  <2>2. status' \in [Orders -> Statuses]
    BY <1>0, Types DEF Save, TypeOK, Statuses
  <2>. QED BY <1>0, <2>1, <2>2, Types DEF TypeOK, lockVars, history
<1>2. \A v \in Workers : Busy(v)'
  <2>. SUFFICES ASSUME NEW v \in Workers PROVE Busy(v)'
    OBVIOUS
  <2>1. Busy(v) BY DEF IInv
  <2>2. pc[v] = "credit" => status'[job[v].order] = status[job[v].order]
    BY <1>0, <2>1, Types DEF Save, Busy, TypeOK
  <2>. QED BY <1>0, <2>1, <2>2 DEF Busy, history
<1>3. (\A v \in Workers : LockSafe(v)') /\ (\A m \in Mutexes : MutexSafe(m)')
  BY <1>0, LockFrame
<1>4. (\A v \in Workers : Owns(v)') /\ (\A p \in Orders : OpenUncredited(p)' /\ StaleSpoils(p)' /\ Ledger(p)')
  <2>1. CASE UNCHANGED status
    BY <1>0, <2>1, MoneyFrame DEF history
  <2>2. CASE provider[o] = "waffo" /\ status[o] = "pending" /\ Save(o, "failed")
    <3>1. \A v \in Workers : pc'[v] = "save" => job'[v].order # o
      BY <1>0, <2>2 DEF IInv, Busy
    <3>. QED BY <1>0, <2>2, <3>1, FailMoney DEF history
  <2>. QED BY <1>0, <2>1, <2>2
<1>. QED BY <1>1, <1>2, <1>3, <1>4 DEF IInv

\* A call that arrives keeps the invariant.
LEMMA BeginStep ==
  ASSUME IInv, NEW w \in Workers, NEW o \in Orders, NEW call \in Calls, Begin(w, o, call)
  PROVE  IInv'
<1>0. /\ pc[w] = "idle" /\ pc'[w] = "enter" /\ job'[w] = [call |-> call, order |-> o]
      /\ \A v \in Workers \ {w} : pc'[v] = pc[v] /\ job'[v] = job[v]
      /\ \A p \in Orders : served[p] \subseteq served'[p]
      /\ NodeOf[w] \in served'[o]
  BY Types DEF Begin, At, Goto, TypeOK
<1>1. TypeOK'
  BY Types, NodeOfAssumption DEF Begin, Goto, TypeOK, lockVars, orderVars, PCs
<1>2. \A v \in Workers : Busy(v)'
  <2>1. \A v \in Workers \ {w} : pc[v] = "credit" => status'[job[v].order] = "success"
    BY DEF Begin, IInv, Busy
  <2>2. \A v \in Workers \ {w} : Busy(v)'
    BY <1>0, <2>1, BusyFrame DEF Begin, orderVars
  <2>3. call \in {"expired", "asyncFailed"} => provider[o] = "stripe"
    BY DEF Begin, Deliverable
  <2>4. Busy(w)' BY <1>0, <2>3 DEF Begin, orderVars, Busy, Using, Inside, Calls
  <2>. QED BY <2>2, <2>4
<1>3. (\A v \in Workers : LockSafe(v)') /\ (\A m \in Mutexes : MutexSafe(m)')
  BY <1>0, LockFrame DEF Begin, Using, Inside
<1>4. (\A v \in Workers : Owns(v)') /\ (\A p \in Orders : OpenUncredited(p)' /\ StaleSpoils(p)' /\ Ledger(p)')
  BY <1>0, MoneyFrame DEF Begin, orderVars
<1>. QED BY <1>1, <1>2, <1>3, <1>4 DEF IInv

-----------------------------------------------------------------------------
(***************************************************************************)
(* LockOrder and UnlockOrder.                                              *)
(***************************************************************************)

\* A lock step of worker w writes no row: what is left to prove of it is the locks.
LEMMA LockStep ==
  ASSUME IInv, NEW w \in Workers, UNCHANGED <<provider, status, gateway, faults, crashes>>,
         UNCHANGED history, TypeOK',
         \A v \in Workers \ {w} : pc'[v] = pc[v] /\ job'[v] = job[v],
         \/ pc[w] \in {"enter", "wait", "unlock"} /\ pc'[w] \in {"wait", "locked", "leave"}
              /\ job'[w] = job[w]
         \/ pc[w] = "leave" /\ pc'[w] = "idle" /\ job'[w] = NoJob,
         \A v \in Workers : LockSafe(v)', \A m \in Mutexes : MutexSafe(m)'
  PROVE  IInv'
<1>1. \A v \in Workers : Busy(v)'
  <2>1. \A v \in Workers \ {w} : pc[v] = "credit" => status'[job[v].order] = "success"
    BY DEF IInv, Busy
  <2>2. \A v \in Workers \ {w} : Busy(v)'
    BY <2>1, BusyFrame DEF history
  <2>3. Busy(w) BY DEF IInv
  <2>4. CASE pc[w] = "leave" /\ pc'[w] = "idle" /\ job'[w] = NoJob
    BY <2>2, <2>4 DEF Busy, NoJob, Using, Inside
  <2>5. CASE pc[w] \in {"enter", "wait", "unlock"} /\ pc'[w] \in {"wait", "locked", "leave"}
               /\ job'[w] = job[w]
    <3>1. Busy(w)'
      BY <2>3, <2>5 DEF Busy, Using, Inside, history
    <3>. QED BY <2>2, <3>1
  <2>. QED BY <2>4, <2>5
<1>2. (\A v \in Workers : Owns(v)') /\ (\A p \in Orders : OpenUncredited(p)' /\ StaleSpoils(p)' /\ Ledger(p)')
  BY MoneyFrame DEF history
<1>. QED BY <1>1, <1>2 DEF IInv

\* Acquire keeps the invariant: a mutex without holder has nobody inside.
LEMMA AcquireStep ==
  ASSUME IInv, NEW w \in Workers, Acquire(w)
  PROVE  IInv'
<1>. DEFINE m == mutex[w]
<1>0. /\ pc[w] = "wait" /\ pc'[w] = "locked" /\ UNCHANGED job
      /\ \A v \in Workers \ {w} : pc'[v] = pc[v]
  BY Types DEF Acquire, At, Goto, TypeOK
<1>1. TypeOK'
  BY Types DEF Acquire, Goto, TypeOK, orderVars, history, PCs, Using, Inside
<1>2. LockSafe(w) /\ m \in Mutexes /\ m # NoMutex
  BY <1>0, Types, NoneAssumption DEF IInv, LockSafe, Using, TypeOK
<1>3. /\ holder[m] = NoWorker /\ holder'[m] = w
      /\ \A k \in Mutexes : k # m => holder'[k] = holder[k]
      /\ UNCHANGED <<entry, users, mutex>>
  BY <1>2, Types DEF Acquire, TypeOK
<1>4. ASSUME NEW v \in Workers PROVE LockSafe(v)'
  <2>1. LockSafe(v) /\ (pc[v] \in Using => mutex[v] \in Mutexes)
    BY Types DEF IInv, LockSafe, TypeOK
  <2>2. CASE v = w
    BY <2>2, <1>0, <1>2, <1>3 DEF LockSafe, Using, Inside
  <2>3. CASE v # w
    BY <2>1, <2>3, <1>0, <1>3, NoneAssumption DEF LockSafe
  <2>. QED BY <2>2, <2>3
<1>5. ASSUME NEW k \in Mutexes PROVE MutexSafe(k)'
  <2>1. MutexSafe(k) /\ users[k] \subseteq Workers
    BY Types DEF IInv, TypeOK
  <2>2. \A v \in Workers : pc[v] \in Using => pc'[v] \in Using
    BY <1>0 DEF Using, Inside
  <2>3. w \in users[m]
    BY <1>0, <1>2 DEF LockSafe, Using
  <2>. QED BY <2>1, <2>2, <2>3, <1>3 DEF MutexSafe
<1>. QED BY <1>0, <1>1, <1>4, <1>5, LockStep DEF Acquire, orderVars

\* Unlock keeps the invariant: the mutex in the map is the one this worker locked.
LEMMA UnlockStep ==
  ASSUME IInv, NEW w \in Workers, Unlock(w)
  PROVE  IInv'
<1>. DEFINE m == mutex[w]
<1>0. /\ pc[w] = "unlock" /\ pc'[w] = "leave" /\ UNCHANGED job
      /\ \A v \in Workers \ {w} : pc'[v] = pc[v]
  BY Types DEF Unlock, At, Goto, TypeOK
<1>2. LockSafe(w) /\ m \in Mutexes /\ entry[NodeOf[w]][job[w].order] = m /\ holder[m] = w
  BY <1>0, Types DEF IInv, LockSafe, Using, Inside, TypeOK
<1>3. /\ holder'[m] = NoWorker
      /\ \A k \in Mutexes : k # m => holder'[k] = holder[k]
      /\ \A v \in Workers : mutex'[v] = mutex[v]
      /\ UNCHANGED <<entry, users>>
  BY <1>2, Types DEF Unlock, TypeOK
<1>1. TypeOK'
  <2>1. /\ holder' \in [Mutexes -> Workers \cup {NoWorker}]
        /\ mutex' \in [Workers -> Mutexes \cup {NoMutex}]
        /\ pc' \in [Workers -> PCs]
    BY <1>2, Types DEF Unlock, Goto, TypeOK, PCs, Using
  <2>. QED BY <2>1, Types DEF Unlock, TypeOK, orderVars, history
<1>4. ASSUME NEW v \in Workers PROVE LockSafe(v)'
  <2>1. LockSafe(v) /\ (pc[v] \in Using => mutex[v] \in Mutexes)
    BY Types DEF IInv, LockSafe, TypeOK
  <2>2. CASE v = w
    BY <2>2, <1>0, <1>2, <1>3, NoneAssumption DEF LockSafe, Using, Inside
  <2>3. CASE v # w
    BY <2>1, <2>3, <1>0, <1>2, <1>3, NoneAssumption DEF LockSafe
  <2>. QED BY <2>2, <2>3
<1>5. ASSUME NEW k \in Mutexes PROVE MutexSafe(k)'
  <2>1. MutexSafe(k) /\ users[k] \subseteq Workers
    BY Types DEF IInv, TypeOK
  <2>2. \A v \in Workers : pc[v] \in Using => pc'[v] \in Using
    BY <1>0 DEF Using
  <2>. QED BY <2>1, <2>2, <1>3 DEF MutexSafe
<1>. QED BY <1>0, <1>1, <1>4, <1>5, LockStep DEF Unlock, orderVars

\* Leave keeps the invariant: a mutex that others refer to stays in the map.
LEMMA LeaveStep ==
  ASSUME IInv, NEW w \in Workers, Leave(w)
  PROVE  IInv'
<1>. DEFINE m == mutex[w]
            n == NodeOf[w]
            o == job[w].order
<1>0. /\ pc[w] = "leave" /\ pc'[w] = "idle" /\ job'[w] = NoJob
      /\ \A v \in Workers \ {w} : pc'[v] = pc[v] /\ job'[v] = job[v]
  BY Types DEF Leave, Finish, At, Goto, TypeOK
<1>2. /\ m \in Mutexes /\ m # NoMutex /\ entry[n][o] = m /\ w \in users[m] /\ holder[m] # w
      /\ n \in Nodes /\ o \in Orders
  <2>1. LockSafe(w) /\ Busy(w) BY DEF IInv
  <2>2. pc[w] \in Using /\ pc[w] \notin Inside BY <1>0 DEF Using, Inside
  <2>3. m # NoMutex /\ entry[n][o] = m /\ w \in users[m] /\ holder[m] # w
    BY <2>1, <2>2 DEF LockSafe
  <2>4. m \in Mutexes BY <2>3, Types DEF TypeOK
  <2>5. n \in Nodes /\ o \in Orders BY <2>1, <1>0, NodeOfAssumption DEF Busy
  <2>. QED BY <2>3, <2>4, <2>5
<1>3. /\ users'[m] = users[m] \ {w}
      /\ \A k \in Mutexes : k # m => users'[k] = users[k]
      /\ mutex'[w] = NoMutex
      /\ \A v \in Workers : v # w => mutex'[v] = mutex[v]
      /\ UNCHANGED holder
  BY <1>2, Types DEF Leave, TypeOK
<1>4. /\ \A k \in Nodes, p \in Orders : k # n \/ p # o => entry'[k][p] = entry[k][p]
      /\ IF users'[m] = {} THEN entry'[n][o] = NoMutex ELSE entry'[n][o] = m
  BY <1>2, <1>3, Types DEF Leave, TypeOK
<1>1. TypeOK'
  <2>1. /\ users' \in [Mutexes -> SUBSET Workers]
        /\ mutex' \in [Workers -> Mutexes \cup {NoMutex}]
        /\ pc' \in [Workers -> PCs]
        /\ job' \in [Workers -> [call: Calls \cup {"none", "request"}, order: Orders \cup {NoOrder}]]
    BY <1>2, Types DEF Leave, Finish, NoJob, Goto, TypeOK, PCs
  <2>2. entry' \in [Nodes -> [Orders -> Mutexes \cup {NoMutex}]]
    <3>1. CASE UNCHANGED entry
      BY <3>1, Types DEF TypeOK
    <3>2. CASE entry' = [entry EXCEPT ![n][o] = NoMutex]
      BY <3>2, <1>2, Types DEF TypeOK
    <3>. QED BY <3>1, <3>2 DEF Leave
  <2>. QED BY <2>1, <2>2, Types DEF Leave, TypeOK, orderVars, history
<1>5. ASSUME NEW v \in Workers PROVE LockSafe(v)'
  <2>1. /\ LockSafe(v) /\ (pc[v] \in Using => mutex[v] \in Mutexes)
        /\ NodeOf[v] \in Nodes /\ (pc[v] \in Using => job[v].order \in Orders)
    BY Types, NodeOfAssumption DEF IInv, LockSafe, Busy, TypeOK, Using, Inside
  <2>2. CASE v = w
    BY <2>2, <1>0, <1>3 DEF LockSafe, Using, Inside
  <2>3. CASE v # w /\ pc[v] \notin Using
    BY <2>1, <2>3, <1>0, <1>3 DEF LockSafe
  <2>4. CASE v # w /\ pc[v] \in Using
    <3>1. /\ mutex'[v] = mutex[v] /\ pc'[v] = pc[v] /\ job'[v] = job[v]
          /\ mutex[v] # NoMutex /\ entry[NodeOf[v]][job[v].order] = mutex[v]
          /\ v \in users[mutex[v]] /\ (pc[v] \in Inside <=> holder[mutex[v]] = v)
      BY <2>1, <2>4, <1>0, <1>3 DEF LockSafe
    <3>2. v \in users'[mutex[v]]
      BY <2>1, <2>4, <3>1, <1>3
    <3>3. entry'[NodeOf[v]][job[v].order] = mutex[v]
      BY <2>1, <2>4, <3>1, <3>2, <1>2, <1>4
    <3>. QED BY <2>4, <3>1, <3>2, <3>3, <1>3 DEF LockSafe
  <2>. QED BY <2>2, <2>3, <2>4
<1>6. ASSUME NEW k \in Mutexes PROVE MutexSafe(k)'
  <2>1. MutexSafe(k) /\ users[k] \subseteq Workers
    BY Types DEF IInv, TypeOK
  <2>2. \A v \in users'[k] : pc'[v] \in Using /\ mutex'[v] = k
    <3>. SUFFICES ASSUME NEW v \in users'[k] PROVE pc'[v] \in Using /\ mutex'[v] = k
      OBVIOUS
    <3>1. v \in users[k] /\ v \in Workers BY <1>3, <2>1
    <3>2. pc[v] \in Using /\ mutex[v] = k BY <2>1, <3>1 DEF MutexSafe
    <3>3. v # w BY <3>2, <1>3
    <3>. QED BY <3>1, <3>2, <3>3, <1>0, <1>3
  <2>3. holder'[k] # NoWorker => holder'[k] \in users'[k]
    BY <2>1, <1>2, <1>3 DEF MutexSafe
  <2>4. \A i \in Nodes, p \in Orders : entry'[i][p] = k => entry[i][p] = k
    BY <1>2, <1>4, NoneAssumption
  <2>5. \A i \in Nodes, p \in Orders : entry'[i][p] = k => users'[k] # {}
    BY <2>1, <2>4, <1>2, <1>3, <1>4, NoneAssumption DEF MutexSafe, IInv
  <2>. QED BY <2>1, <2>2, <2>3, <2>4, <2>5 DEF MutexSafe
<1>. QED BY <1>0, <1>1, <1>5, <1>6, LockStep DEF Leave, orderVars

\* Enter keeps the invariant: it joins the order's mutex or stores one nobody uses.
LEMMA EnterStep ==
  ASSUME IInv, NEW w \in Workers, Enter(w)
  PROVE  IInv'
<1>. DEFINE n == NodeOf[w]
            o == job[w].order
<1>0. /\ pc[w] = "enter" /\ pc'[w] = "wait" /\ UNCHANGED job
      /\ \A v \in Workers \ {w} : pc'[v] = pc[v]
  BY Types DEF Enter, At, Goto, TypeOK
<1>1. n \in Nodes /\ o \in Orders /\ mutex[w] = NoMutex
  BY <1>0, NodeOfAssumption DEF IInv, Busy, LockSafe, Using, Inside
<1>2. \A v \in Workers : /\ LockSafe(v) /\ (pc[v] \in Using => mutex[v] \in Mutexes)
                         /\ NodeOf[v] \in Nodes /\ (pc[v] \in Using => job[v].order \in Orders)
  BY Types, NodeOfAssumption DEF IInv, LockSafe, Busy, TypeOK, Using, Inside
<1>3. \A k \in Mutexes : MutexSafe(k) /\ users[k] \subseteq Workers
  BY Types DEF IInv, TypeOK
<1>4. \A k \in Mutexes : w \notin users[k] /\ holder[k] # w
  BY <1>0, <1>3, NoneAssumption DEF MutexSafe, Using, Inside
<1>5. pc' \in [Workers -> PCs]
  BY Types DEF Enter, Goto, TypeOK, PCs, Using
<1>6. CASE entry[n][o] # NoMutex
  <2>. DEFINE m == entry[n][o]
  <2>1. m \in Mutexes BY <1>1, <1>6, Types DEF TypeOK
  <2>2. /\ mutex'[w] = m /\ \A v \in Workers : v # w => mutex'[v] = mutex[v]
        /\ users'[m] = users[m] \cup {w} /\ \A k \in Mutexes : k # m => users'[k] = users[k]
        /\ UNCHANGED <<entry, holder>>
    BY <1>6, <2>1, Types DEF Enter, TypeOK
  <2>3. TypeOK'
    <3>0. /\ mutex' = [mutex EXCEPT ![w] = m]
          /\ users' = [users EXCEPT ![m] = users[m] \cup {w}]
      BY <1>6 DEF Enter
    <3>1. mutex' \in [Workers -> Mutexes \cup {NoMutex}] /\ users' \in [Mutexes -> SUBSET Workers]
      BY <2>1, <3>0, Types DEF TypeOK
    <3>. QED BY <1>5, <2>2, <3>1, Types DEF Enter, TypeOK, orderVars, history
  <2>4. ASSUME NEW v \in Workers PROVE LockSafe(v)'
    <3>1. CASE v = w
      BY <3>1, <1>0, <1>4, <2>1, <2>2, NoneAssumption DEF LockSafe, Using, Inside
    <3>2. CASE v # w
      BY <3>2, <1>0, <1>2, <2>1, <2>2 DEF LockSafe
    <3>. QED BY <3>1, <3>2
  <2>5. ASSUME NEW k \in Mutexes PROVE MutexSafe(k)'
    <3>1. \A v \in users'[k] : pc'[v] \in Using /\ mutex'[v] = k
      BY <1>0, <1>3, <1>4, <2>1, <2>2 DEF MutexSafe, Using
    <3>. QED BY <3>1, <1>3, <2>1, <2>2 DEF MutexSafe
  <2>. QED BY <1>0, <2>3, <2>4, <2>5, LockStep DEF Enter, orderVars
<1>7. CASE entry[n][o] = NoMutex
  <2>1. PICK m \in Mutexes : /\ Fresh(m)
                             /\ entry' = [entry EXCEPT ![n][o] = m]
                             /\ mutex' = [mutex EXCEPT ![w] = m]
                             /\ users' = [users EXCEPT ![m] = {w}]
                             /\ holder' = [holder EXCEPT ![m] = NoWorker]
    BY <1>7 DEF Enter
  <2>2. /\ mutex'[w] = m /\ \A v \in Workers : v # w => mutex'[v] = mutex[v]
        /\ users'[m] = {w} /\ \A k \in Mutexes : k # m => users'[k] = users[k]
        /\ holder'[m] = NoWorker /\ \A k \in Mutexes : k # m => holder'[k] = holder[k]
        /\ entry'[n][o] = m
        /\ \A i \in Nodes, p \in Orders : i # n \/ p # o => entry'[i][p] = entry[i][p]
    BY <1>1, <2>1, Types DEF TypeOK
  <2>3. TypeOK'
    <3>1. /\ mutex' \in [Workers -> Mutexes \cup {NoMutex}]
          /\ users' \in [Mutexes -> SUBSET Workers]
          /\ holder' \in [Mutexes -> Workers \cup {NoWorker}]
          /\ entry' \in [Nodes -> [Orders -> Mutexes \cup {NoMutex}]]
      BY <1>1, <2>1, Types DEF TypeOK
    <3>. QED BY <1>5, <3>1, Types DEF Enter, TypeOK, orderVars, history
  <2>4. ASSUME NEW v \in Workers PROVE LockSafe(v)'
    <3>1. CASE v = w
      BY <3>1, <1>0, <2>1, <2>2, NoneAssumption DEF LockSafe, Using, Inside
    <3>2. CASE v # w /\ pc[v] \notin Using
      BY <3>2, <1>0, <1>2, <2>2 DEF LockSafe
    <3>3. CASE v # w /\ pc[v] \in Using
      <4>1. mutex[v] # m /\ mutex[v] \in Mutexes BY <2>1, <1>2, <3>3 DEF Fresh
      <4>2. /\ entry[NodeOf[v]][job[v].order] = mutex[v] /\ mutex[v] # NoMutex
            /\ v \in users[mutex[v]] /\ (pc[v] \in Inside <=> holder[mutex[v]] = v)
        BY <1>2, <3>3 DEF LockSafe
      <4>3. entry'[NodeOf[v]][job[v].order] = mutex[v]
        BY <4>2, <1>2, <1>7, <2>2, <3>3
      <4>. QED BY <4>1, <4>2, <4>3, <3>3, <1>0, <2>2 DEF LockSafe
    <3>. QED BY <3>1, <3>2, <3>3
  <2>5. ASSUME NEW k \in Mutexes PROVE MutexSafe(k)'
    <3>1. \A v \in users'[k] : pc'[v] \in Using /\ mutex'[v] = k
      BY <1>0, <1>3, <1>4, <2>2 DEF MutexSafe, Using
    <3>2. \A i \in Nodes, p \in Orders : entry[i][p] # m
      BY <2>1 DEF Fresh
    <3>. QED BY <3>1, <3>2, <1>3, <2>2 DEF MutexSafe
  <2>. QED BY <1>0, <2>3, <2>4, <2>5, LockStep DEF Enter, orderVars
<1>. QED BY <1>6, <1>7

-----------------------------------------------------------------------------
(***************************************************************************)
(* Calls inside the lock.                                                  *)
(***************************************************************************)

\* A step of worker w inside the lock of its order: what is left to prove of it is
\* the row and the money.
LEMMA InsideStep ==
  ASSUME IInv, NEW w \in Workers, NEW label \in Inside, pc[w] \in Inside, Goto(w, label),
         UNCHANGED <<provider, gateway, job, crashes, served>>, UNCHANGED lockVars,
         status' \in [Orders -> Statuses], faults' \in Nat,
         credits' \in [Orders -> Nat],
         spoiled' \in [Orders -> SUBSET {"request", "credit", "stale"}],
         \A v \in Workers : pc'[v] = "credit" => status'[job[v].order] = "success",
         label = "save" => \/ job[w].call = "paid" /\ provider[job[w].order] = "epay"
                           \/ job[w].call = "asyncFailed" /\ provider[job[w].order] = "stripe",
         label = "credit" => provider[job[w].order] = "epay",
         \A v \in Workers : Owns(v)', \A p \in Orders : OpenUncredited(p)' /\ StaleSpoils(p)' /\ Ledger(p)'
  PROVE  IInv'
<1>0. pc'[w] = label /\ \A v \in Workers \ {w} : pc'[v] = pc[v]
  BY Types DEF Goto, TypeOK
<1>1. TypeOK'
  BY Types DEF Goto, TypeOK, lockVars, PCs, Using
<1>2. \A v \in Workers : Busy(v)'
  <2>1. \A v \in Workers \ {w} : Busy(v)'
    BY <1>0, BusyFrame
  <2>2. Busy(w) BY DEF IInv
  <2>3. label \in {"locked", "save", "credit", "unlock"} /\ pc[w] \in Using /\ pc[w] # "idle"
    BY DEF Inside, Using
  <2>4. Busy(w)' BY <1>0, <2>2, <2>3 DEF Busy
  <2>. QED BY <2>1, <2>4
<1>3. (\A v \in Workers : LockSafe(v)') /\ (\A m \in Mutexes : MutexSafe(m)')
  <2>1. \A v \in Workers : (pc'[v] \in Using <=> pc[v] \in Using) /\ (pc'[v] \in Inside <=> pc[v] \in Inside)
    BY <1>0 DEF Using
  <2>. QED BY <2>1, LockFrame
<1>. QED BY <1>1, <1>2, <1>3 DEF IInv

\* The order of a worker inside the lock.
LEMMA InsideOrder ==
  ASSUME IInv, NEW w \in Workers, pc[w] \in Inside
  PROVE  /\ job[w].order \in Orders
         /\ \A v \in Workers : /\ v # w /\ pc[v] \in {"save", "credit"}
                               /\ job[v].order = job[w].order
                               => ~OneNode(job[w].order)
<1>1. job[w].order \in Orders BY DEF IInv, Busy, Inside
<1>2. \A v \in Workers : pc[v] \in {"save", "credit"} => pc[v] \in Inside BY DEF Inside
<1>. QED BY <1>1, <1>2, ExclusiveOnOneNode

\* Status and credit in one transaction on a pending order.
LEMMA CompleteMoney ==
  ASSUME IInv, NEW w \in Workers, pc[w] = "locked", Goto(w, "unlock"), UNCHANGED job,
         status[job[w].order] = "pending", Save(job[w].order, "success"),
         credits' = [credits EXCEPT ![job[w].order] = @ + 1],
         UNCHANGED <<provider, served, spoiled>>
  PROVE  /\ \A v \in Workers : Owns(v)'
         /\ \A p \in Orders : OpenUncredited(p)' /\ StaleSpoils(p)' /\ Ledger(p)'
         /\ \A v \in Workers : pc'[v] = "credit" => status'[job[v].order] = "success"
<1>. DEFINE o == job[w].order
<1>0. pc'[w] = "unlock" /\ \A v \in Workers \ {w} : pc'[v] = pc[v]
  BY Types DEF Goto, TypeOK
<1>1. /\ o \in Orders
      /\ \A v \in Workers : v # w /\ pc[v] \in {"save", "credit"} /\ job[v].order = o => ~OneNode(o)
  BY InsideOrder DEF Inside
<1>2. /\ status'[o] = "success" /\ \A p \in Orders : p # o => status'[p] = status[p]
      /\ credits'[o] = credits[o] + 1 /\ \A p \in Orders : p # o => credits'[p] = credits[p]
  BY <1>1, Types DEF Save, TypeOK
<1>3. \A p \in Orders : OneNode(p)' <=> OneNode(p)
  BY DEF OneNode
<1>4. \A v \in Workers : pc[v] = "credit" => job[v].order \in Orders /\ status[job[v].order] = "success"
  BY DEF IInv, Busy
<1>5. ASSUME NEW v \in Workers PROVE Owns(v)'
  <2>1. Owns(v) /\ (pc[v] \in {"save", "credit"} => job[v].order \in Orders) BY DEF IInv, Busy
  <2>. QED BY <2>1, <1>0, <1>1, <1>2, <1>3, <1>4 DEF Owns
<1>6. ASSUME NEW p \in Orders PROVE OpenUncredited(p)' /\ StaleSpoils(p)' /\ Ledger(p)'
  <2>1. OpenUncredited(p) /\ StaleSpoils(p) /\ Ledger(p) BY DEF IInv
  <2>2. CASE p # o
    <3>1. Crediting(p)' <=> Crediting(p) BY <1>0, <2>2 DEF Crediting
    <3>. QED BY <2>1, <2>2, <3>1, <1>2, <1>3 DEF OpenUncredited, StaleSpoils, Ledger
  <2>3. CASE p = o
    <3>1. ~Crediting(o)' BY <1>0, <1>4 DEF Crediting
    <3>2. credits'[o] = 1 BY <2>1, <2>3, <1>2 DEF OpenUncredited
    <3>3. StaleSpoils(p)' BY <2>1, <1>3 DEF StaleSpoils
    <3>. QED BY <2>3, <3>1, <3>2, <3>3, <1>2 DEF OpenUncredited, Ledger
  <2>. QED BY <2>2, <2>3
<1>. QED BY <1>0, <1>2, <1>4, <1>5, <1>6

\* A call that leaves the row alone, or whose statement fails.
LEMMA NothingDone ==
  ASSUME IInv, NEW w \in Workers, pc[w] \in {"locked", "save"}, Goto(w, "unlock"),
         UNCHANGED <<provider, gateway, job, crashes, served>>, UNCHANGED lockVars,
         UNCHANGED <<status, credits, spoiled>>, UNCHANGED faults \/ Fault
  PROVE  IInv'
<1>0. pc'[w] = "unlock" /\ \A v \in Workers \ {w} : pc'[v] = pc[v]
  BY Types DEF Goto, TypeOK
<1>1. (\A v \in Workers : Owns(v)') /\ (\A p \in Orders : OpenUncredited(p)' /\ StaleSpoils(p)' /\ Ledger(p)')
  BY <1>0, MoneyFrame
<1>2. \A v \in Workers : pc'[v] = "credit" => status'[job[v].order] = "success"
  BY <1>0 DEF IInv, Busy
<1>3. faults' \in Nat BY Types DEF TypeOK, Fault
<1>4. "unlock" \in Inside /\ pc[w] \in Inside BY DEF Inside
<1>5. /\ status' \in [Orders -> Statuses] /\ credits' \in [Orders -> Nat]
      /\ spoiled' \in [Orders -> SUBSET {"request", "credit", "stale"}]
  BY Types DEF TypeOK
<1>. QED BY <1>1, <1>2, <1>3, <1>4, <1>5, InsideStep

\* A credit keeps the type of the counter.
LEMMA CreditTypes ==
  ASSUME IInv, NEW o \in Orders, Credit(o)
  PROVE  credits' \in [Orders -> Nat]
BY Types DEF Credit, TypeOK

\* The completing transaction keeps the invariant.
LEMMA CompleteStep ==
  ASSUME IInv, NEW w \in Workers, pc[w] = "locked",
         Complete(job[w].order), Goto(w, "unlock"),
         UNCHANGED <<provider, gateway, job, crashes, served, spoiled>>, UNCHANGED lockVars
  PROVE  IInv'
<1>. DEFINE o == job[w].order
<1>1. CASE UNCHANGED status /\ NoCredit /\ (UNCHANGED faults \/ Fault)
  BY <1>1, NothingDone DEF NoCredit
<1>2. CASE Completable(o) /\ Save(o, "success") /\ Credit(o) /\ UNCHANGED faults
  <2>1. /\ \A v \in Workers : Owns(v)'
        /\ \A p \in Orders : OpenUncredited(p)' /\ StaleSpoils(p)' /\ Ledger(p)'
        /\ \A v \in Workers : pc'[v] = "credit" => status'[job[v].order] = "success"
    BY <1>2, CompleteMoney DEF Completable, Credit
  <2>2. /\ status' \in [Orders -> Statuses] /\ credits' \in [Orders -> Nat]
        /\ spoiled' \in [Orders -> SUBSET {"request", "credit", "stale"}]
        /\ faults' \in Nat
    <3>1. status' \in [Orders -> Statuses] BY <1>2, Types DEF Save, TypeOK, Statuses
    <3>2. o \in Orders BY InsideOrder DEF Inside
    <3>3. credits' \in [Orders -> Nat]
      BY <1>2, <3>2, CreditTypes
    <3>. QED BY <3>1, <3>3, <1>2, Types DEF TypeOK
  <2>3. "unlock" \in Inside /\ pc[w] \in Inside BY DEF Inside
  <2>. QED BY <2>1, <2>2, <2>3, InsideStep
<1>. QED BY <1>1, <1>2 DEF Complete

\* The webhooks that complete an order, and the administrator, keep the invariant.
LEMMA FulfillStep ==
  ASSUME IInv, NEW w \in Workers, Fulfill(w) \/ ManualComplete(w)
  PROVE  IInv'
<1>1. pc[w] = "locked" BY DEF Fulfill, ManualComplete, Serves, At
<1>3. Complete(job[w].order)
  BY DEF Fulfill, ManualComplete
<1>4. /\ Goto(w, "unlock") /\ UNCHANGED <<provider, gateway, job, crashes, served, spoiled>>
      /\ UNCHANGED lockVars
  BY DEF Fulfill, ManualComplete, orderVars
<1>. QED BY <1>1, <1>3, <1>4, CompleteStep

\* EpayNotify and sessionAsyncPaymentFailed read the order.
LEMMA ReadStep ==
  ASSUME IInv, NEW w \in Workers, EpayRead(w) \/ AsyncFailedRead(w)
  PROVE  IInv'
<1>. DEFINE o == job[w].order
<1>0. /\ pc[w] = "locked" /\ UNCHANGED <<provider, status, gateway, job, faults, crashes>>
      /\ UNCHANGED lockVars /\ UNCHANGED history
      /\ Goto(w, IF status[o] = "pending" THEN "save" ELSE "unlock")
      /\ \/ job[w].call = "paid" /\ provider[o] = "epay"
         \/ job[w].call = "asyncFailed" /\ provider[o] = "stripe"
  BY DEF EpayRead, AsyncFailedRead, Serves, At, orderVars, IInv, Busy
<1>1. CASE status[o] # "pending"
  BY <1>0, <1>1, NothingDone DEF history
<1>2. CASE status[o] = "pending"
  <2>1. Goto(w, "save") /\ "save" \in Inside /\ pc[w] \in Inside
    BY <1>0, <1>2 DEF Inside
  <2>2. pc'[w] = "save" /\ \A v \in Workers \ {w} : pc'[v] = pc[v]
    BY <2>1, Types DEF Goto, TypeOK
  <2>3. o \in Orders BY <2>1, InsideOrder
  <2>4. ASSUME NEW p \in Orders PROVE OpenUncredited(p)' /\ StaleSpoils(p)' /\ Ledger(p)'
    <3>1. OpenUncredited(p) /\ StaleSpoils(p) /\ Ledger(p) BY DEF IInv
    <3>2. Crediting(p)' <=> Crediting(p) BY <1>0, <2>2 DEF Crediting
    <3>. QED BY <1>0, <3>1, <3>2 DEF OpenUncredited, StaleSpoils, Ledger, OneNode, history
  <2>5. ASSUME NEW v \in Workers PROVE Owns(v)'
    <3>1. Owns(v) /\ OpenUncredited(o) BY <2>3 DEF IInv
    <3>2. CASE v = w
      BY <1>0, <1>2, <2>2, <3>1, <3>2 DEF Owns, OpenUncredited, history
    <3>3. CASE v # w
      BY <1>0, <2>2, <3>1, <3>3 DEF Owns, OneNode, history
    <3>. QED BY <3>2, <3>3
  <2>6. \A v \in Workers : pc'[v] = "credit" => status'[job[v].order] = "success"
    BY <1>0, <2>2 DEF IInv, Busy
  <2>7. /\ status' \in [Orders -> Statuses] /\ credits' \in [Orders -> Nat]
        /\ spoiled' \in [Orders -> SUBSET {"request", "credit", "stale"}]
        /\ faults' \in Nat
    BY <1>0, Types DEF TypeOK, history
  <2>. QED BY <1>0, <2>1, <2>4, <2>5, <2>6, <2>7, InsideStep DEF history
<1>. QED BY <1>1, <1>2

\* EpayNotify's save keeps the invariant: what it found pending is pending still if
\* one node serves the order.
LEMMA EpaySaveStep ==
  ASSUME IInv, NEW w \in Workers, EpaySave(w)
  PROVE  IInv'
<1>. DEFINE o == job[w].order
<1>0. /\ pc[w] = "save" /\ job[w].call = "paid" /\ provider[o] = "epay"
      /\ UNCHANGED <<provider, gateway, job, crashes, credits, served>>
      /\ UNCHANGED lockVars
  BY DEF EpaySave, At, orderVars, IInv, Busy
<1>1. CASE Fault /\ Goto(w, "unlock") /\ UNCHANGED <<status, spoiled>>
  BY <1>0, <1>1, NothingDone
<1>2. CASE StaleSave(o, "success", "stale") /\ Goto(w, "credit") /\ UNCHANGED faults
  <2>1. "credit" \in Inside /\ pc[w] \in Inside BY <1>0 DEF Inside
  <2>2. pc'[w] = "credit" /\ \A v \in Workers \ {w} : pc'[v] = pc[v]
    BY <1>2, Types DEF Goto, TypeOK
  <2>3. /\ o \in Orders
        /\ \A v \in Workers : v # w /\ pc[v] \in {"save", "credit"} /\ job[v].order = o => ~OneNode(o)
    BY <2>1, InsideOrder
  <2>4. status'[o] = "success" /\ \A p \in Orders : p # o => status'[p] = status[p]
    BY <1>2, <2>3, Types DEF StaleSave, Save, TypeOK
  <2>5. \A p \in Orders : OneNode(p)' <=> OneNode(p)
    BY <1>0 DEF OneNode
  <2>a. \A v \in Workers : pc[v] \in {"save", "credit"} => job[v].order \in Orders
    BY DEF IInv, Busy
  <2>b. /\ \A p \in Orders : p # o => spoiled'[p] = spoiled[p]
        /\ spoiled[o] \subseteq spoiled'[o]
        /\ \/ /\ spoiled'[o] = spoiled[o] /\ credits[o] = 0
              /\ \A v \in Workers : pc[v] = "credit" => job[v].order # o
           \/ "stale" \in spoiled'[o] /\ ~OneNode(o)
    <3>1. CASE status[o] = "pending"
      <4>1. spoiled' = spoiled BY <1>2, <3>1 DEF StaleSave
      <4>2. credits[o] = 0 BY <2>3, <3>1 DEF IInv, OpenUncredited
      <4>3. \A v \in Workers : pc[v] = "credit" => job[v].order # o
        BY <3>1 DEF IInv, Busy
      <4>. QED BY <4>1, <4>2, <4>3
    <3>2. CASE status[o] # "pending"
      <4>1. ~OneNode(o) BY <1>0, <3>2 DEF IInv, Owns
      <4>2. spoiled' = [spoiled EXCEPT ![o] = @ \cup {"stale"}]
        BY <1>2, <3>2 DEF StaleSave, Spoil
      <4>. QED BY <4>1, <4>2, <2>3, Types DEF TypeOK
    <3>. QED BY <3>1, <3>2
  <2>6. ASSUME NEW v \in Workers PROVE Owns(v)'
    <3>1. Owns(v) BY DEF IInv
    <3>2. pc'[v] = "save" /\ OneNode(job[v].order)' => status'[job'[v].order] = "pending"
      <4>1. CASE job[v].order = o BY <1>0, <2>2, <2>3, <2>5, <4>1
      <4>2. CASE job[v].order # o BY <1>0, <2>2, <2>4, <2>5, <2>a, <3>1, <4>2 DEF Owns
      <4>. QED BY <4>1, <4>2
    <3>3. CASE v = w
      BY <1>0, <2>2, <2>b, <3>2, <3>3 DEF Owns
    <3>4. CASE v # w /\ job[v].order = o
      BY <1>0, <2>2, <2>b, <3>2, <3>4 DEF Owns
    <3>5. CASE v # w /\ job[v].order # o
      BY <1>0, <2>2, <2>a, <2>b, <3>1, <3>2, <3>5 DEF Owns
    <3>. QED BY <3>3, <3>4, <3>5
  <2>7. ASSUME NEW p \in Orders PROVE OpenUncredited(p)' /\ StaleSpoils(p)' /\ Ledger(p)'
    <3>1. OpenUncredited(p) /\ StaleSpoils(p) /\ Ledger(p) BY DEF IInv
    <3>2. CASE p # o
      <4>1. Crediting(p)' <=> Crediting(p) BY <1>0, <2>2, <3>2 DEF Crediting
      <4>. QED BY <1>0, <2>4, <2>5, <2>b, <3>1, <3>2, <4>1 DEF OpenUncredited, StaleSpoils, Ledger
    <3>3. CASE p = o
      <4>1. Crediting(o)' BY <1>0, <2>2 DEF Crediting
      <4>2. OpenUncredited(p)' BY <1>0, <2>4, <2>b, <3>3 DEF OpenUncredited
      <4>3. StaleSpoils(p)' BY <1>0, <2>5, <2>b, <3>1, <3>3 DEF StaleSpoils
      <4>4. Ledger(p)' BY <1>0, <2>b, <3>3, <4>1 DEF Ledger
      <4>. QED BY <4>2, <4>3, <4>4
    <3>. QED BY <3>2, <3>3
  <2>8. \A v \in Workers : pc'[v] = "credit" => status'[job[v].order] = "success"
    <3>1. \A v \in Workers : pc[v] = "credit" =>
                job[v].order \in Orders /\ status[job[v].order] = "success"
      BY DEF IInv, Busy
    <3>. QED BY <2>2, <2>4, <3>1
  <2>9. /\ status' \in [Orders -> Statuses] /\ credits' \in [Orders -> Nat]
        /\ spoiled' \in [Orders -> SUBSET {"request", "credit", "stale"}]
        /\ faults' \in Nat
    <3>1. CASE UNCHANGED spoiled
      BY <1>0, <1>2, <3>1, Types DEF StaleSave, Save, TypeOK, Statuses
    <3>2. CASE Spoil(o, "stale")
      <4>1. spoiled' \in [Orders -> SUBSET {"request", "credit", "stale"}]
        BY <2>3, <3>2, SpoilType
      <4>. QED BY <1>0, <1>2, <4>1, Types DEF StaleSave, Save, TypeOK, Statuses
    <3>. QED BY <1>2, <3>1, <3>2 DEF StaleSave
  <2>. QED BY <1>0, <1>2, <2>1, <2>6, <2>7, <2>8, <2>9, InsideStep
<1>. QED BY <1>1, <1>2 DEF EpaySave

\* EpayNotify's credit keeps the invariant: it is the order's first unless a
\* save was stale.
LEMMA EpayCreditStep ==
  ASSUME IInv, NEW w \in Workers, EpayCredit(w)
  PROVE  IInv'
<1>. DEFINE o == job[w].order
<1>0. /\ pc[w] = "credit" /\ provider[o] = "epay" /\ status[o] = "success"
      /\ UNCHANGED <<provider, gateway, job, crashes, status, served>>
      /\ UNCHANGED lockVars /\ Goto(w, "unlock")
  BY DEF EpayCredit, At, orderVars, IInv, Busy
<1>1. "unlock" \in Inside /\ pc[w] \in Inside BY <1>0 DEF Inside
<1>2. pc'[w] = "unlock" /\ \A v \in Workers \ {w} : pc'[v] = pc[v]
  BY <1>0, Types DEF Goto, TypeOK
<1>3. /\ o \in Orders
      /\ \A v \in Workers : v # w /\ pc[v] \in {"save", "credit"} /\ job[v].order = o => ~OneNode(o)
  BY <1>1, InsideOrder
<1>4. \A p \in Orders : OneNode(p)' <=> OneNode(p)
  BY <1>0 DEF OneNode
<1>5. \A p \in Orders : p # o => (Crediting(p)' <=> Crediting(p))
  BY <1>0, <1>2 DEF Crediting
<1>6. "stale" \notin spoiled[o] => ~Crediting(o)' /\ credits[o] = 0
  BY <1>0, <1>2 DEF Crediting, IInv, Owns
<1>7. \A v \in Workers : pc'[v] = "credit" => status'[job[v].order] = "success"
  BY <1>0, <1>2 DEF IInv, Busy
<1>8. /\ \A p \in Orders : p # o => credits'[p] = credits[p] /\ spoiled'[p] = spoiled[p]
      /\ spoiled[o] \subseteq spoiled'[o] /\ ("stale" \in spoiled'[o] => "stale" \in spoiled[o])
      /\ \/ credits'[o] = credits[o] + 1
         \/ credits'[o] = credits[o] /\ spoiled'[o] # {}
      /\ credits' \in [Orders -> Nat]
      /\ spoiled' \in [Orders -> SUBSET {"request", "credit", "stale"}] /\ faults' \in Nat
  <2>1. CASE Credit(o) /\ UNCHANGED <<faults, spoiled>>
    <3>1. credits' \in [Orders -> Nat]
      BY <1>3, <2>1, CreditTypes
    <3>2. credits'[o] = credits[o] + 1 /\ \A p \in Orders : p # o => credits'[p] = credits[p]
      BY <1>3, <2>1, Types DEF Credit, TypeOK
    <3>. QED BY <2>1, <3>1, <3>2, Types DEF TypeOK
  <2>2. CASE Fault /\ NoCredit /\ Spoil(o, "credit")
    BY <1>3, <2>2, Types DEF Fault, NoCredit, Spoil, TypeOK
  <2>. QED BY <2>1, <2>2 DEF EpayCredit
<1>9. ASSUME NEW v \in Workers PROVE Owns(v)'
  <2>1. Owns(v) /\ (pc[v] \in {"save", "credit"} => job[v].order \in Orders) BY DEF IInv, Busy
  <2>2. Owns(w) BY DEF IInv
  <2>. QED BY <1>0, <1>2, <1>3, <1>4, <1>8, <2>1, <2>2 DEF Owns
<1>10. ASSUME NEW p \in Orders PROVE OpenUncredited(p)' /\ StaleSpoils(p)' /\ Ledger(p)'
  <2>1. OpenUncredited(p) /\ StaleSpoils(p) /\ Ledger(p) /\ credits[p] \in Nat BY Types DEF IInv, TypeOK
  <2>2. CASE p # o
    BY <1>0, <1>4, <1>5, <1>8, <2>1, <2>2 DEF OpenUncredited, StaleSpoils, Ledger
  <2>3. CASE p = o
    BY <1>0, <1>4, <1>6, <1>8, <2>1, <2>3 DEF OpenUncredited, StaleSpoils, Ledger
  <2>. QED BY <2>2, <2>3
<1>11. status' \in [Orders -> Statuses] BY <1>0, Types DEF TypeOK
<1>. QED BY <1>0, <1>1, <1>7, <1>8, <1>9, <1>10, <1>11, InsideStep

\* Expiry and the late failure of a Stripe session keep the invariant.
LEMMA EndStep ==
  ASSUME IInv, NEW w \in Workers, Expire(w) \/ AsyncFailedSave(w)
  PROVE  IInv'
<1>. DEFINE o == job[w].order
<1>0. /\ pc[w] \in {"locked", "save"} /\ provider[o] = "stripe" /\ Goto(w, "unlock")
      /\ UNCHANGED <<provider, gateway, job, crashes, credits, served>>
      /\ UNCHANGED lockVars
  BY DEF history, Expire, AsyncFailedSave, Serves, At, orderVars, IInv, Busy
<1>1. CASE UNCHANGED <<status, spoiled>> /\ (UNCHANGED faults \/ Fault)
  BY <1>0, <1>1, NothingDone
<1>2. CASE /\ \E s \in {"failed", "expired"} : Save(o, s)
           /\ UNCHANGED faults
           /\ \/ status[o] = "pending" /\ UNCHANGED spoiled
              \/ pc[w] = "save" /\ status[o] # "pending" /\ Spoil(o, "stale")
  <2>0. PICK s \in {"failed", "expired"} : Save(o, s) BY <1>2
  <2>1. "unlock" \in Inside /\ pc[w] \in Inside BY <1>0 DEF Inside
  <2>2. pc'[w] = "unlock" /\ \A v \in Workers \ {w} : pc'[v] = pc[v]
    BY <1>0, Types DEF Goto, TypeOK
  <2>3. /\ o \in Orders
        /\ \A v \in Workers : v # w /\ pc[v] \in {"save", "credit"} /\ job[v].order = o => ~OneNode(o)
    BY <2>1, InsideOrder
  <2>4. /\ \A p \in Orders : spoiled[p] \subseteq spoiled'[p]
        /\ \A p \in Orders : "stale" \in spoiled'[p] =>
              "stale" \in spoiled[p] \/ (p = o /\ ~OneNode(o))
        /\ status[o] = "pending" \/ spoiled'[o] # {}
    <3>1. status[o] = "pending" \/ ~OneNode(o) BY <1>2 DEF IInv, Owns
    <3>2. CASE status[o] = "pending" /\ UNCHANGED spoiled BY <3>2
    <3>3. CASE status[o] # "pending" /\ Spoil(o, "stale")
      <4>1. /\ spoiled'[o] = spoiled[o] \cup {"stale"}
            /\ \A p \in Orders : p # o => spoiled'[p] = spoiled[p]
        BY <2>3, <3>3, Types DEF Spoil, TypeOK
      <4>. QED BY <3>1, <3>3, <4>1
    <3>. QED BY <1>2, <3>2, <3>3
  <2>5. /\ \A v \in Workers : pc'[v] \in {"save", "credit"} => pc'[v] = pc[v] /\ job'[v] = job[v]
        /\ \A v \in Workers : pc[v] = "credit" => pc'[v] = "credit" /\ job'[v] = job[v]
        /\ \A v \in Workers : pc'[v] = "save" /\ job'[v].order = o => ~OneNode(o)
    BY <1>0, <2>2, <2>3
  <2>6. (\A v \in Workers : Owns(v)') /\ (\A p \in Orders : OpenUncredited(p)' /\ StaleSpoils(p)' /\ Ledger(p)')
    BY <1>0, <2>0, <2>3, <2>4, <2>5, FailMoney
  <2>7. \A v \in Workers : pc'[v] = "credit" => status'[job[v].order] = "success"
    <3>1. \A v \in Workers : pc[v] = "credit" =>
            job[v].order \in Orders \ {o} /\ status[job[v].order] = "success"
      BY <1>0 DEF IInv, Busy
    <3>. QED BY <2>0, <2>2, <3>1, Types DEF Save, TypeOK
  <2>8. /\ status' \in [Orders -> Statuses] /\ credits' \in [Orders -> Nat]
        /\ spoiled' \in [Orders -> SUBSET {"request", "credit", "stale"}]
        /\ faults' \in Nat
    <3>1. CASE UNCHANGED spoiled
      BY <1>0, <1>2, <2>0, <3>1, Types DEF Save, TypeOK, Statuses
    <3>2. CASE Spoil(o, "stale")
      <4>1. spoiled' \in [Orders -> SUBSET {"request", "credit", "stale"}]
        BY <2>3, <3>2, SpoilType
      <4>. QED BY <1>0, <1>2, <2>0, <4>1, Types DEF Save, TypeOK, Statuses
    <3>. QED BY <1>2, <3>1, <3>2
  <2>. QED BY <1>0, <2>1, <2>6, <2>7, <2>8, InsideStep
<1>. QED BY <1>1, <1>2 DEF Expire, AsyncFailedSave, StaleSave, Serves, At, history

-----------------------------------------------------------------------------
(***************************************************************************)
(* Crashes.                                                                *)
(***************************************************************************)

\* A crash keeps the invariant: no worker of another node uses a lock of this one,
\* and an order that was about to be credited is marked.
LEMMA CrashStep ==
  ASSUME IInv, NEW n \in Nodes, Crash(n)
  PROVE  IInv'
<1>. DEFINE gone == {m \in Mutexes : \E o \in Orders : entry[n][o] = m}
<1>0. /\ UNCHANGED <<provider, gateway, status, faults, credits, served>>
      /\ crashes' = crashes + 1
      /\ \A v \in Workers : IF NodeOf[v] = n
            THEN pc'[v] = "idle" /\ job'[v] = NoJob /\ mutex'[v] = NoMutex
            ELSE pc'[v] = pc[v] /\ job'[v] = job[v] /\ mutex'[v] = mutex[v]
      /\ \A k \in Nodes, o \in Orders :
            entry'[k][o] = IF k = n THEN NoMutex ELSE entry[k][o]
      /\ \A m \in Mutexes : IF m \in gone
            THEN users'[m] = {} /\ holder'[m] = NoWorker
            ELSE users'[m] = users[m] /\ holder'[m] = holder[m]
      /\ \A o \in Orders : /\ spoiled[o] \subseteq spoiled'[o]
                           /\ ("stale" \in spoiled'[o] => "stale" \in spoiled[o])
                           /\ (\E v \in Workers : NodeOf[v] = n /\ pc[v] = "credit" /\ job[v].order = o)
                                => spoiled'[o] # {}
  <2>1. \A k \in Nodes, o \in Orders : entry'[k][o] = IF k = n THEN NoMutex ELSE entry[k][o]
    BY Types DEF Crash, TypeOK
  <2>2. \A m \in Mutexes : IF m \in gone
            THEN users'[m] = {} /\ holder'[m] = NoWorker
            ELSE users'[m] = users[m] /\ holder'[m] = holder[m]
    BY DEF Crash
  <2>3. \A o \in Orders : /\ spoiled[o] \subseteq spoiled'[o]
                          /\ ("stale" \in spoiled'[o] => "stale" \in spoiled[o])
                          /\ (\E v \in Workers : NodeOf[v] = n /\ pc[v] = "credit" /\ job[v].order = o)
                                => spoiled'[o] # {}
    BY DEF Crash
  <2>. QED BY <2>1, <2>2, <2>3 DEF Crash, orderVars
<1>1. TypeOK'
  <2>1. /\ pc' \in [Workers -> PCs]
        /\ job' \in [Workers -> [call: Calls \cup {"none", "request"}, order: Orders \cup {NoOrder}]]
    BY Types DEF Crash, NoJob, TypeOK, PCs
  <2>2. mutex' \in [Workers -> Mutexes \cup {NoMutex}] BY Types DEF Crash, TypeOK
  <2>3. entry' \in [Nodes -> [Orders -> Mutexes \cup {NoMutex}]] BY Types DEF Crash, TypeOK
  <2>4. users' \in [Mutexes -> SUBSET Workers] BY Types DEF Crash, TypeOK
  <2>5. holder' \in [Mutexes -> Workers \cup {NoWorker}] BY Types DEF Crash, TypeOK
  <2>6. spoiled' \in [Orders -> SUBSET {"request", "credit", "stale"}] BY Types DEF Crash, TypeOK
  <2>. QED BY <1>0, <2>1, <2>2, <2>3, <2>4, <2>5, <2>6, Types DEF TypeOK
<1>2. ASSUME NEW v \in Workers PROVE Busy(v)'
  <2>1. Busy(v) BY DEF IInv
  <2>2. CASE NodeOf[v] = n
    BY <1>0, <2>2 DEF Busy, NoJob, Using, Inside
  <2>3. CASE NodeOf[v] # n
    BY <1>0, <2>1, <2>3 DEF Busy
  <2>. QED BY <2>2, <2>3
<1>3. \A v \in Workers : /\ NodeOf[v] \in Nodes
                         /\ pc[v] \in Using => /\ job[v].order \in Orders /\ mutex[v] \in Mutexes
                                                /\ entry[NodeOf[v]][job[v].order] = mutex[v]
                                                /\ (mutex[v] \in gone <=> NodeOf[v] = n)
  <2>. SUFFICES ASSUME NEW v \in Workers, pc[v] \in Using
                PROVE  /\ job[v].order \in Orders /\ mutex[v] \in Mutexes
                       /\ entry[NodeOf[v]][job[v].order] = mutex[v]
                       /\ (mutex[v] \in gone <=> NodeOf[v] = n)
    BY NodeOfAssumption
  <2>1. LockSafe(v) /\ Busy(v) BY DEF IInv
  <2>2. job[v].order \in Orders BY <2>1 DEF Busy, Using, Inside
  <2>3. mutex[v] \in Mutexes /\ entry[NodeOf[v]][job[v].order] = mutex[v]
    BY <2>1, Types DEF LockSafe, TypeOK
  <2>4. MutexSafe(mutex[v]) BY <2>3 DEF IInv
  <2>5. NodeOf[v] \in Nodes BY NodeOfAssumption
  <2>. QED BY <2>2, <2>3, <2>4, <2>5 DEF MutexSafe
<1>4. ASSUME NEW v \in Workers PROVE LockSafe(v)'
  <2>1. LockSafe(v) BY DEF IInv
  <2>2. CASE NodeOf[v] = n
    BY <1>0, <2>2 DEF LockSafe, Using, Inside
  <2>3. CASE NodeOf[v] # n /\ pc[v] \notin Using
    BY <1>0, <2>1, <2>3 DEF LockSafe
  <2>4. CASE NodeOf[v] # n /\ pc[v] \in Using
    BY <1>0, <1>3, <2>1, <2>4 DEF LockSafe
  <2>. QED BY <2>2, <2>3, <2>4
<1>5. ASSUME NEW m \in Mutexes PROVE MutexSafe(m)'
  <2>1. MutexSafe(m) /\ users[m] \subseteq Workers BY Types DEF IInv, TypeOK
  <2>2. \A k \in Nodes, o \in Orders : entry'[k][o] = m => k # n /\ entry[k][o] = m
    BY <1>0, NoneAssumption
  <2>3. CASE m \in gone
    BY <1>0, <2>1, <2>2, <2>3 DEF MutexSafe
  <2>4. CASE m \notin gone
    <3>1. users'[m] = users[m] /\ holder'[m] = holder[m] BY <1>0, <2>4
    <3>2. \A v \in users[m] : v \in Workers /\ pc[v] \in Using /\ mutex[v] = m
      BY <2>1 DEF MutexSafe
    <3>3. \A v \in users[m] : NodeOf[v] # n BY <1>3, <2>4, <3>2
    <3>4. \A v \in users[m] : pc'[v] \in Using /\ mutex'[v] = m BY <1>0, <3>2, <3>3
    <3>. QED BY <2>1, <2>2, <3>1, <3>4 DEF MutexSafe
  <2>. QED BY <2>3, <2>4
<1>6. \A p \in Orders : OneNode(p)' <=> OneNode(p)
  BY <1>0 DEF OneNode
<1>7. ASSUME NEW v \in Workers PROVE Owns(v)'
  <2>1. Owns(v) /\ (pc[v] \in {"save", "credit"} => job[v].order \in Orders) BY DEF IInv, Busy
  <2>. QED BY <1>0, <1>6, <2>1 DEF Owns
<1>8. ASSUME NEW p \in Orders PROVE OpenUncredited(p)' /\ StaleSpoils(p)' /\ Ledger(p)'
  <2>1. OpenUncredited(p) /\ StaleSpoils(p) /\ Ledger(p) BY DEF IInv
  <2>2. spoiled'[p] = {} => spoiled[p] = {} /\ (Crediting(p)' <=> Crediting(p))
    BY <1>0 DEF Crediting
  <2>. QED BY <1>0, <1>6, <2>1, <2>2 DEF OpenUncredited, StaleSpoils, Ledger
<1>. QED BY <1>1, <1>2, <1>4, <1>5, <1>7, <1>8 DEF IInv

-----------------------------------------------------------------------------
(***************************************************************************)
(* The theorems.                                                           *)
(***************************************************************************)

\* The invariant holds initially.
LEMMA InitIInv == Init => IInv
<1>. SUFFICES ASSUME Init PROVE IInv
  OBVIOUS
<1>1. TypeOK
  BY DEF Init, TypeOK, NoJob, PCs, Statuses
<1>2. \A w \in Workers : Busy(w) /\ LockSafe(w) /\ Owns(w)
  BY DEF Init, Busy, LockSafe, Owns, NoJob, Using, Inside
<1>3. \A m \in Mutexes : MutexSafe(m)
  BY NoneAssumption DEF Init, MutexSafe
<1>4. \A o \in Orders : OpenUncredited(o) /\ StaleSpoils(o) /\ Ledger(o)
  <2>. SUFFICES ASSUME NEW o \in Orders PROVE OpenUncredited(o) /\ StaleSpoils(o) /\ Ledger(o)
    OBVIOUS
  <2>1. credits[o] = 0 /\ status[o] = "none" BY DEF Init
  <2>2. OpenUncredited(o) BY <2>1 DEF OpenUncredited
  <2>3. Ledger(o) BY <2>1 DEF Ledger
  <2>4. StaleSpoils(o) BY DEF Init, StaleSpoils
  <2>. QED BY <2>2, <2>3, <2>4
<1>. QED BY <1>1, <1>2, <1>3, <1>4 DEF IInv

\* Every step keeps the invariant.
LEMMA NextIInv == IInv /\ [Next]_vars => IInv'
<1>. SUFFICES ASSUME IInv, [Next]_vars PROVE IInv'
  OBVIOUS
<1>1. CASE UNCHANGED vars
  <2>1. TypeOK' BY <1>1, Types DEF vars, TypeOK
  <2>2. \A w \in Workers : Busy(w)' BY <1>1 DEF vars, IInv, Busy
  <2>3. (\A v \in Workers : LockSafe(v)') /\ (\A m \in Mutexes : MutexSafe(m)')
    BY <1>1, LockFrame DEF vars, lockVars
  <2>4. (\A v \in Workers : Owns(v)') /\ (\A p \in Orders : OpenUncredited(p)' /\ StaleSpoils(p)' /\ Ledger(p)')
    BY <1>1, MoneyFrame DEF vars
  <2>. QED BY <2>1, <2>2, <2>3, <2>4 DEF IInv
<1>2. ASSUME NEW w \in Workers, WorkerStep(w) PROVE IInv'
  BY <1>2, GatewayOpensStep, GatewayRefusesStep, EnterStep, AcquireStep, UnlockStep, LeaveStep,
     FulfillStep, ReadStep, EpaySaveStep, EpayCreditStep, EndStep DEF WorkerStep
<1>3. ASSUME NEW w \in Workers, NEW o \in Orders,
             \/ RequestPay(w, o) \/ RequestPayFails(w, o) \/ InsertOrder(w, o)
             \/ \E call \in Calls : Begin(w, o, call)
      PROVE IInv'
  BY <1>3, RequestPayStep, RequestPayFailsStep, InsertOrderStep, BeginStep
<1>. QED BY <1>1, <1>2, <1>3, GatewayStep, CrashStep DEF Next

\* The types, and what IInv says of calls, locks, statuses and credits, hold in every
\* reachable state.
THEOREM Invariance == Spec => []IInv
BY InitIInv, NextIInv, PTL DEF Spec

\* LockOrder excludes: with references counted under createLock, a mutex is never
\* replaced while somebody waits for it or holds it.
THEOREM Exclusion == Spec => []OrderExclusive
<1>1. IInv => OrderExclusive
  BY Exclusive DEF OrderExclusive
<1>. QED BY <1>1, Invariance, PTL

\* UnlockOrder leaves no mutex in orderLocks that nobody refers to.
THEOREM NoLeak == Spec => []NoLockLeak
<1>1. IInv => NoLockLeak
  <2>. SUFFICES ASSUME IInv, NEW n \in Nodes, NEW o \in Orders, entry[n][o] # NoMutex
                PROVE  \E w \in Workers : NodeOf[w] = n /\ pc[w] \in Using /\ job[w].order = o
    BY DEF NoLockLeak
  <2>1. entry[n][o] \in Mutexes BY Types DEF TypeOK
  <2>2. MutexSafe(entry[n][o]) /\ users[entry[n][o]] \subseteq Workers
    BY <2>1, Types DEF IInv, TypeOK
  <2>3. PICK w \in users[entry[n][o]] : TRUE BY <2>2 DEF MutexSafe
  <2>4. w \in Workers /\ pc[w] \in Using /\ mutex[w] = entry[n][o]
    BY <2>2, <2>3 DEF MutexSafe
  <2>5. LockSafe(w) /\ Busy(w) BY <2>4 DEF IInv
  <2>6. entry[NodeOf[w]][job[w].order] = entry[n][o] /\ NodeOf[w] \in Nodes /\ job[w].order \in Orders
    BY <2>4, <2>5, NodeOfAssumption DEF LockSafe, Busy, Using, Inside
  <2>7. NodeOf[w] = n /\ job[w].order = o BY <2>2, <2>6 DEF MutexSafe
  <2>. QED BY <2>4, <2>7
<1>. QED BY <1>1, Invariance, PTL

\* No order is credited twice, except an Epay order that EpayNotify saved although
\* another node had ended it since the read.
THEOREM OneCredit == Spec => []CreditedOnce
<1>1. IInv => CreditedOnce
  BY DEF IInv, OpenUncredited, StaleSpoils, CreditedOnce, Overtaken
<1>. QED BY <1>1, Invariance, PTL

\* The user has the quota of exactly the orders that say so, but for orders whose
\* credit was lost after EpayNotify's save, that a refused Waffo request marked failed
\* after they had ended, or that were overtaken: saved by EpayNotify or Stripe's
\* async_payment_failed after another node had ended them.
THEOREM LedgerMatches == Spec => []CreditMatchesStatus
<1>1. IInv => CreditMatchesStatus
  <2>. SUFFICES ASSUME IInv, NEW o \in Orders, AtRest(o),
                       spoiled[o] \cap {"credit", "request"} = {}, ~Overtaken(o)
                PROVE  credits[o] = IF status[o] = "success" THEN 1 ELSE 0
    BY DEF CreditMatchesStatus
  <2>1. Ledger(o) /\ StaleSpoils(o) BY DEF IInv
  <2>2. ~Crediting(o) BY DEF AtRest, Crediting
  <2>3. "stale" \notin spoiled[o] BY <2>1 DEF StaleSpoils, Overtaken
  <2>4. spoiled[o] = {} BY <2>3, Types DEF TypeOK
  <2>. QED BY <2>1, <2>2, <2>4 DEF Ledger
<1>. QED BY <1>1, Invariance, PTL

\* Why an ended order may change: a refused Waffo request, or a stale save on one of
\* two nodes.
Excused(o) ==
  \/ provider[o] \in {"waffo", "waffo_pancake"} /\ "request" \in spoiled'[o]
  \/ provider[o] \in {"epay", "stripe"} /\ Overtaken(o)'

\* A step that changes the status of an ended order is one of those two saves.
LEMMA StatusStep ==
  ASSUME IInv, Next, NEW o \in Orders, status[o] \in Ended, status'[o] # status[o]
  PROVE  Excused(o)
<1>1. status \in [Orders -> Statuses] /\ status[o] \notin {"none", "pending"}
  BY Types DEF TypeOK, Ended
<1>2. ASSUME NEW p \in Orders, NEW s \in Statuses, Save(p, s) PROVE p = o
  BY <1>1, <1>2 DEF Save
<1>3. ASSUME NEW p, NEW s \in Statuses, Save(p, s), status[p] \in {"none", "pending"}
      PROVE FALSE
  BY <1>1, <1>3 DEF Save
<1>4. ASSUME NEW w \in Workers, WorkerStep(w) PROVE Excused(o)
  <2>1. CASE \/ GatewayOpens(w) \/ Enter(w) \/ Acquire(w) \/ Unlock(w) \/ Leave(w)
             \/ EpayRead(w) \/ EpayCredit(w) \/ AsyncFailedRead(w)
    BY <2>1 DEF GatewayOpens, Enter, Acquire, Unlock, Leave, EpayRead, EpayCredit, AsyncFailedRead
  <2>2. CASE GatewayRefuses(w)
    <3>1. /\ job[w].order \in Orders /\ "failed" \in Statuses
          /\ provider[job[w].order] \in {"creem", "waffo", "waffo_pancake"}
      BY <2>2 DEF IInv, Busy, GatewayRefuses, At, Statuses
    <3>2. StaleSave(job[w].order, "failed", "request") /\ provider[job[w].order] # "creem"
      BY <2>2 DEF GatewayRefuses
    <3>3. job[w].order = o BY <1>2, <3>1, <3>2 DEF StaleSave
    <3>4. "request" \in spoiled'[o] BY <1>1, <3>2, <3>3, Types DEF StaleSave, Spoil, TypeOK
    <3>. QED BY <3>1, <3>2, <3>3, <3>4 DEF Excused
  <2>3. CASE Fulfill(w) \/ ManualComplete(w)
    BY <1>3, <2>3 DEF Fulfill, ManualComplete, Complete, Completable, Statuses
  <2>4. CASE Expire(w)
    BY <1>3, <2>4 DEF Expire, Statuses
  <2>5. CASE EpaySave(w) \/ AsyncFailedSave(w)
    <3>1. pc[w] = "save" /\ UNCHANGED served BY <2>5 DEF EpaySave, AsyncFailedSave, At
    <3>2. Busy(w) /\ Owns(w) BY DEF IInv
    <3>3. job[w].order \in Orders /\ provider[job[w].order] \in {"epay", "stripe"}
      BY <3>1, <3>2 DEF Busy
    <3>4. PICK s \in Statuses : StaleSave(job[w].order, s, "stale")
      BY <2>5 DEF EpaySave, AsyncFailedSave, Statuses
    <3>5. job[w].order = o BY <1>2, <3>3, <3>4 DEF StaleSave
    <3>6. ~OneNode(o) BY <1>1, <3>1, <3>2, <3>5 DEF Owns
    <3>7. "stale" \in spoiled'[o] BY <1>1, <3>4, <3>5, Types DEF StaleSave, Spoil, TypeOK
    <3>8. Overtaken(o)' BY <3>1, <3>6, <3>7 DEF Overtaken, OneNode
    <3>. QED BY <3>3, <3>5, <3>8 DEF Excused
  <2>. QED BY <1>4, <2>1, <2>2, <2>3, <2>4, <2>5 DEF WorkerStep
<1>5. ASSUME NEW w \in Workers, NEW p \in Orders,
             RequestPay(w, p) \/ RequestPayFails(w, p) \/ InsertOrder(w, p)
      PROVE FALSE
  BY <1>3, <1>5 DEF RequestPay, RequestPayFails, InsertOrder, Statuses
<1>6. ASSUME NEW w \in Workers, NEW p \in Orders, NEW call \in Calls, Begin(w, p, call)
      PROVE FALSE
  BY <1>6 DEF Begin
<1>7. ASSUME NEW p \in Orders, Pay(p) \/ Close(p) \/ WaffoNotPaid(p) PROVE FALSE
  BY <1>3, <1>7 DEF Pay, Close, WaffoNotPaid, Statuses
<1>8. ASSUME NEW n \in Nodes, Crash(n) PROVE FALSE
  BY <1>8 DEF Crash
<1>. QED BY <1>4, <1>5, <1>6, <1>7, <1>8 DEF Next

\* An order that has ended keeps its status, but for the failed save of a refused Waffo
\* request and the stale save of EpayNotify or Stripe's async_payment_failed while two
\* nodes serve the order.
THEOREM EndIsKept == Spec => EndedStays
<1>1. IInv /\ [Next]_vars =>
        [\A o \in Orders :
           status[o] \in Ended /\ status'[o] # status[o] =>
             \/ provider[o] \in {"waffo", "waffo_pancake"} /\ "request" \in spoiled'[o]
             \/ provider[o] \in {"epay", "stripe"} /\ Overtaken(o)']_vars
  BY StatusStep DEF Excused
<1>. QED BY <1>1, Invariance, PTL DEF Spec, EndedStays
=============================================================================
