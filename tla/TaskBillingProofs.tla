--------------------------- MODULE TaskBillingProofs ---------------------------
(***************************************************************************)
(* Proofs about TaskBilling, for any sets of tasks and polling nodes, with *)
(* overlapping passes, any number of failing statements and of crashes.    *)
(* What the invariant says of video tasks it says task by task, and all    *)
(* steps but those of a whole pass change the entries of one task (Others) *)
(* and of one poller (Peers).                                              *)
(***************************************************************************)
EXTENDS TaskBilling, TLAPS

USE DEF At, ChargeFunding, ChargeToken, Continued, Written, rowVars, accounts, pollVars,
        userVars, Billing, BillingPCs, Unended, Ended

\* The entries of the tasks other than t stay.
Others(t) ==
  \A u \in Tasks \ {t}:
    /\ UNCHANGED <<stage[u], row[u], charged[u], token[u], missed[u], missedToken[u], disturbed[u]>>
    /\ \A q \in Pollers: work'[q][u] = work[q][u]

\* The other passes keep their copies of t.
Peers(p, t) == \A q \in Pollers \ {p}: work'[q][t] = work[q][t]

\* The copy of a row that a pass holds, and the row, have their types.
LEMMA Entries ==
  ASSUME TypeOK, NEW t \in Tasks
  PROVE  /\ row[t] \in Rows /\ charged[t] \in Int /\ token[t] \in Int /\ missed[t] \in Int /\ missedToken[t] \in Int
         /\ disturbed[t] \in SUBSET Reasons /\ kind[t] \in Kinds
         /\ \A p \in Pollers: work[p][t] \in Works
         /\ fetch[t] \in Works
BY DEF TypeOK

\* The numbers among them.
LEMMA Numbers ==
  ASSUME TypeOK, NEW t \in Tasks
  PROVE  /\ row[t].quota \in Nat /\ row[t].status \in Statuses /\ row[t].done \in BOOLEAN
         /\ row[t].submit \in SubmitTimes \cup {0}
         /\ \A p \in Pollers: /\ work[p][t].quota \in Nat /\ work[p][t].bill \in Nat
                              /\ work[p][t].pc \in WorkPCs /\ work[p][t].next \in {"idle", "save"}
                              /\ work[p][t].from \in Statuses /\ work[p][t].status \in Statuses
                              /\ work[p][t].done \in BOOLEAN
BY Entries DEF Works, Rows

\* The fields of Idle.
LEMMA IdleFields ==
  Idle \in Works /\ Idle.pc = "idle" /\ Idle.next = "idle" /\ Idle.quota = 0 /\ Idle.bill = 0
BY DEF Idle, Works, WorkPCs, Statuses

\* The fields of a copy.
LEMMA CopyFields ==
  ASSUME TypeOK, NEW t \in Tasks, NEW label \in {"timedout", "loaded"}
  PROVE  /\ Copy(t, label) \in Works /\ Copy(t, label).pc = label
         /\ Copy(t, label).next = "idle" /\ Copy(t, label).from = row[t].status
         /\ Copy(t, label).quota = row[t].quota
<1>1. row[t] \in Rows BY Entries
<1>2. row[t].status \in Statuses /\ row[t].quota \in Nat BY <1>1 DEF Rows
<1> QED BY <1>2 DEF Copy, Idle, Works, WorkPCs, Statuses

\* A step that changes the copy of t that p holds.
LEMMA WorkFrame ==
  ASSUME TypeOK, NEW p \in Pollers, NEW t \in Tasks, NEW w, Working(p, t, w),
         work'[p][t] \in Works
  PROVE  /\ work' \in [Pollers -> [Tasks -> Works]]
         /\ Peers(p, t)
         /\ \A u \in Tasks \ {t}, q \in Pollers: work'[q][u] = work[q][u]
BY DEF TypeOK, Working, Peers

\* A step in which nothing goes wrong leaves the marks.
LEMMA Undisturbing ==
  ASSUME TypeOK, NoFault
  PROVE  /\ disturbed' \in [Tasks -> SUBSET Reasons] /\ faults' \in Nat
         /\ \A u \in Tasks: disturbed'[u] = disturbed[u]
BY DEF TypeOK, NoFault

\* A step that disturbs t marks it, and leaves the marks of the other tasks.
LEMMA Disturbing ==
  ASSUME TypeOK, NEW t \in Tasks, NEW why \in Reasons, Fault(t) \/ Disturb(t, why)
  PROVE  /\ disturbed' \in [Tasks -> SUBSET Reasons] /\ faults' \in Nat
         /\ disturbed'[t] # {}
         /\ \A u \in Tasks \ {t}: disturbed'[u] = disturbed[u]
<1>1. ASSUME NEW v \in Reasons, disturbed' = [disturbed EXCEPT ![t] = @ \cup {v}]
      PROVE  /\ disturbed' \in [Tasks -> SUBSET Reasons]
             /\ v \in disturbed'[t]
             /\ \A u \in Tasks \ {t}: disturbed'[u] = disturbed[u]
  BY <1>1 DEF TypeOK
<1>2. "fault" \in Reasons BY DEF Reasons
<1>3. faults' \in Nat BY DEF TypeOK, Fault, Disturb
<1> QED BY <1>1, <1>2, <1>3 DEF Fault, Disturb

\* The row of a task that is being billed has ended, and no other pass bills it.
LEMMA Alone ==
  ASSUME NEW t \in Tasks, VideoInv(t), NEW p \in Pollers, Billing(p, t)
  PROVE  /\ row[t].status \notin Unended /\ row[t].status # "NONE"
         /\ \A q \in Pollers \ {p}: ~Billing(q, t)
BY DEF VideoInv, OpenRow, AbsentRow, OneBiller

\* A task whose entries stay keeps its part of the invariant.
LEMMA Frame ==
  ASSUME NEW u \in Tasks, VideoInv(u),
         UNCHANGED <<stage[u], row[u], charged[u], token[u], missed[u], missedToken[u], disturbed[u]>>,
         \A q \in Pollers: work'[q][u] = work[q][u]
  PROVE  VideoInv(u)'
BY DEF VideoInv, OpenRow, AbsentRow, NotYet, OneBiller, Undisturbed, WorkShape

\* So a step of t has to be looked at for t only.
LEMMA OneTask ==
  ASSUME Owned, NEW t \in Tasks, TypeOK', Others(t), kind' = kind,
         kind[t] = "video" => VideoInv(t)'
  PROVE  Owned'
<1>1. ASSUME NEW u \in Tasks \ {t}, kind[u] = "video" PROVE VideoInv(u)'
  BY <1>1, Frame DEF Owned, Others
<1> QED BY <1>1 DEF Owned

-----------------------------------------------------------------------------
(* Steps of a pass on one task. *)

\* SweepTask keeps the invariant.
LEMMA SweepTaskStep ==
  ASSUME Owned, NEW p \in Pollers, NEW t \in Tasks, SweepTask(p, t)
  PROVE  Owned'
<1>1. TypeOK BY DEF Owned
<1>2. /\ work[p][t].pc = "timedout" /\ row[t].status = work[p][t].from
      /\ row'[t].status = "FAILURE" /\ row'[t].done /\ row'[t].quota = work[p][t].quota
      /\ \/ work'[p][t] = Idle /\ IsLegacy(t)
         \/ work[p][t].quota # 0 /\ work'[p][t].pc = "refund" /\ work'[p][t].quota = work[p][t].quota /\ work'[p][t].next = work[p][t].next
         \/ work[p][t].quota = 0 /\ work'[p][t] = Idle
      /\ UNCHANGED <<stage[t], charged[t], token[t], missed[t], missedToken[t]>>
      /\ work'[p][t] \in Works /\ row'[t] \in Rows
  BY <1>1, Entries, Numbers, IdleFields, QuotasAssumption DEF SweepTask, Wins, Working, Goto, TypeOK, Works, WorkPCs, Rows, Statuses
<1>3. /\ disturbed' \in [Tasks -> SUBSET Reasons] /\ faults' \in Nat
      /\ \/ disturbed'[t] = disturbed[t] /\ ~IsLegacy(t)
         \/ disturbed'[t] # {}
      /\ \A u \in Tasks \ {t}: disturbed'[u] = disturbed[u]
  BY <1>1, Undisturbing, Disturbing DEF SweepTask, Reasons
<1>4. PICK w: Working(p, t, w) BY DEF SweepTask, Goto
<1>5. /\ work' \in [Pollers -> [Tasks -> Works]]
      /\ Peers(p, t)
      /\ \A u \in Tasks \ {t}, q \in Pollers: work'[q][u] = work[q][u]
  BY <1>1, <1>2, <1>4, WorkFrame
<1>6. Others(t) /\ kind' = kind
  BY <1>1, <1>3, <1>5 DEF SweepTask, Wins, TypeOK, Others
<1>7. charged'[t] \in Int /\ token'[t] \in Int
  BY <1>1, <1>2, Entries, Numbers
<1>8. TypeOK'
  BY <1>1, <1>2, <1>3, <1>5, <1>7 DEF SweepTask, Wins, TypeOK
<1>9. ASSUME kind[t] = "video" PROVE VideoInv(t)'
  <2>1. VideoInv(t) BY <1>9 DEF Owned
  <2>2. WorkShape(p, t) BY <2>1 DEF VideoInv
  <2>3. /\ charged[t] \in Int /\ token[t] \in Int /\ missed[t] \in Int /\ missedToken[t] \in Int
        /\ work[p][t].quota \in Nat /\ work[p][t].bill \in Nat /\ row[t].quota \in Nat
    BY <1>1, Entries, Numbers
  <2>4. OpenRow(t)'
    BY <1>2, <1>3, <1>5, <2>1, <2>2, <2>3, IdleFields
    DEF VideoInv, AbsentRow, OneBiller, OpenRow, WorkShape, Peers
  <2>5. AbsentRow(t)'
    BY <1>2, <1>3, <1>5, <2>1, <2>2, <2>3, IdleFields
    DEF VideoInv, AbsentRow, OneBiller, OpenRow, WorkShape, Peers
  <2>6. NotYet(t)'
    BY <1>2, <1>3, <1>5, <2>1, <2>2, <2>3, IdleFields
    DEF VideoInv, AbsentRow, NotYet
  <2>7. OneBiller(t)'
    BY <1>2, <1>3, <1>5, <2>1, <2>2, <2>3, IdleFields
    DEF VideoInv, AbsentRow, OneBiller, OpenRow, WorkShape, Peers
  <2>8. Undisturbed(t)'
    BY <1>2, <1>3, <1>5, <2>1, <2>2, <2>3, IdleFields
    DEF VideoInv, AbsentRow, OneBiller, OpenRow, Undisturbed, WorkShape, Peers
  <2>9. ASSUME NEW q \in Pollers PROVE WorkShape(q, t)'
    BY <1>2, <1>3, <1>5, <2>1, <2>2, <2>3, IdleFields
    DEF VideoInv, OpenRow, AbsentRow, OneBiller, Undisturbed, WorkShape, Peers
  <2>10. charged'[t] + missed'[t] >= 0
    BY <1>2, <2>1, <2>2, <2>3 DEF VideoInv, WorkShape
  <2> QED BY <2>4, <2>5, <2>6, <2>7, <2>8, <2>9, <2>10 DEF VideoInv
<1> QED BY <1>6, <1>8, <1>9, OneTask

\* SweepSkips keeps the invariant.
LEMMA SweepSkipsStep ==
  ASSUME Owned, NEW p \in Pollers, NEW t \in Tasks, SweepSkips(p, t)
  PROVE  Owned'
<1>1. TypeOK BY DEF Owned
<1>2. /\ work[p][t].pc = "timedout" /\ work'[p][t] = Idle
      /\ UNCHANGED <<stage[t], row[t], charged[t], token[t], missed[t], missedToken[t]>>
      /\ work'[p][t] \in Works /\ row'[t] \in Rows
  BY <1>1, Entries, Numbers, IdleFields, QuotasAssumption DEF SweepSkips, Wins, Working, Goto, TypeOK, Works, WorkPCs, Rows, Statuses
<1>3. /\ disturbed' \in [Tasks -> SUBSET Reasons] /\ faults' \in Nat
      /\ disturbed'[t] = disturbed[t] \/ disturbed'[t] # {}
      /\ \A u \in Tasks \ {t}: disturbed'[u] = disturbed[u]
  BY <1>1, Undisturbing, Disturbing DEF SweepSkips, Reasons
<1>4. PICK w: Working(p, t, w) BY DEF SweepSkips, Goto
<1>5. /\ work' \in [Pollers -> [Tasks -> Works]]
      /\ Peers(p, t)
      /\ \A u \in Tasks \ {t}, q \in Pollers: work'[q][u] = work[q][u]
  BY <1>1, <1>2, <1>4, WorkFrame
<1>6. Others(t) /\ kind' = kind
  BY <1>1, <1>3, <1>5 DEF SweepSkips, Wins, TypeOK, Others
<1>7. charged'[t] \in Int /\ token'[t] \in Int
  BY <1>1, <1>2, Entries, Numbers
<1>8. TypeOK'
  BY <1>1, <1>2, <1>3, <1>5, <1>7 DEF SweepSkips, Wins, TypeOK
<1>9. ASSUME kind[t] = "video" PROVE VideoInv(t)'
  <2>1. VideoInv(t) BY <1>9 DEF Owned
  <2>2. WorkShape(p, t) BY <2>1 DEF VideoInv
  <2>3. /\ charged[t] \in Int /\ token[t] \in Int /\ missed[t] \in Int /\ missedToken[t] \in Int
        /\ work[p][t].quota \in Nat /\ work[p][t].bill \in Nat /\ row[t].quota \in Nat
    BY <1>1, Entries, Numbers
  <2>4. OpenRow(t)'
    BY <1>2, <1>3, <1>5, <2>1, <2>2, <2>3, IdleFields
    DEF VideoInv, AbsentRow, OneBiller, OpenRow, WorkShape, Peers
  <2>5. AbsentRow(t)'
    BY <1>2, <1>3, <1>5, <2>1, <2>2, <2>3, IdleFields
    DEF VideoInv, AbsentRow, OneBiller, OpenRow, WorkShape, Peers
  <2>6. NotYet(t)'
    BY <1>2, <1>3, <1>5, <2>1, <2>2, <2>3, IdleFields
    DEF VideoInv, AbsentRow, NotYet
  <2>7. OneBiller(t)'
    BY <1>2, <1>3, <1>5, <2>1, <2>2, <2>3, IdleFields
    DEF VideoInv, AbsentRow, OneBiller, OpenRow, WorkShape, Peers
  <2>8. Undisturbed(t)'
    BY <1>2, <1>3, <1>5, <2>1, <2>2, <2>3, IdleFields
    DEF VideoInv, Undisturbed, Peers
  <2>9. ASSUME NEW q \in Pollers PROVE WorkShape(q, t)'
    BY <1>2, <1>3, <1>5, <2>1, <2>2, <2>3, IdleFields
    DEF VideoInv, OpenRow, AbsentRow, OneBiller, Undisturbed, WorkShape, Peers
  <2>10. charged'[t] + missed'[t] >= 0
    BY <1>2, <2>1, <2>2, <2>3 DEF VideoInv, WorkShape
  <2> QED BY <2>4, <2>5, <2>6, <2>7, <2>8, <2>9, <2>10 DEF VideoInv
<1> QED BY <1>6, <1>8, <1>9, OneTask

\* PollSkips keeps the invariant.
LEMMA PollSkipsStep ==
  ASSUME Owned, NEW p \in Pollers, NEW t \in Tasks, PollSkips(p, t)
  PROVE  Owned'
<1>1. TypeOK BY DEF Owned
<1>2. /\ work[p][t].pc = "loaded" /\ work'[p][t] = Idle
      /\ UNCHANGED <<stage[t], row[t], charged[t], token[t], missed[t], missedToken[t]>>
      /\ work'[p][t] \in Works /\ row'[t] \in Rows
  BY <1>1, Entries, Numbers, IdleFields, QuotasAssumption DEF PollSkips, Working, Goto, TypeOK, Works, WorkPCs, Rows, Statuses
<1>3. /\ disturbed' \in [Tasks -> SUBSET Reasons] /\ faults' \in Nat
      /\ disturbed'[t] = disturbed[t]
      /\ \A u \in Tasks \ {t}: disturbed'[u] = disturbed[u]
  BY <1>1, Undisturbing DEF PollSkips
<1>4. PICK w: Working(p, t, w) BY DEF PollSkips, Goto
<1>5. /\ work' \in [Pollers -> [Tasks -> Works]]
      /\ Peers(p, t)
      /\ \A u \in Tasks \ {t}, q \in Pollers: work'[q][u] = work[q][u]
  BY <1>1, <1>2, <1>4, WorkFrame
<1>6. Others(t) /\ kind' = kind
  BY <1>1, <1>3, <1>5 DEF PollSkips, TypeOK, Others
<1>7. charged'[t] \in Int /\ token'[t] \in Int
  BY <1>1, <1>2, Entries, Numbers
<1>8. TypeOK'
  BY <1>1, <1>2, <1>3, <1>5, <1>7 DEF PollSkips, TypeOK
<1>9. ASSUME kind[t] = "video" PROVE VideoInv(t)'
  <2>1. VideoInv(t) BY <1>9 DEF Owned
  <2>2. WorkShape(p, t) BY <2>1 DEF VideoInv
  <2>3. /\ charged[t] \in Int /\ token[t] \in Int /\ missed[t] \in Int /\ missedToken[t] \in Int
        /\ work[p][t].quota \in Nat /\ work[p][t].bill \in Nat /\ row[t].quota \in Nat
    BY <1>1, Entries, Numbers
  <2>4. OpenRow(t)'
    <3>1. \A q \in Pollers: work'[q][t] = Idle \/ work'[q][t] = work[q][t]
      BY <1>2, <1>5 DEF Peers
    <3>2. OpenRow(t) BY <2>1 DEF VideoInv
    <3> QED BY <1>2, <3>1, <3>2, IdleFields DEF OpenRow
  <2>5. AbsentRow(t)'
    BY <1>2, <1>3, <1>5, <2>1, <2>2, <2>3, IdleFields
    DEF VideoInv, AbsentRow, OneBiller, OpenRow, WorkShape, Peers
  <2>6. NotYet(t)'
    BY <1>2, <1>3, <1>5, <2>1, <2>2, <2>3, IdleFields
    DEF VideoInv, AbsentRow, NotYet
  <2>7. OneBiller(t)'
    BY <1>2, <1>3, <1>5, <2>1, <2>2, <2>3, IdleFields
    DEF VideoInv, AbsentRow, OneBiller, OpenRow, WorkShape, Peers
  <2>8. Undisturbed(t)'
    BY <1>2, <1>3, <1>5, <2>1, <2>2, <2>3, IdleFields
    DEF VideoInv, Undisturbed, Peers
  <2>9. ASSUME NEW q \in Pollers PROVE WorkShape(q, t)'
    BY <1>2, <1>3, <1>5, <2>1, <2>2, <2>3, IdleFields
    DEF VideoInv, OpenRow, AbsentRow, OneBiller, Undisturbed, WorkShape, Peers
  <2>10. charged'[t] + missed'[t] >= 0
    BY <1>2, <2>1, <2>2, <2>3 DEF VideoInv, WorkShape
  <2> QED BY <2>4, <2>5, <2>6, <2>7, <2>8, <2>9, <2>10 DEF VideoInv
<1> QED BY <1>6, <1>8, <1>9, OneTask

\* VideoProgress keeps the invariant.
LEMMA VideoProgressStep ==
  ASSUME Owned, NEW p \in Pollers, NEW t \in Tasks, NEW done \in BOOLEAN,
         VideoProgress(p, t, done)
  PROVE  Owned'
<1>1. TypeOK BY DEF Owned
<1>2. /\ work[p][t].pc = "loaded" /\ row[t].status = work[p][t].from /\ work'[p][t] = Idle
      /\ row'[t].status = "IN_PROGRESS" /\ row'[t].quota = work[p][t].quota
      /\ UNCHANGED <<stage[t], charged[t], token[t], missed[t], missedToken[t]>>
      /\ work'[p][t] \in Works /\ row'[t] \in Rows
  BY <1>1, Entries, Numbers, IdleFields, QuotasAssumption DEF VideoProgress, Video, Wins, Working, Goto, TypeOK, Works, WorkPCs, Rows, Statuses
<1>3. /\ disturbed' \in [Tasks -> SUBSET Reasons] /\ faults' \in Nat
      /\ disturbed'[t] = disturbed[t]
      /\ \A u \in Tasks \ {t}: disturbed'[u] = disturbed[u]
  BY <1>1, Undisturbing DEF VideoProgress
<1>4. PICK w: Working(p, t, w) BY DEF VideoProgress, Goto
<1>5. /\ work' \in [Pollers -> [Tasks -> Works]]
      /\ Peers(p, t)
      /\ \A u \in Tasks \ {t}, q \in Pollers: work'[q][u] = work[q][u]
  BY <1>1, <1>2, <1>4, WorkFrame
<1>6. Others(t) /\ kind' = kind
  BY <1>1, <1>3, <1>5 DEF VideoProgress, Video, Wins, TypeOK, Others
<1>7. charged'[t] \in Int /\ token'[t] \in Int
  BY <1>1, <1>2, Entries, Numbers
<1>8. TypeOK'
  BY <1>1, <1>2, <1>3, <1>5, <1>7 DEF VideoProgress, Video, Wins, TypeOK
<1>9. ASSUME kind[t] = "video" PROVE VideoInv(t)'
  <2>1. VideoInv(t) BY <1>9 DEF Owned
  <2>2. WorkShape(p, t) BY <2>1 DEF VideoInv
  <2>3. /\ charged[t] \in Int /\ token[t] \in Int /\ missed[t] \in Int /\ missedToken[t] \in Int
        /\ work[p][t].quota \in Nat /\ work[p][t].bill \in Nat /\ row[t].quota \in Nat
    BY <1>1, Entries, Numbers
  <2>4. OpenRow(t)'
    <3>1. OpenRow(t) /\ row[t].status \in Unended BY <1>2, <2>1, <2>2 DEF VideoInv, WorkShape
    <3>2. row'[t].quota = row[t].quota BY <1>2, <3>1 DEF OpenRow
    <3>3. \A q \in Pollers: work'[q][t] = Idle \/ work'[q][t] = work[q][t]
      BY <1>2, <1>5 DEF Peers
    <3>4. \A q \in Pollers: ~Billing(q, t)'
      BY <3>1, <3>3, IdleFields DEF OpenRow
    <3>5. \A q \in Pollers: ~At(q, t, "idle")' => work'[q][t].quota = row'[t].quota
      BY <3>1, <3>2, <3>3, IdleFields DEF OpenRow
    <3>6. charged'[t] + missed'[t] = row'[t].quota /\ token'[t] + missedToken'[t] = row'[t].quota
      BY <1>2, <3>1, <3>2 DEF OpenRow
    <3> QED BY <3>4, <3>5, <3>6 DEF OpenRow
  <2>5. AbsentRow(t)'
    BY <1>2, <1>3, <1>5, <2>1, <2>2, <2>3, IdleFields
    DEF VideoInv, AbsentRow, OneBiller, OpenRow, WorkShape, Peers
  <2>6. NotYet(t)'
    BY <1>2, <1>3, <1>5, <2>1, <2>2, <2>3, IdleFields
    DEF VideoInv, AbsentRow, NotYet
  <2>7. OneBiller(t)'
    BY <1>2, <1>3, <1>5, <2>1, <2>2, <2>3, IdleFields
    DEF VideoInv, AbsentRow, OneBiller, OpenRow, WorkShape, Peers
  <2>8. Undisturbed(t)'
    BY <1>2, <1>3, <1>5, <2>1, <2>2, <2>3, IdleFields
    DEF VideoInv, AbsentRow, OneBiller, OpenRow, Undisturbed, WorkShape, Peers
  <2>9. ASSUME NEW q \in Pollers PROVE WorkShape(q, t)'
    BY <1>2, <1>3, <1>5, <2>1, <2>2, <2>3, IdleFields
    DEF VideoInv, OpenRow, AbsentRow, OneBiller, Undisturbed, WorkShape, Peers
  <2>10. charged'[t] + missed'[t] >= 0
    BY <1>2, <2>1, <2>2, <2>3 DEF VideoInv, WorkShape
  <2> QED BY <2>4, <2>5, <2>6, <2>7, <2>8, <2>9, <2>10 DEF VideoInv
<1> QED BY <1>6, <1>8, <1>9, OneTask

\* VideoFailure keeps the invariant.
LEMMA VideoFailureStep ==
  ASSUME Owned, NEW p \in Pollers, NEW t \in Tasks, VideoFailure(p, t)
  PROVE  Owned'
<1>1. TypeOK BY DEF Owned
<1>2. /\ work[p][t].pc = "loaded" /\ row[t].status = work[p][t].from
      /\ row'[t].status = "FAILURE" /\ row'[t].done /\ row'[t].quota = work[p][t].quota
      /\ \/ work[p][t].quota # 0 /\ work'[p][t].pc = "refund" /\ work'[p][t].quota = work[p][t].quota /\ work'[p][t].next = work[p][t].next
         \/ work[p][t].quota = 0 /\ work'[p][t] = Idle
      /\ UNCHANGED <<stage[t], charged[t], token[t], missed[t], missedToken[t]>>
      /\ work'[p][t] \in Works /\ row'[t] \in Rows
  BY <1>1, Entries, Numbers, IdleFields, QuotasAssumption DEF VideoFailure, Video, Wins, Working, Goto, TypeOK, Works, WorkPCs, Rows, Statuses
<1>3. /\ disturbed' \in [Tasks -> SUBSET Reasons] /\ faults' \in Nat
      /\ disturbed'[t] = disturbed[t]
      /\ \A u \in Tasks \ {t}: disturbed'[u] = disturbed[u]
  BY <1>1, Undisturbing DEF VideoFailure
<1>4. PICK w: Working(p, t, w) BY DEF VideoFailure, Goto
<1>5. /\ work' \in [Pollers -> [Tasks -> Works]]
      /\ Peers(p, t)
      /\ \A u \in Tasks \ {t}, q \in Pollers: work'[q][u] = work[q][u]
  BY <1>1, <1>2, <1>4, WorkFrame
<1>6. Others(t) /\ kind' = kind
  BY <1>1, <1>3, <1>5 DEF VideoFailure, Video, Wins, TypeOK, Others
<1>7. charged'[t] \in Int /\ token'[t] \in Int
  BY <1>1, <1>2, Entries, Numbers
<1>8. TypeOK'
  BY <1>1, <1>2, <1>3, <1>5, <1>7 DEF VideoFailure, Video, Wins, TypeOK
<1>9. ASSUME kind[t] = "video" PROVE VideoInv(t)'
  <2>1. VideoInv(t) BY <1>9 DEF Owned
  <2>2. WorkShape(p, t) BY <2>1 DEF VideoInv
  <2>3. /\ charged[t] \in Int /\ token[t] \in Int /\ missed[t] \in Int /\ missedToken[t] \in Int
        /\ work[p][t].quota \in Nat /\ work[p][t].bill \in Nat /\ row[t].quota \in Nat
    BY <1>1, Entries, Numbers
  <2>4. OpenRow(t)'
    BY <1>2, <1>3, <1>5, <2>1, <2>2, <2>3, IdleFields
    DEF VideoInv, AbsentRow, OneBiller, OpenRow, WorkShape, Peers
  <2>5. AbsentRow(t)'
    BY <1>2, <1>3, <1>5, <2>1, <2>2, <2>3, IdleFields
    DEF VideoInv, AbsentRow, OneBiller, OpenRow, WorkShape, Peers
  <2>6. NotYet(t)'
    BY <1>2, <1>3, <1>5, <2>1, <2>2, <2>3, IdleFields
    DEF VideoInv, AbsentRow, NotYet
  <2>7. OneBiller(t)'
    BY <1>2, <1>3, <1>5, <2>1, <2>2, <2>3, IdleFields
    DEF VideoInv, AbsentRow, OneBiller, OpenRow, WorkShape, Peers
  <2>8. Undisturbed(t)'
    BY <1>2, <1>3, <1>5, <2>1, <2>2, <2>3, IdleFields
    DEF VideoInv, AbsentRow, OneBiller, OpenRow, Undisturbed, WorkShape, Peers
  <2>9. ASSUME NEW q \in Pollers PROVE WorkShape(q, t)'
    BY <1>2, <1>3, <1>5, <2>1, <2>2, <2>3, IdleFields
    DEF VideoInv, OpenRow, AbsentRow, OneBiller, Undisturbed, WorkShape, Peers
  <2>10. charged'[t] + missed'[t] >= 0
    BY <1>2, <2>1, <2>2, <2>3 DEF VideoInv, WorkShape
  <2> QED BY <2>4, <2>5, <2>6, <2>7, <2>8, <2>9, <2>10 DEF VideoInv
<1> QED BY <1>6, <1>8, <1>9, OneTask

\* VideoSuccess keeps the invariant.
LEMMA VideoSuccessStep ==
  ASSUME Owned, NEW p \in Pollers, NEW t \in Tasks, NEW actual \in Quotas \cup {0},
         NEW done \in BOOLEAN, VideoSuccess(p, t, actual, done)
  PROVE  Owned'
<1>1. TypeOK BY DEF Owned
<1>2. /\ work[p][t].pc = "loaded" /\ row[t].status = work[p][t].from
      /\ row'[t].status = "SUCCESS" /\ row'[t].quota = work[p][t].quota
      /\ \/ work'[p][t] = Idle
         \/ work'[p][t].pc = "settle" /\ work'[p][t].quota = work[p][t].quota /\ work'[p][t].next = "idle"
      /\ UNCHANGED <<stage[t], charged[t], token[t], missed[t], missedToken[t]>>
      /\ work'[p][t] \in Works /\ row'[t] \in Rows
  <2> DEFINE v == Continued(work[p][t], "settle", "SUCCESS", done, actual, "idle")
  <2>1. actual \in Nat BY QuotasAssumption
  <2>2. v \in Works /\ v.pc = "settle" /\ v.quota = work[p][t].quota /\ v.next = "idle"
    BY <1>1, <2>1, Numbers DEF Works, WorkPCs, Statuses
  <2>3. work'[p][t] \in {v, Idle}
    BY <1>1 DEF VideoSuccess, Working, TypeOK
  <2> HIDE DEF v
  <2>4. /\ work[p][t].pc = "loaded" /\ row[t].status = work[p][t].from
        /\ row'[t].status = "SUCCESS" /\ row'[t].quota = work[p][t].quota
        /\ UNCHANGED <<stage[t], charged[t], token[t], missed[t], missedToken[t]>>
        /\ row'[t] \in Rows
    BY <1>1, Numbers DEF VideoSuccess, Video, Wins, TypeOK, Rows, Statuses
  <2> QED BY <2>2, <2>3, <2>4, IdleFields
<1>3. /\ disturbed' \in [Tasks -> SUBSET Reasons] /\ faults' \in Nat
      /\ disturbed'[t] = disturbed[t]
      /\ \A u \in Tasks \ {t}: disturbed'[u] = disturbed[u]
  BY <1>1, Undisturbing DEF VideoSuccess
<1>4. PICK w: Working(p, t, w) BY DEF VideoSuccess, Goto
<1>5. /\ work' \in [Pollers -> [Tasks -> Works]]
      /\ Peers(p, t)
      /\ \A u \in Tasks \ {t}, q \in Pollers: work'[q][u] = work[q][u]
  BY <1>1, <1>2, <1>4, WorkFrame
<1>6. Others(t) /\ kind' = kind
  BY <1>1, <1>3, <1>5 DEF VideoSuccess, Video, Wins, TypeOK, Others
<1>7. charged'[t] \in Int /\ token'[t] \in Int
  BY <1>1, <1>2, Entries, Numbers
<1>8. TypeOK'
  BY <1>1, <1>2, <1>3, <1>5, <1>7 DEF VideoSuccess, Video, Wins, TypeOK
<1>9. ASSUME kind[t] = "video" PROVE VideoInv(t)'
  <2>1. VideoInv(t) BY <1>9 DEF Owned
  <2>2. WorkShape(p, t) BY <2>1 DEF VideoInv
  <2>3. /\ charged[t] \in Int /\ token[t] \in Int /\ missed[t] \in Int /\ missedToken[t] \in Int
        /\ work[p][t].quota \in Nat /\ work[p][t].bill \in Nat /\ row[t].quota \in Nat
    BY <1>1, Entries, Numbers
  <2>4. OpenRow(t)'
    BY <1>2, <1>3, <1>5, <2>1, <2>2, <2>3, IdleFields
    DEF VideoInv, AbsentRow, OneBiller, OpenRow, WorkShape, Peers
  <2>5. AbsentRow(t)'
    BY <1>2, <1>3, <1>5, <2>1, <2>2, <2>3, IdleFields
    DEF VideoInv, AbsentRow, OneBiller, OpenRow, WorkShape, Peers
  <2>6. NotYet(t)'
    BY <1>2, <1>3, <1>5, <2>1, <2>2, <2>3, IdleFields
    DEF VideoInv, AbsentRow, NotYet
  <2>7. OneBiller(t)'
    BY <1>2, <1>3, <1>5, <2>1, <2>2, <2>3, IdleFields
    DEF VideoInv, AbsentRow, OneBiller, OpenRow, WorkShape, Peers
  <2>8. Undisturbed(t)'
    BY <1>2, <1>3, <1>5, <2>1, <2>2, <2>3, IdleFields
    DEF VideoInv, AbsentRow, OneBiller, OpenRow, Undisturbed, WorkShape, Peers
  <2>9. ASSUME NEW q \in Pollers PROVE WorkShape(q, t)'
    BY <1>2, <1>3, <1>5, <2>1, <2>2, <2>3, IdleFields
    DEF VideoInv, OpenRow, AbsentRow, OneBiller, Undisturbed, WorkShape, Peers
  <2>10. charged'[t] + missed'[t] >= 0
    BY <1>2, <2>1, <2>2, <2>3 DEF VideoInv, WorkShape
  <2> QED BY <2>4, <2>5, <2>6, <2>7, <2>8, <2>9, <2>10 DEF VideoInv
<1> QED BY <1>6, <1>8, <1>9, OneTask

\* VideoSkips keeps the invariant.
LEMMA VideoSkipsStep ==
  ASSUME Owned, NEW p \in Pollers, NEW t \in Tasks, VideoSkips(p, t)
  PROVE  Owned'
<1>1. TypeOK BY DEF Owned
<1>2. /\ work[p][t].pc = "loaded" /\ work'[p][t] = Idle
      /\ UNCHANGED <<stage[t], row[t], charged[t], token[t], missed[t], missedToken[t]>>
      /\ work'[p][t] \in Works /\ row'[t] \in Rows
  BY <1>1, Entries, Numbers, IdleFields, QuotasAssumption DEF VideoSkips, Video, Wins, Working, Goto, TypeOK, Works, WorkPCs, Rows, Statuses
<1>3. /\ disturbed' \in [Tasks -> SUBSET Reasons] /\ faults' \in Nat
      /\ disturbed'[t] = disturbed[t] \/ disturbed'[t] # {}
      /\ \A u \in Tasks \ {t}: disturbed'[u] = disturbed[u]
  BY <1>1, Undisturbing, Disturbing DEF VideoSkips, Reasons
<1>4. PICK w: Working(p, t, w) BY DEF VideoSkips, Goto
<1>5. /\ work' \in [Pollers -> [Tasks -> Works]]
      /\ Peers(p, t)
      /\ \A u \in Tasks \ {t}, q \in Pollers: work'[q][u] = work[q][u]
  BY <1>1, <1>2, <1>4, WorkFrame
<1>6. Others(t) /\ kind' = kind
  BY <1>1, <1>3, <1>5 DEF VideoSkips, Video, Wins, TypeOK, Others
<1>7. charged'[t] \in Int /\ token'[t] \in Int
  BY <1>1, <1>2, Entries, Numbers
<1>8. TypeOK'
  BY <1>1, <1>2, <1>3, <1>5, <1>7 DEF VideoSkips, Video, Wins, TypeOK
<1>9. ASSUME kind[t] = "video" PROVE VideoInv(t)'
  <2>1. VideoInv(t) BY <1>9 DEF Owned
  <2>2. WorkShape(p, t) BY <2>1 DEF VideoInv
  <2>3. /\ charged[t] \in Int /\ token[t] \in Int /\ missed[t] \in Int /\ missedToken[t] \in Int
        /\ work[p][t].quota \in Nat /\ work[p][t].bill \in Nat /\ row[t].quota \in Nat
    BY <1>1, Entries, Numbers
  <2>4. OpenRow(t)'
    BY <1>2, <1>3, <1>5, <2>1, <2>2, <2>3, IdleFields
    DEF VideoInv, AbsentRow, OneBiller, OpenRow, WorkShape, Peers
  <2>5. AbsentRow(t)'
    BY <1>2, <1>3, <1>5, <2>1, <2>2, <2>3, IdleFields
    DEF VideoInv, AbsentRow, OneBiller, OpenRow, WorkShape, Peers
  <2>6. NotYet(t)'
    BY <1>2, <1>3, <1>5, <2>1, <2>2, <2>3, IdleFields
    DEF VideoInv, AbsentRow, NotYet
  <2>7. OneBiller(t)'
    BY <1>2, <1>3, <1>5, <2>1, <2>2, <2>3, IdleFields
    DEF VideoInv, AbsentRow, OneBiller, OpenRow, WorkShape, Peers
  <2>8. Undisturbed(t)'
    BY <1>2, <1>3, <1>5, <2>1, <2>2, <2>3, IdleFields
    DEF VideoInv, Undisturbed, Peers
  <2>9. ASSUME NEW q \in Pollers PROVE WorkShape(q, t)'
    BY <1>2, <1>3, <1>5, <2>1, <2>2, <2>3, IdleFields
    DEF VideoInv, OpenRow, AbsentRow, OneBiller, Undisturbed, WorkShape, Peers
  <2>10. charged'[t] + missed'[t] >= 0
    BY <1>2, <2>1, <2>2, <2>3 DEF VideoInv, WorkShape
  <2> QED BY <2>4, <2>5, <2>6, <2>7, <2>8, <2>9, <2>10 DEF VideoInv
<1> QED BY <1>6, <1>8, <1>9, OneTask

\* RefundFunding keeps the invariant.
LEMMA RefundFundingStep ==
  ASSUME Owned, NEW p \in Pollers, NEW t \in Tasks, RefundFunding(p, t)
  PROVE  Owned'
<1>1. TypeOK BY DEF Owned
<1>2. /\ work[p][t].pc = "refund" /\ work'[p][t].pc = "refundToken" /\ work'[p][t].quota = work[p][t].quota /\ work'[p][t].next = work[p][t].next
      /\ charged'[t] = charged[t] - work[p][t].quota
      /\ UNCHANGED <<stage[t], row[t], token[t], missed[t], missedToken[t]>>
      /\ work'[p][t] \in Works /\ row'[t] \in Rows
  BY <1>1, Entries, Numbers, IdleFields, QuotasAssumption DEF RefundFunding, Working, Goto, TypeOK, Works, WorkPCs, Rows, Statuses
<1>3. /\ disturbed' \in [Tasks -> SUBSET Reasons] /\ faults' \in Nat
      /\ disturbed'[t] = disturbed[t]
      /\ \A u \in Tasks \ {t}: disturbed'[u] = disturbed[u]
  BY <1>1, Undisturbing DEF RefundFunding
<1>4. PICK w: Working(p, t, w) BY DEF RefundFunding, Goto
<1>5. /\ work' \in [Pollers -> [Tasks -> Works]]
      /\ Peers(p, t)
      /\ \A u \in Tasks \ {t}, q \in Pollers: work'[q][u] = work[q][u]
  BY <1>1, <1>2, <1>4, WorkFrame
<1>6. Others(t) /\ kind' = kind
  BY <1>1, <1>3, <1>5 DEF RefundFunding, TypeOK, Others
<1>7. charged'[t] \in Int /\ token'[t] \in Int
  BY <1>1, <1>2, Entries, Numbers
<1>8. TypeOK'
  BY <1>1, <1>2, <1>3, <1>5, <1>7 DEF RefundFunding, TypeOK
<1>9. ASSUME kind[t] = "video" PROVE VideoInv(t)'
  <2>1. VideoInv(t) BY <1>9 DEF Owned
  <2>2. WorkShape(p, t) BY <2>1 DEF VideoInv
  <2>3. /\ charged[t] \in Int /\ token[t] \in Int /\ missed[t] \in Int /\ missedToken[t] \in Int
        /\ work[p][t].quota \in Nat /\ work[p][t].bill \in Nat /\ row[t].quota \in Nat
    BY <1>1, Entries, Numbers
  <2>4. /\ row[t].status \notin Unended /\ row[t].status # "NONE"
        /\ \A q \in Pollers \ {p}: ~Billing(q, t)
    BY <1>2, <2>1, Alone
  <2>5. OpenRow(t)'
    BY <1>2, <1>3, <1>5, <2>1, <2>2, <2>3, <2>4, IdleFields
    DEF WorkShape, OpenRow, Peers
  <2>6. AbsentRow(t)'
    BY <1>2, <1>3, <1>5, <2>1, <2>2, <2>3, <2>4, IdleFields
    DEF WorkShape, AbsentRow, Peers
  <2>7. NotYet(t)'
    BY <1>2, <1>3, <1>5, <2>1, <2>2, <2>3, <2>4, IdleFields
    DEF VideoInv, AbsentRow, NotYet
  <2>8. OneBiller(t)'
    BY <1>2, <1>3, <1>5, <2>1, <2>2, <2>3, <2>4, IdleFields
    DEF WorkShape, OneBiller, Peers
  <2>9. Undisturbed(t)'
    <3>1. Billing(p, t)' BY <1>2
    <3>2. disturbed[t] = {} => missed[t] = 0 /\ missedToken[t] = 0 /\ row[t].status = "FAILURE"
      BY <1>2, <2>1 DEF VideoInv, Undisturbed
    <3> QED BY <1>2, <1>3, <1>5, <2>4, <3>1, <3>2 DEF Undisturbed, Peers
  <2>10. WorkShape(p, t)'
    BY <1>2, <1>3, <1>5, <2>1, <2>2, <2>3, <2>4, IdleFields DEF WorkShape
  <2>11. ASSUME NEW q \in Pollers \ {p} PROVE WorkShape(q, t)'
    BY <1>2, <1>3, <1>5, <2>1, <2>4 DEF VideoInv, WorkShape, Peers
  <2>12. charged'[t] + missed'[t] >= 0
    BY <1>2, <2>1, <2>2, <2>3 DEF VideoInv, WorkShape
  <2> QED BY <2>5, <2>6, <2>7, <2>8, <2>9, <2>10, <2>11, <2>12 DEF VideoInv
<1> QED BY <1>6, <1>8, <1>9, OneTask

\* RefundFundingFails keeps the invariant.
LEMMA RefundFundingFailsStep ==
  ASSUME Owned, NEW p \in Pollers, NEW t \in Tasks, RefundFundingFails(p, t)
  PROVE  Owned'
<1>1. TypeOK BY DEF Owned
<1>2. /\ work[p][t].pc = "refund" /\ work'[p][t].pc = work[p][t].next /\ work'[p][t].quota = work[p][t].quota /\ work'[p][t].next = work[p][t].next
      /\ UNCHANGED <<stage[t], row[t], charged[t], token[t], missed[t], missedToken[t]>>
      /\ work'[p][t] \in Works /\ row'[t] \in Rows
  BY <1>1, Entries, Numbers, IdleFields, QuotasAssumption DEF RefundFundingFails, Working, Goto, TypeOK, Works, WorkPCs, Rows, Statuses
<1>3. /\ disturbed' \in [Tasks -> SUBSET Reasons] /\ faults' \in Nat
      /\ disturbed'[t] # {}
      /\ \A u \in Tasks \ {t}: disturbed'[u] = disturbed[u]
  BY <1>1, Disturbing DEF RefundFundingFails, Reasons
<1>4. PICK w: Working(p, t, w) BY DEF RefundFundingFails, Goto
<1>5. /\ work' \in [Pollers -> [Tasks -> Works]]
      /\ Peers(p, t)
      /\ \A u \in Tasks \ {t}, q \in Pollers: work'[q][u] = work[q][u]
  BY <1>1, <1>2, <1>4, WorkFrame
<1>6. Others(t) /\ kind' = kind
  BY <1>1, <1>3, <1>5 DEF RefundFundingFails, TypeOK, Others
<1>7. charged'[t] \in Int /\ token'[t] \in Int
  BY <1>1, <1>2, Entries, Numbers
<1>8. TypeOK'
  BY <1>1, <1>2, <1>3, <1>5, <1>7 DEF RefundFundingFails, TypeOK
<1>9. ASSUME kind[t] = "video" PROVE VideoInv(t)'
  <2>1. VideoInv(t) BY <1>9 DEF Owned
  <2>2. WorkShape(p, t) BY <2>1 DEF VideoInv
  <2>3. /\ charged[t] \in Int /\ token[t] \in Int /\ missed[t] \in Int /\ missedToken[t] \in Int
        /\ work[p][t].quota \in Nat /\ work[p][t].bill \in Nat /\ row[t].quota \in Nat
    BY <1>1, Entries, Numbers
  <2>4. /\ row[t].status \notin Unended /\ row[t].status # "NONE"
        /\ \A q \in Pollers \ {p}: ~Billing(q, t)
    BY <1>2, <2>1, Alone
  <2>5. OpenRow(t)'
    BY <1>2, <1>3, <1>5, <2>1, <2>2, <2>3, <2>4, IdleFields
    DEF WorkShape, OpenRow, Peers
  <2>6. AbsentRow(t)'
    BY <1>2, <1>3, <1>5, <2>1, <2>2, <2>3, <2>4, IdleFields
    DEF WorkShape, AbsentRow, Peers
  <2>7. NotYet(t)'
    BY <1>2, <1>3, <1>5, <2>1, <2>2, <2>3, <2>4, IdleFields
    DEF VideoInv, AbsentRow, NotYet
  <2>8. OneBiller(t)'
    BY <1>2, <1>3, <1>5, <2>1, <2>2, <2>3, <2>4, IdleFields
    DEF WorkShape, OneBiller, Peers
  <2>9. Undisturbed(t)'
    BY <1>2, <1>3, <1>5, <2>1, <2>2, <2>3, <2>4, IdleFields
    DEF VideoInv, WorkShape, Undisturbed, Peers
  <2>10. WorkShape(p, t)'
    BY <1>2, <1>3, <1>5, <2>1, <2>2, <2>3, <2>4, IdleFields DEF WorkShape
  <2>11. ASSUME NEW q \in Pollers \ {p} PROVE WorkShape(q, t)'
    BY <1>2, <1>3, <1>5, <2>1, <2>4 DEF VideoInv, WorkShape, Peers
  <2>12. charged'[t] + missed'[t] >= 0
    BY <1>2, <2>1, <2>2, <2>3 DEF VideoInv, WorkShape
  <2> QED BY <2>5, <2>6, <2>7, <2>8, <2>9, <2>10, <2>11, <2>12 DEF VideoInv
<1> QED BY <1>6, <1>8, <1>9, OneTask

\* RefundToken keeps the invariant.
LEMMA RefundTokenStep ==
  ASSUME Owned, NEW p \in Pollers, NEW t \in Tasks, RefundToken(p, t)
  PROVE  Owned'
<1>1. TypeOK BY DEF Owned
<1>2. /\ work[p][t].pc = "refundToken" /\ work'[p][t].pc = work[p][t].next /\ work'[p][t].quota = work[p][t].quota /\ work'[p][t].next = work[p][t].next
      /\ token'[t] = token[t] - work[p][t].quota
      /\ UNCHANGED <<stage[t], row[t], charged[t], missed[t], missedToken[t]>>
      /\ work'[p][t] \in Works /\ row'[t] \in Rows
  BY <1>1, Entries, Numbers, IdleFields, QuotasAssumption DEF RefundToken, Working, Goto, TypeOK, Works, WorkPCs, Rows, Statuses
<1>3. /\ disturbed' \in [Tasks -> SUBSET Reasons] /\ faults' \in Nat
      /\ disturbed'[t] = disturbed[t]
      /\ \A u \in Tasks \ {t}: disturbed'[u] = disturbed[u]
  BY <1>1, Undisturbing DEF RefundToken
<1>4. PICK w: Working(p, t, w) BY DEF RefundToken, Goto
<1>5. /\ work' \in [Pollers -> [Tasks -> Works]]
      /\ Peers(p, t)
      /\ \A u \in Tasks \ {t}, q \in Pollers: work'[q][u] = work[q][u]
  BY <1>1, <1>2, <1>4, WorkFrame
<1>6. Others(t) /\ kind' = kind
  BY <1>1, <1>3, <1>5 DEF RefundToken, TypeOK, Others
<1>7. charged'[t] \in Int /\ token'[t] \in Int
  BY <1>1, <1>2, Entries, Numbers
<1>8. TypeOK'
  BY <1>1, <1>2, <1>3, <1>5, <1>7 DEF RefundToken, TypeOK
<1>9. ASSUME kind[t] = "video" PROVE VideoInv(t)'
  <2>1. VideoInv(t) BY <1>9 DEF Owned
  <2>2. WorkShape(p, t) BY <2>1 DEF VideoInv
  <2>3. /\ charged[t] \in Int /\ token[t] \in Int /\ missed[t] \in Int /\ missedToken[t] \in Int
        /\ work[p][t].quota \in Nat /\ work[p][t].bill \in Nat /\ row[t].quota \in Nat
    BY <1>1, Entries, Numbers
  <2>4. /\ row[t].status \notin Unended /\ row[t].status # "NONE"
        /\ \A q \in Pollers \ {p}: ~Billing(q, t)
    BY <1>2, <2>1, Alone
  <2>5. OpenRow(t)'
    BY <1>2, <1>3, <1>5, <2>1, <2>2, <2>3, <2>4, IdleFields
    DEF WorkShape, OpenRow, Peers
  <2>6. AbsentRow(t)'
    BY <1>2, <1>3, <1>5, <2>1, <2>2, <2>3, <2>4, IdleFields
    DEF WorkShape, AbsentRow, Peers
  <2>7. NotYet(t)'
    BY <1>2, <1>3, <1>5, <2>1, <2>2, <2>3, <2>4, IdleFields
    DEF VideoInv, AbsentRow, NotYet
  <2>8. OneBiller(t)'
    BY <1>2, <1>3, <1>5, <2>1, <2>2, <2>3, <2>4, IdleFields
    DEF WorkShape, OneBiller, Peers
  <2>9. Undisturbed(t)'
    BY <1>2, <1>3, <1>5, <2>1, <2>2, <2>3, <2>4, IdleFields
    DEF VideoInv, WorkShape, Undisturbed, Peers
  <2>10. WorkShape(p, t)'
    BY <1>2, <1>3, <1>5, <2>1, <2>2, <2>3, <2>4, IdleFields DEF WorkShape
  <2>11. ASSUME NEW q \in Pollers \ {p} PROVE WorkShape(q, t)'
    BY <1>2, <1>3, <1>5, <2>1, <2>4 DEF VideoInv, WorkShape, Peers
  <2>12. charged'[t] + missed'[t] >= 0
    BY <1>2, <2>1, <2>2, <2>3 DEF VideoInv, WorkShape
  <2> QED BY <2>5, <2>6, <2>7, <2>8, <2>9, <2>10, <2>11, <2>12 DEF VideoInv
<1> QED BY <1>6, <1>8, <1>9, OneTask

\* RefundTokenFails keeps the invariant.
LEMMA RefundTokenFailsStep ==
  ASSUME Owned, NEW p \in Pollers, NEW t \in Tasks, RefundTokenFails(p, t)
  PROVE  Owned'
<1>1. TypeOK BY DEF Owned
<1>2. /\ work[p][t].pc = "refundToken" /\ work'[p][t].pc = work[p][t].next /\ work'[p][t].quota = work[p][t].quota /\ work'[p][t].next = work[p][t].next
      /\ UNCHANGED <<stage[t], row[t], charged[t], token[t], missed[t], missedToken[t]>>
      /\ work'[p][t] \in Works /\ row'[t] \in Rows
  BY <1>1, Entries, Numbers, IdleFields, QuotasAssumption DEF RefundTokenFails, Working, Goto, TypeOK, Works, WorkPCs, Rows, Statuses
<1>3. /\ disturbed' \in [Tasks -> SUBSET Reasons] /\ faults' \in Nat
      /\ disturbed'[t] # {}
      /\ \A u \in Tasks \ {t}: disturbed'[u] = disturbed[u]
  BY <1>1, Disturbing DEF RefundTokenFails, Reasons
<1>4. PICK w: Working(p, t, w) BY DEF RefundTokenFails, Goto
<1>5. /\ work' \in [Pollers -> [Tasks -> Works]]
      /\ Peers(p, t)
      /\ \A u \in Tasks \ {t}, q \in Pollers: work'[q][u] = work[q][u]
  BY <1>1, <1>2, <1>4, WorkFrame
<1>6. Others(t) /\ kind' = kind
  BY <1>1, <1>3, <1>5 DEF RefundTokenFails, TypeOK, Others
<1>7. charged'[t] \in Int /\ token'[t] \in Int
  BY <1>1, <1>2, Entries, Numbers
<1>8. TypeOK'
  BY <1>1, <1>2, <1>3, <1>5, <1>7 DEF RefundTokenFails, TypeOK
<1>9. ASSUME kind[t] = "video" PROVE VideoInv(t)'
  <2>1. VideoInv(t) BY <1>9 DEF Owned
  <2>2. WorkShape(p, t) BY <2>1 DEF VideoInv
  <2>3. /\ charged[t] \in Int /\ token[t] \in Int /\ missed[t] \in Int /\ missedToken[t] \in Int
        /\ work[p][t].quota \in Nat /\ work[p][t].bill \in Nat /\ row[t].quota \in Nat
    BY <1>1, Entries, Numbers
  <2>4. /\ row[t].status \notin Unended /\ row[t].status # "NONE"
        /\ \A q \in Pollers \ {p}: ~Billing(q, t)
    BY <1>2, <2>1, Alone
  <2>5. OpenRow(t)'
    BY <1>2, <1>3, <1>5, <2>1, <2>2, <2>3, <2>4, IdleFields
    DEF WorkShape, OpenRow, Peers
  <2>6. AbsentRow(t)'
    BY <1>2, <1>3, <1>5, <2>1, <2>2, <2>3, <2>4, IdleFields
    DEF WorkShape, AbsentRow, Peers
  <2>7. NotYet(t)'
    BY <1>2, <1>3, <1>5, <2>1, <2>2, <2>3, <2>4, IdleFields
    DEF VideoInv, AbsentRow, NotYet
  <2>8. OneBiller(t)'
    BY <1>2, <1>3, <1>5, <2>1, <2>2, <2>3, <2>4, IdleFields
    DEF WorkShape, OneBiller, Peers
  <2>9. Undisturbed(t)'
    BY <1>2, <1>3, <1>5, <2>1, <2>2, <2>3, <2>4, IdleFields
    DEF VideoInv, WorkShape, Undisturbed, Peers
  <2>10. WorkShape(p, t)'
    BY <1>2, <1>3, <1>5, <2>1, <2>2, <2>3, <2>4, IdleFields DEF WorkShape
  <2>11. ASSUME NEW q \in Pollers \ {p} PROVE WorkShape(q, t)'
    BY <1>2, <1>3, <1>5, <2>1, <2>4 DEF VideoInv, WorkShape, Peers
  <2>12. charged'[t] + missed'[t] >= 0
    BY <1>2, <2>1, <2>2, <2>3 DEF VideoInv, WorkShape
  <2> QED BY <2>5, <2>6, <2>7, <2>8, <2>9, <2>10, <2>11, <2>12 DEF VideoInv
<1> QED BY <1>6, <1>8, <1>9, OneTask

\* SettleFunding keeps the invariant.
LEMMA SettleFundingStep ==
  ASSUME Owned, NEW p \in Pollers, NEW t \in Tasks, SettleFunding(p, t)
  PROVE  Owned'
<1>1. TypeOK BY DEF Owned
<1>2. /\ work[p][t].pc = "settle" /\ work'[p][t].pc = "settleToken" /\ work'[p][t].quota = work[p][t].quota /\ work'[p][t].next = work[p][t].next /\ work'[p][t].bill = work[p][t].bill
      /\ charged'[t] = charged[t] + (work[p][t].bill - work[p][t].quota)
      /\ UNCHANGED <<stage[t], row[t], token[t], missed[t], missedToken[t]>>
      /\ work'[p][t] \in Works /\ row'[t] \in Rows
  BY <1>1, Entries, Numbers, IdleFields, QuotasAssumption DEF SettleFunding, QuotaDelta, Working, Goto, TypeOK, Works, WorkPCs, Rows, Statuses
<1>3. /\ disturbed' \in [Tasks -> SUBSET Reasons] /\ faults' \in Nat
      /\ disturbed'[t] = disturbed[t]
      /\ \A u \in Tasks \ {t}: disturbed'[u] = disturbed[u]
  BY <1>1, Undisturbing DEF SettleFunding
<1>4. PICK w: Working(p, t, w) BY DEF SettleFunding, Goto
<1>5. /\ work' \in [Pollers -> [Tasks -> Works]]
      /\ Peers(p, t)
      /\ \A u \in Tasks \ {t}, q \in Pollers: work'[q][u] = work[q][u]
  BY <1>1, <1>2, <1>4, WorkFrame
<1>6. Others(t) /\ kind' = kind
  BY <1>1, <1>3, <1>5 DEF SettleFunding, QuotaDelta, TypeOK, Others
<1>7. charged'[t] \in Int /\ token'[t] \in Int
  BY <1>1, <1>2, Entries, Numbers
<1>8. TypeOK'
  BY <1>1, <1>2, <1>3, <1>5, <1>7 DEF SettleFunding, QuotaDelta, TypeOK
<1>9. ASSUME kind[t] = "video" PROVE VideoInv(t)'
  <2>1. VideoInv(t) BY <1>9 DEF Owned
  <2>2. WorkShape(p, t) BY <2>1 DEF VideoInv
  <2>3. /\ charged[t] \in Int /\ token[t] \in Int /\ missed[t] \in Int /\ missedToken[t] \in Int
        /\ work[p][t].quota \in Nat /\ work[p][t].bill \in Nat /\ row[t].quota \in Nat
    BY <1>1, Entries, Numbers
  <2>4. /\ row[t].status \notin Unended /\ row[t].status # "NONE"
        /\ \A q \in Pollers \ {p}: ~Billing(q, t)
    BY <1>2, <2>1, Alone
  <2>5. OpenRow(t)'
    BY <1>2, <1>3, <1>5, <2>1, <2>2, <2>3, <2>4, IdleFields
    DEF WorkShape, OpenRow, Peers
  <2>6. AbsentRow(t)'
    BY <1>2, <1>3, <1>5, <2>1, <2>2, <2>3, <2>4, IdleFields
    DEF WorkShape, AbsentRow, Peers
  <2>7. NotYet(t)'
    BY <1>2, <1>3, <1>5, <2>1, <2>2, <2>3, <2>4, IdleFields
    DEF VideoInv, AbsentRow, NotYet
  <2>8. OneBiller(t)'
    BY <1>2, <1>3, <1>5, <2>1, <2>2, <2>3, <2>4, IdleFields
    DEF WorkShape, OneBiller, Peers
  <2>9. Undisturbed(t)'
    <3>1. Billing(p, t)' BY <1>2
    <3>2. disturbed[t] = {} => missed[t] = 0 /\ missedToken[t] = 0 /\ row[t].status = "SUCCESS"
      BY <1>2, <2>1 DEF VideoInv, Undisturbed
    <3> QED BY <1>2, <1>3, <1>5, <2>4, <3>1, <3>2 DEF Undisturbed, Peers
  <2>10. WorkShape(p, t)'
    BY <1>2, <1>3, <1>5, <2>1, <2>2, <2>3, <2>4, IdleFields DEF WorkShape
  <2>11. ASSUME NEW q \in Pollers \ {p} PROVE WorkShape(q, t)'
    BY <1>2, <1>3, <1>5, <2>1, <2>4 DEF VideoInv, WorkShape, Peers
  <2>12. charged'[t] + missed'[t] >= 0
    BY <1>2, <2>1, <2>2, <2>3 DEF VideoInv, WorkShape
  <2> QED BY <2>5, <2>6, <2>7, <2>8, <2>9, <2>10, <2>11, <2>12 DEF VideoInv
<1> QED BY <1>6, <1>8, <1>9, OneTask

\* SettleFundingFails keeps the invariant.
LEMMA SettleFundingFailsStep ==
  ASSUME Owned, NEW p \in Pollers, NEW t \in Tasks, SettleFundingFails(p, t)
  PROVE  Owned'
<1>1. TypeOK BY DEF Owned
<1>2. /\ work[p][t].pc = "settle" /\ work'[p][t] = Idle
      /\ UNCHANGED <<stage[t], row[t], charged[t], token[t], missed[t], missedToken[t]>>
      /\ work'[p][t] \in Works /\ row'[t] \in Rows
  BY <1>1, Entries, Numbers, IdleFields, QuotasAssumption DEF SettleFundingFails, QuotaDelta, Working, Goto, TypeOK, Works, WorkPCs, Rows, Statuses
<1>3. /\ disturbed' \in [Tasks -> SUBSET Reasons] /\ faults' \in Nat
      /\ disturbed'[t] # {}
      /\ \A u \in Tasks \ {t}: disturbed'[u] = disturbed[u]
  BY <1>1, Disturbing DEF SettleFundingFails, Reasons
<1>4. PICK w: Working(p, t, w) BY DEF SettleFundingFails, Goto
<1>5. /\ work' \in [Pollers -> [Tasks -> Works]]
      /\ Peers(p, t)
      /\ \A u \in Tasks \ {t}, q \in Pollers: work'[q][u] = work[q][u]
  BY <1>1, <1>2, <1>4, WorkFrame
<1>6. Others(t) /\ kind' = kind
  BY <1>1, <1>3, <1>5 DEF SettleFundingFails, QuotaDelta, TypeOK, Others
<1>7. charged'[t] \in Int /\ token'[t] \in Int
  BY <1>1, <1>2, Entries, Numbers
<1>8. TypeOK'
  BY <1>1, <1>2, <1>3, <1>5, <1>7 DEF SettleFundingFails, QuotaDelta, TypeOK
<1>9. ASSUME kind[t] = "video" PROVE VideoInv(t)'
  <2>1. VideoInv(t) BY <1>9 DEF Owned
  <2>2. WorkShape(p, t) BY <2>1 DEF VideoInv
  <2>3. /\ charged[t] \in Int /\ token[t] \in Int /\ missed[t] \in Int /\ missedToken[t] \in Int
        /\ work[p][t].quota \in Nat /\ work[p][t].bill \in Nat /\ row[t].quota \in Nat
    BY <1>1, Entries, Numbers
  <2>4. /\ row[t].status \notin Unended /\ row[t].status # "NONE"
        /\ \A q \in Pollers \ {p}: ~Billing(q, t)
    BY <1>2, <2>1, Alone
  <2>5. OpenRow(t)'
    BY <1>2, <1>3, <1>5, <2>1, <2>2, <2>3, <2>4, IdleFields
    DEF WorkShape, OpenRow, Peers
  <2>6. AbsentRow(t)'
    BY <1>2, <1>3, <1>5, <2>1, <2>2, <2>3, <2>4, IdleFields
    DEF WorkShape, AbsentRow, Peers
  <2>7. NotYet(t)'
    BY <1>2, <1>3, <1>5, <2>1, <2>2, <2>3, <2>4, IdleFields
    DEF VideoInv, AbsentRow, NotYet
  <2>8. OneBiller(t)'
    BY <1>2, <1>3, <1>5, <2>1, <2>2, <2>3, <2>4, IdleFields
    DEF WorkShape, OneBiller, Peers
  <2>9. Undisturbed(t)'
    BY <1>2, <1>3, <1>5, <2>1, <2>2, <2>3, <2>4, IdleFields
    DEF VideoInv, WorkShape, Undisturbed, Peers
  <2>10. WorkShape(p, t)'
    BY <1>2, <1>3, <1>5, <2>1, <2>2, <2>3, <2>4, IdleFields DEF WorkShape
  <2>11. ASSUME NEW q \in Pollers \ {p} PROVE WorkShape(q, t)'
    BY <1>2, <1>3, <1>5, <2>1, <2>4 DEF VideoInv, WorkShape, Peers
  <2>12. charged'[t] + missed'[t] >= 0
    BY <1>2, <2>1, <2>2, <2>3 DEF VideoInv, WorkShape
  <2> QED BY <2>5, <2>6, <2>7, <2>8, <2>9, <2>10, <2>11, <2>12 DEF VideoInv
<1> QED BY <1>6, <1>8, <1>9, OneTask

\* SettleToken keeps the invariant.
LEMMA SettleTokenStep ==
  ASSUME Owned, NEW p \in Pollers, NEW t \in Tasks, SettleToken(p, t)
  PROVE  Owned'
<1>1. TypeOK BY DEF Owned
<1>2. /\ work[p][t].pc = "settleToken" /\ work'[p][t].pc = "settleRow" /\ work'[p][t].quota = work[p][t].quota /\ work'[p][t].next = work[p][t].next /\ work'[p][t].bill = work[p][t].bill
      /\ token'[t] = token[t] + (work[p][t].bill - work[p][t].quota)
      /\ UNCHANGED <<stage[t], row[t], charged[t], missed[t], missedToken[t]>>
      /\ work'[p][t] \in Works /\ row'[t] \in Rows
  BY <1>1, Entries, Numbers, IdleFields, QuotasAssumption DEF SettleToken, QuotaDelta, Working, Goto, TypeOK, Works, WorkPCs, Rows, Statuses
<1>3. /\ disturbed' \in [Tasks -> SUBSET Reasons] /\ faults' \in Nat
      /\ disturbed'[t] = disturbed[t]
      /\ \A u \in Tasks \ {t}: disturbed'[u] = disturbed[u]
  BY <1>1, Undisturbing DEF SettleToken
<1>4. PICK w: Working(p, t, w) BY DEF SettleToken, Goto
<1>5. /\ work' \in [Pollers -> [Tasks -> Works]]
      /\ Peers(p, t)
      /\ \A u \in Tasks \ {t}, q \in Pollers: work'[q][u] = work[q][u]
  BY <1>1, <1>2, <1>4, WorkFrame
<1>6. Others(t) /\ kind' = kind
  BY <1>1, <1>3, <1>5 DEF SettleToken, QuotaDelta, TypeOK, Others
<1>7. charged'[t] \in Int /\ token'[t] \in Int
  BY <1>1, <1>2, Entries, Numbers
<1>8. TypeOK'
  BY <1>1, <1>2, <1>3, <1>5, <1>7 DEF SettleToken, QuotaDelta, TypeOK
<1>9. ASSUME kind[t] = "video" PROVE VideoInv(t)'
  <2>1. VideoInv(t) BY <1>9 DEF Owned
  <2>2. WorkShape(p, t) BY <2>1 DEF VideoInv
  <2>3. /\ charged[t] \in Int /\ token[t] \in Int /\ missed[t] \in Int /\ missedToken[t] \in Int
        /\ work[p][t].quota \in Nat /\ work[p][t].bill \in Nat /\ row[t].quota \in Nat
    BY <1>1, Entries, Numbers
  <2>4. /\ row[t].status \notin Unended /\ row[t].status # "NONE"
        /\ \A q \in Pollers \ {p}: ~Billing(q, t)
    BY <1>2, <2>1, Alone
  <2>5. OpenRow(t)'
    BY <1>2, <1>3, <1>5, <2>1, <2>2, <2>3, <2>4, IdleFields
    DEF WorkShape, OpenRow, Peers
  <2>6. AbsentRow(t)'
    BY <1>2, <1>3, <1>5, <2>1, <2>2, <2>3, <2>4, IdleFields
    DEF WorkShape, AbsentRow, Peers
  <2>7. NotYet(t)'
    BY <1>2, <1>3, <1>5, <2>1, <2>2, <2>3, <2>4, IdleFields
    DEF VideoInv, AbsentRow, NotYet
  <2>8. OneBiller(t)'
    BY <1>2, <1>3, <1>5, <2>1, <2>2, <2>3, <2>4, IdleFields
    DEF WorkShape, OneBiller, Peers
  <2>9. Undisturbed(t)'
    BY <1>2, <1>3, <1>5, <2>1, <2>2, <2>3, <2>4, IdleFields
    DEF VideoInv, WorkShape, Undisturbed, Peers
  <2>10. WorkShape(p, t)'
    BY <1>2, <1>3, <1>5, <2>1, <2>2, <2>3, <2>4, IdleFields DEF WorkShape
  <2>11. ASSUME NEW q \in Pollers \ {p} PROVE WorkShape(q, t)'
    BY <1>2, <1>3, <1>5, <2>1, <2>4 DEF VideoInv, WorkShape, Peers
  <2>12. charged'[t] + missed'[t] >= 0
    BY <1>2, <2>1, <2>2, <2>3 DEF VideoInv, WorkShape
  <2> QED BY <2>5, <2>6, <2>7, <2>8, <2>9, <2>10, <2>11, <2>12 DEF VideoInv
<1> QED BY <1>6, <1>8, <1>9, OneTask

\* SettleTokenFails keeps the invariant.
LEMMA SettleTokenFailsStep ==
  ASSUME Owned, NEW p \in Pollers, NEW t \in Tasks, SettleTokenFails(p, t)
  PROVE  Owned'
<1>1. TypeOK BY DEF Owned
<1>2. /\ work[p][t].pc = "settleToken" /\ work'[p][t].pc = "settleRow" /\ work'[p][t].quota = work[p][t].quota /\ work'[p][t].next = work[p][t].next /\ work'[p][t].bill = work[p][t].bill
      /\ UNCHANGED <<stage[t], row[t], charged[t], token[t], missed[t], missedToken[t]>>
      /\ work'[p][t] \in Works /\ row'[t] \in Rows
  BY <1>1, Entries, Numbers, IdleFields, QuotasAssumption DEF SettleTokenFails, Working, Goto, TypeOK, Works, WorkPCs, Rows, Statuses
<1>3. /\ disturbed' \in [Tasks -> SUBSET Reasons] /\ faults' \in Nat
      /\ disturbed'[t] # {}
      /\ \A u \in Tasks \ {t}: disturbed'[u] = disturbed[u]
  BY <1>1, Disturbing DEF SettleTokenFails, Reasons
<1>4. PICK w: Working(p, t, w) BY DEF SettleTokenFails, Goto
<1>5. /\ work' \in [Pollers -> [Tasks -> Works]]
      /\ Peers(p, t)
      /\ \A u \in Tasks \ {t}, q \in Pollers: work'[q][u] = work[q][u]
  BY <1>1, <1>2, <1>4, WorkFrame
<1>6. Others(t) /\ kind' = kind
  BY <1>1, <1>3, <1>5 DEF SettleTokenFails, TypeOK, Others
<1>7. charged'[t] \in Int /\ token'[t] \in Int
  BY <1>1, <1>2, Entries, Numbers
<1>8. TypeOK'
  BY <1>1, <1>2, <1>3, <1>5, <1>7 DEF SettleTokenFails, TypeOK
<1>9. ASSUME kind[t] = "video" PROVE VideoInv(t)'
  <2>1. VideoInv(t) BY <1>9 DEF Owned
  <2>2. WorkShape(p, t) BY <2>1 DEF VideoInv
  <2>3. /\ charged[t] \in Int /\ token[t] \in Int /\ missed[t] \in Int /\ missedToken[t] \in Int
        /\ work[p][t].quota \in Nat /\ work[p][t].bill \in Nat /\ row[t].quota \in Nat
    BY <1>1, Entries, Numbers
  <2>4. /\ row[t].status \notin Unended /\ row[t].status # "NONE"
        /\ \A q \in Pollers \ {p}: ~Billing(q, t)
    BY <1>2, <2>1, Alone
  <2>5. OpenRow(t)'
    BY <1>2, <1>3, <1>5, <2>1, <2>2, <2>3, <2>4, IdleFields
    DEF WorkShape, OpenRow, Peers
  <2>6. AbsentRow(t)'
    BY <1>2, <1>3, <1>5, <2>1, <2>2, <2>3, <2>4, IdleFields
    DEF WorkShape, AbsentRow, Peers
  <2>7. NotYet(t)'
    BY <1>2, <1>3, <1>5, <2>1, <2>2, <2>3, <2>4, IdleFields
    DEF VideoInv, AbsentRow, NotYet
  <2>8. OneBiller(t)'
    BY <1>2, <1>3, <1>5, <2>1, <2>2, <2>3, <2>4, IdleFields
    DEF WorkShape, OneBiller, Peers
  <2>9. Undisturbed(t)'
    BY <1>2, <1>3, <1>5, <2>1, <2>2, <2>3, <2>4, IdleFields
    DEF VideoInv, WorkShape, Undisturbed, Peers
  <2>10. WorkShape(p, t)'
    BY <1>2, <1>3, <1>5, <2>1, <2>2, <2>3, <2>4, IdleFields DEF WorkShape
  <2>11. ASSUME NEW q \in Pollers \ {p} PROVE WorkShape(q, t)'
    BY <1>2, <1>3, <1>5, <2>1, <2>4 DEF VideoInv, WorkShape, Peers
  <2>12. charged'[t] + missed'[t] >= 0
    BY <1>2, <2>1, <2>2, <2>3 DEF VideoInv, WorkShape
  <2> QED BY <2>5, <2>6, <2>7, <2>8, <2>9, <2>10, <2>11, <2>12 DEF VideoInv
<1> QED BY <1>6, <1>8, <1>9, OneTask

\* SettleRow keeps the invariant.
LEMMA SettleRowStep ==
  ASSUME Owned, NEW p \in Pollers, NEW t \in Tasks, SettleRow(p, t)
  PROVE  Owned'
<1>1. TypeOK BY DEF Owned
<1>2. /\ work[p][t].pc = "settleRow" /\ work'[p][t] = Idle
      /\ row'[t].status = row[t].status /\ row'[t].done = row[t].done /\ row'[t].quota = work[p][t].bill
      /\ UNCHANGED <<stage[t], charged[t], token[t], missed[t], missedToken[t]>>
      /\ work'[p][t] \in Works /\ row'[t] \in Rows
  BY <1>1, Entries, Numbers, IdleFields, QuotasAssumption DEF SettleRow, Working, Goto, TypeOK, Works, WorkPCs, Rows, Statuses
<1>3. /\ disturbed' \in [Tasks -> SUBSET Reasons] /\ faults' \in Nat
      /\ disturbed'[t] = disturbed[t]
      /\ \A u \in Tasks \ {t}: disturbed'[u] = disturbed[u]
  BY <1>1, Undisturbing DEF SettleRow
<1>4. PICK w: Working(p, t, w) BY DEF SettleRow, Goto
<1>5. /\ work' \in [Pollers -> [Tasks -> Works]]
      /\ Peers(p, t)
      /\ \A u \in Tasks \ {t}, q \in Pollers: work'[q][u] = work[q][u]
  BY <1>1, <1>2, <1>4, WorkFrame
<1>6. Others(t) /\ kind' = kind
  BY <1>1, <1>3, <1>5 DEF SettleRow, TypeOK, Others
<1>7. charged'[t] \in Int /\ token'[t] \in Int
  BY <1>1, <1>2, Entries, Numbers
<1>8. TypeOK'
  BY <1>1, <1>2, <1>3, <1>5, <1>7 DEF SettleRow, TypeOK
<1>9. ASSUME kind[t] = "video" PROVE VideoInv(t)'
  <2>1. VideoInv(t) BY <1>9 DEF Owned
  <2>2. WorkShape(p, t) BY <2>1 DEF VideoInv
  <2>3. /\ charged[t] \in Int /\ token[t] \in Int /\ missed[t] \in Int /\ missedToken[t] \in Int
        /\ work[p][t].quota \in Nat /\ work[p][t].bill \in Nat /\ row[t].quota \in Nat
    BY <1>1, Entries, Numbers
  <2>4. /\ row[t].status \notin Unended /\ row[t].status # "NONE"
        /\ \A q \in Pollers \ {p}: ~Billing(q, t)
    BY <1>2, <2>1, Alone
  <2>5. OpenRow(t)'
    BY <1>2, <1>3, <1>5, <2>1, <2>2, <2>3, <2>4, IdleFields
    DEF WorkShape, OpenRow, Peers
  <2>6. AbsentRow(t)'
    BY <1>2, <1>3, <1>5, <2>1, <2>2, <2>3, <2>4, IdleFields
    DEF WorkShape, AbsentRow, Peers
  <2>7. NotYet(t)'
    BY <1>2, <1>3, <1>5, <2>1, <2>2, <2>3, <2>4, IdleFields
    DEF VideoInv, AbsentRow, NotYet
  <2>8. OneBiller(t)'
    BY <1>2, <1>3, <1>5, <2>1, <2>2, <2>3, <2>4, IdleFields
    DEF WorkShape, OneBiller, Peers
  <2>9. Undisturbed(t)'
    BY <1>2, <1>3, <1>5, <2>1, <2>2, <2>3, <2>4, IdleFields
    DEF VideoInv, WorkShape, Undisturbed, Peers
  <2>10. WorkShape(p, t)'
    BY <1>2, <1>3, <1>5, <2>1, <2>2, <2>3, <2>4, IdleFields DEF WorkShape
  <2>11. ASSUME NEW q \in Pollers \ {p} PROVE WorkShape(q, t)'
    BY <1>2, <1>3, <1>5, <2>1, <2>4 DEF VideoInv, WorkShape, Peers
  <2>12. charged'[t] + missed'[t] >= 0
    BY <1>2, <2>1, <2>2, <2>3 DEF VideoInv, WorkShape
  <2> QED BY <2>5, <2>6, <2>7, <2>8, <2>9, <2>10, <2>11, <2>12 DEF VideoInv
<1> QED BY <1>6, <1>8, <1>9, OneTask

\* SettleRowFails keeps the invariant.
LEMMA SettleRowFailsStep ==
  ASSUME Owned, NEW p \in Pollers, NEW t \in Tasks, SettleRowFails(p, t)
  PROVE  Owned'
<1>1. TypeOK BY DEF Owned
<1>2. /\ work[p][t].pc = "settleRow" /\ work'[p][t] = Idle
      /\ UNCHANGED <<stage[t], row[t], charged[t], token[t], missed[t], missedToken[t]>>
      /\ work'[p][t] \in Works /\ row'[t] \in Rows
  BY <1>1, Entries, Numbers, IdleFields, QuotasAssumption DEF SettleRowFails, Working, Goto, TypeOK, Works, WorkPCs, Rows, Statuses
<1>3. /\ disturbed' \in [Tasks -> SUBSET Reasons] /\ faults' \in Nat
      /\ disturbed'[t] # {}
      /\ \A u \in Tasks \ {t}: disturbed'[u] = disturbed[u]
  BY <1>1, Disturbing DEF SettleRowFails, Reasons
<1>4. PICK w: Working(p, t, w) BY DEF SettleRowFails, Goto
<1>5. /\ work' \in [Pollers -> [Tasks -> Works]]
      /\ Peers(p, t)
      /\ \A u \in Tasks \ {t}, q \in Pollers: work'[q][u] = work[q][u]
  BY <1>1, <1>2, <1>4, WorkFrame
<1>6. Others(t) /\ kind' = kind
  BY <1>1, <1>3, <1>5 DEF SettleRowFails, TypeOK, Others
<1>7. charged'[t] \in Int /\ token'[t] \in Int
  BY <1>1, <1>2, Entries, Numbers
<1>8. TypeOK'
  BY <1>1, <1>2, <1>3, <1>5, <1>7 DEF SettleRowFails, TypeOK
<1>9. ASSUME kind[t] = "video" PROVE VideoInv(t)'
  <2>1. VideoInv(t) BY <1>9 DEF Owned
  <2>2. WorkShape(p, t) BY <2>1 DEF VideoInv
  <2>3. /\ charged[t] \in Int /\ token[t] \in Int /\ missed[t] \in Int /\ missedToken[t] \in Int
        /\ work[p][t].quota \in Nat /\ work[p][t].bill \in Nat /\ row[t].quota \in Nat
    BY <1>1, Entries, Numbers
  <2>4. /\ row[t].status \notin Unended /\ row[t].status # "NONE"
        /\ \A q \in Pollers \ {p}: ~Billing(q, t)
    BY <1>2, <2>1, Alone
  <2>5. OpenRow(t)'
    BY <1>2, <1>3, <1>5, <2>1, <2>2, <2>3, <2>4, IdleFields
    DEF WorkShape, OpenRow, Peers
  <2>6. AbsentRow(t)'
    BY <1>2, <1>3, <1>5, <2>1, <2>2, <2>3, <2>4, IdleFields
    DEF WorkShape, AbsentRow, Peers
  <2>7. NotYet(t)'
    BY <1>2, <1>3, <1>5, <2>1, <2>2, <2>3, <2>4, IdleFields
    DEF VideoInv, AbsentRow, NotYet
  <2>8. OneBiller(t)'
    BY <1>2, <1>3, <1>5, <2>1, <2>2, <2>3, <2>4, IdleFields
    DEF WorkShape, OneBiller, Peers
  <2>9. Undisturbed(t)'
    BY <1>2, <1>3, <1>5, <2>1, <2>2, <2>3, <2>4, IdleFields
    DEF VideoInv, WorkShape, Undisturbed, Peers
  <2>10. WorkShape(p, t)'
    BY <1>2, <1>3, <1>5, <2>1, <2>2, <2>3, <2>4, IdleFields DEF WorkShape
  <2>11. ASSUME NEW q \in Pollers \ {p} PROVE WorkShape(q, t)'
    BY <1>2, <1>3, <1>5, <2>1, <2>4 DEF VideoInv, WorkShape, Peers
  <2>12. charged'[t] + missed'[t] >= 0
    BY <1>2, <2>1, <2>2, <2>3 DEF VideoInv, WorkShape
  <2> QED BY <2>5, <2>6, <2>7, <2>8, <2>9, <2>10, <2>11, <2>12 DEF VideoInv
<1> QED BY <1>6, <1>8, <1>9, OneTask

-----------------------------------------------------------------------------
(* Steps of Suno tasks, which no video task takes. *)

\* SunoAnswer keeps the invariant.
LEMMA SunoAnswerStep ==
  ASSUME Owned, NEW p \in Pollers, NEW t \in Tasks,
         NEW status \in Answers \cup {work[p][t].from}, NEW reason \in BOOLEAN,
         SunoAnswer(p, t, status, reason)
  PROVE  Owned'
<1>1. TypeOK BY DEF Owned
<1>2. work'[p][t] \in Works
  <2>1. status \in Statuses BY <1>1, Numbers DEF Answers, Statuses
  <2>2. SunoDone(status, reason) \in BOOLEAN BY DEF SunoDone
  <2> QED BY <1>1, <2>1, <2>2, Numbers DEF SunoAnswer, Working, TypeOK, Works, WorkPCs
<1>3. PICK w: Working(p, t, w) BY DEF SunoAnswer
<1>4. /\ work' \in [Pollers -> [Tasks -> Works]]
      /\ \A u \in Tasks \ {t}, q \in Pollers: work'[q][u] = work[q][u]
  BY <1>1, <1>2, <1>3, WorkFrame
<1>5. /\ disturbed' \in [Tasks -> SUBSET Reasons] /\ faults' \in Nat
      /\ \A u \in Tasks: disturbed'[u] = disturbed[u]
  BY <1>1, Undisturbing DEF SunoAnswer
<1>6. TypeOK' BY <1>1, <1>4, <1>5 DEF SunoAnswer, TypeOK
<1>7. Others(t) /\ kind' = kind BY <1>4, <1>5 DEF SunoAnswer, Others
<1>8. kind[t] # "video" BY DEF SunoAnswer
<1> QED BY <1>6, <1>7, <1>8, OneTask

\* SunoSave and SunoSaveFails keep the invariant.
LEMMA SunoSaveStep ==
  ASSUME Owned, NEW p \in Pollers, NEW t \in Tasks, SunoSave(p, t) \/ SunoSaveFails(p, t)
  PROVE  Owned'
<1>1. TypeOK /\ work[p][t].pc = "save" BY DEF Owned, SunoSave, SunoSaveFails
<1>2. work'[p][t] \in Works
  BY <1>1, IdleFields DEF SunoSave, SunoSaveFails, Working, TypeOK
<1>3. Working(p, t, Idle) BY DEF SunoSave, SunoSaveFails
<1>4. /\ work' \in [Pollers -> [Tasks -> Works]]
      /\ \A u \in Tasks \ {t}, q \in Pollers: work'[q][u] = work[q][u]
  BY <1>1, <1>2, <1>3, WorkFrame
<1>5. /\ disturbed' \in [Tasks -> SUBSET Reasons] /\ faults' \in Nat
      /\ \A u \in Tasks \ {t}: disturbed'[u] = disturbed[u]
  BY <1>1, Undisturbing, Disturbing DEF SunoSave, SunoSaveFails, Reasons
<1>6. row' \in [Tasks -> Rows] /\ \A u \in Tasks \ {t}: row'[u] = row[u]
  <2>1. CASE row' = row BY <1>1, <2>1 DEF TypeOK
  <2>2. CASE row' = Written(t, work[p][t].status, work[p][t].done, work[p][t].quota)
    <3> DEFINE saved == [status |-> work[p][t].status, done |-> work[p][t].done,
                         quota |-> work[p][t].quota, submit |-> row[t].submit]
    <3>1. saved \in Rows BY <1>1, Numbers DEF Rows
    <3>2. row' = [row EXCEPT ![t] = saved] BY <2>2
    <3> QED BY <1>1, <3>1, <3>2 DEF TypeOK
  <2> QED BY <2>1, <2>2 DEF SunoSave, SunoSaveFails
<1>7. TypeOK' BY <1>1, <1>4, <1>5, <1>6 DEF SunoSave, SunoSaveFails, TypeOK
<1>8. Others(t) /\ kind' = kind
  BY <1>4, <1>5, <1>6 DEF SunoSave, SunoSaveFails, Others
<1>9. kind[t] # "video" BY <1>1 DEF Owned, VideoInv, WorkShape
<1> QED BY <1>7, <1>8, <1>9, OneTask

-----------------------------------------------------------------------------
(* Submissions, fetches and time. *)

\* The steps of a submission keep the invariant.
LEMMA SubmitStepInv ==
  ASSUME Owned, NEW t \in Tasks, SubmitStep(t)
  PROVE  Owned'
<1>1. TypeOK /\ work' = work /\ kind' = kind
  BY DEF Owned, SubmitStep, Submit, SubmitUnsettled, SubmitFails, Insert, InsertFails
<1>2. ASSUME kind[t] = "video" PROVE VideoInv(t)
  BY <1>2 DEF Owned
<1>3. /\ charged[t] \in Int /\ token[t] \in Int /\ missed[t] \in Int /\ missedToken[t] \in Int /\ row[t] \in Rows
      /\ row[t].quota \in Nat /\ row[t].status \in Statuses /\ row[t].done \in BOOLEAN
  BY <1>1, Entries, Numbers
<1>4. ASSUME NEW quota \in Quotas, NEW at \in SubmitTimes
      PROVE  /\ quota \in Nat /\ NewRow(quota, at) \in Rows
             /\ NewRow(quota, at).quota = quota /\ NewRow(quota, at).status = "NONE"
             /\ ~NewRow(quota, at).done
  BY <1>4, QuotasAssumption DEF NewRow, Rows, Statuses
<1>5. CASE \E quota \in Quotas, at \in SubmitTimes: Submit(t, quota, at)
  <2>1. PICK quota \in Quotas, at \in SubmitTimes: Submit(t, quota, at) BY <1>5
  <2>2. /\ stage[t] = "new" /\ stage'[t] = "insert"
        /\ row'[t] = NewRow(quota, at) /\ charged'[t] = charged[t] + quota
        /\ token'[t] = token[t] + quota /\ UNCHANGED <<missed[t], missedToken[t]>>
    BY <1>1, <2>1 DEF Submit, TypeOK
  <2>3. /\ disturbed' \in [Tasks -> SUBSET Reasons] /\ faults' \in Nat
        /\ \A u \in Tasks: disturbed'[u] = disturbed[u]
    BY <1>1, <2>1, Undisturbing DEF Submit
  <2>4. TypeOK'
    <3>1. stage' \in [Tasks -> {"new", "insert", "over"}] BY <1>1, <2>1 DEF Submit, TypeOK
    <3>2. row' \in [Tasks -> Rows] BY <1>1, <1>4, <2>1 DEF Submit, TypeOK
    <3>3. charged' \in [Tasks -> Int] /\ token' \in [Tasks -> Int]
      BY <1>1, <1>3, <1>4, <2>1 DEF Submit, TypeOK
    <3> QED BY <1>1, <2>1, <2>3, <3>1, <3>2, <3>3 DEF Submit, TypeOK
  <2>5. Others(t) BY <1>1, <2>1, <2>3 DEF Submit, TypeOK, Others
  <2>6. ASSUME kind[t] = "video" PROVE VideoInv(t)'
    <3>1. VideoInv(t) BY <1>2, <2>6
    <3>2. row[t].status = "NONE" BY <2>2, <3>1 DEF VideoInv, NotYet
    <3> QED BY <1>1, <1>3, <1>4, <2>2, <2>3, <3>1, <3>2
            DEF VideoInv, OpenRow, AbsentRow, NotYet, OneBiller, Undisturbed, WorkShape
  <2> QED BY <1>1, <2>4, <2>5, <2>6, OneTask
<1>6. CASE \E quota \in Quotas, at \in SubmitTimes, held \in Quotas:
             SubmitUnsettled(t, held, quota, at)
  <2>1. PICK quota \in Quotas, at \in SubmitTimes, held \in Quotas:
          SubmitUnsettled(t, held, quota, at) BY <1>6
  <2>2. /\ stage[t] = "new" /\ stage'[t] = "insert" /\ held \in Nat
        /\ row'[t] = NewRow(quota, at)
        /\ token'[t] = token[t] + held /\ missedToken'[t] = quota - held
        /\ \/ charged'[t] = charged[t] + held /\ missed'[t] = quota - held
           \/ charged'[t] = charged[t] + quota /\ missed'[t] = missed[t]
    BY <1>1, <2>1, QuotasAssumption DEF SubmitUnsettled, TypeOK
  <2>3. /\ disturbed' \in [Tasks -> SUBSET Reasons] /\ faults' \in Nat
        /\ disturbed'[t] # {}
        /\ \A u \in Tasks \ {t}: disturbed'[u] = disturbed[u]
    BY <1>1, <2>1, Disturbing DEF SubmitUnsettled, Reasons
  <2>4. TypeOK'
    <3>1. stage' \in [Tasks -> {"new", "insert", "over"}]
      BY <1>1, <2>1 DEF SubmitUnsettled, TypeOK
    <3>2. row' \in [Tasks -> Rows] BY <1>1, <1>4, <2>1 DEF SubmitUnsettled, TypeOK
    <3>3. /\ charged' \in [Tasks -> Int] /\ token' \in [Tasks -> Int]
          /\ missed' \in [Tasks -> Int] /\ missedToken' \in [Tasks -> Int]
      BY <1>1, <1>3, <1>4, <2>1, <2>2 DEF SubmitUnsettled, TypeOK
    <3> QED BY <1>1, <2>1, <2>3, <3>1, <3>2, <3>3 DEF SubmitUnsettled, TypeOK
  <2>5. Others(t) BY <1>1, <2>1, <2>3 DEF SubmitUnsettled, TypeOK, Others
  <2>6. ASSUME kind[t] = "video" PROVE VideoInv(t)'
    <3>1. VideoInv(t) BY <1>2, <2>6
    <3>2. row[t].status = "NONE" BY <2>2, <3>1 DEF VideoInv, NotYet
    <3> QED BY <1>1, <1>3, <1>4, <2>2, <2>3, <3>1, <3>2
            DEF VideoInv, OpenRow, AbsentRow, NotYet, OneBiller, Undisturbed, WorkShape
  <2> QED BY <1>1, <2>4, <2>5, <2>6, OneTask
<1>7. CASE SubmitFails(t)
  <2>1. /\ disturbed' \in [Tasks -> SUBSET Reasons] /\ faults' \in Nat
        /\ \A u \in Tasks: disturbed'[u] = disturbed[u]
    BY <1>1, <1>7, Undisturbing DEF SubmitFails
  <2>2. TypeOK' /\ Others(t)
    <3>1. stage' \in [Tasks -> {"new", "insert", "over"}] BY <1>1, <1>7 DEF SubmitFails, TypeOK
    <3>2. TypeOK' BY <1>1, <1>7, <2>1, <3>1 DEF SubmitFails, TypeOK
    <3>3. Others(t) BY <1>1, <1>7, <2>1 DEF SubmitFails, TypeOK, Others
    <3> QED BY <3>2, <3>3
  <2>3. ASSUME kind[t] = "video" PROVE VideoInv(t)'
    BY <1>1, <1>2, <1>7, <2>1, <2>3
    DEF SubmitFails, TypeOK, VideoInv, OpenRow, AbsentRow, NotYet, OneBiller, Undisturbed, WorkShape
  <2> QED BY <1>1, <2>2, <2>3, OneTask
<1>8. CASE Insert(t)
  <2>1. /\ disturbed' \in [Tasks -> SUBSET Reasons] /\ faults' \in Nat
        /\ \A u \in Tasks: disturbed'[u] = disturbed[u]
    BY <1>1, <1>8, Undisturbing DEF Insert
  <2>2. /\ row'[t] \in Rows /\ row'[t].status = "NOT_START" /\ row'[t].done = row[t].done
        /\ row'[t].quota = row[t].quota /\ stage[t] = "insert" /\ stage'[t] = "over"
        /\ UNCHANGED <<charged[t], token[t], missed[t], missedToken[t]>>
    BY <1>1, <1>8, Numbers DEF Insert, TypeOK, Rows, Statuses
  <2>3. TypeOK'
    <3>1. stage' \in [Tasks -> {"new", "insert", "over"}] BY <1>1, <1>8 DEF Insert, TypeOK
    <3>2. row' \in [Tasks -> Rows] BY <1>1, <1>8, <2>2 DEF Insert, TypeOK
    <3> QED BY <1>1, <1>8, <2>1, <3>1, <3>2 DEF Insert, TypeOK
  <2>4. Others(t) BY <1>1, <1>8, <2>1 DEF Insert, TypeOK, Others
  <2>5. ASSUME kind[t] = "video" PROVE VideoInv(t)'
    <3>1. VideoInv(t) BY <1>2, <2>5
    <3>2. row[t].status = "NONE" BY <2>2, <3>1 DEF VideoInv, NotYet
    <3> QED BY <1>1, <1>3, <2>1, <2>2, <3>1, <3>2
            DEF VideoInv, OpenRow, AbsentRow, NotYet, OneBiller, Undisturbed, WorkShape
  <2> QED BY <1>1, <2>3, <2>4, <2>5, OneTask
<1>9. CASE InsertFails(t)
  <2>1. /\ disturbed' \in [Tasks -> SUBSET Reasons] /\ faults' \in Nat
        /\ disturbed'[t] # {}
        /\ \A u \in Tasks \ {t}: disturbed'[u] = disturbed[u]
    BY <1>1, <1>9, Disturbing DEF InsertFails, Reasons
  <2>2. TypeOK' /\ Others(t)
    <3>1. stage' \in [Tasks -> {"new", "insert", "over"}] BY <1>1, <1>9 DEF InsertFails, TypeOK
    <3>2. TypeOK' BY <1>1, <1>9, <2>1, <3>1 DEF InsertFails, TypeOK
    <3>3. Others(t) BY <1>1, <1>9, <2>1 DEF InsertFails, TypeOK, Others
    <3> QED BY <3>2, <3>3
  <2>3. ASSUME kind[t] = "video" PROVE VideoInv(t)'
    BY <1>1, <1>2, <1>9, <2>1, <2>3
    DEF InsertFails, TypeOK, VideoInv, OpenRow, AbsentRow, NotYet, OneBiller, Undisturbed, WorkShape
  <2> QED BY <1>1, <2>2, <2>3, OneTask
<1> QED BY <1>5, <1>6, <1>7, <1>8, <1>9 DEF SubmitStep

\* A fetch keeps the invariant: no video task is fetched in this way.
LEMMA FetchStepInv ==
  ASSUME Owned, NEW t \in Tasks, FetchStep(t)
  PROVE  Owned'
<1>1. TypeOK /\ work' = work /\ kind' = kind
  BY DEF Owned, FetchStep, FetchTask, FetchStores, FetchSkips
<1>2. /\ disturbed' \in [Tasks -> SUBSET Reasons] /\ faults' \in Nat
      /\ \A u \in Tasks: disturbed'[u] = disturbed[u]
  BY <1>1, Undisturbing DEF FetchStep, FetchTask, FetchStores, FetchSkips
<1>3. CASE FetchTask(t)
  <2>1. Copy(t, "loaded") \in Works BY <1>1, CopyFields
  <2>2. TypeOK' BY <1>1, <1>2, <1>3, <2>1 DEF FetchTask, TypeOK
  <2>3. Others(t) BY <1>1, <1>2, <1>3 DEF FetchTask, Others
  <2>4. kind[t] # "video" BY <1>3 DEF FetchTask
  <2> QED BY <1>1, <2>2, <2>3, <2>4, OneTask
<1>4. CASE \E status \in Answers: FetchStores(t, status)
  <2>1. PICK status \in Answers: FetchStores(t, status) BY <1>4
  <2>2. fetch[t].quota \in Nat /\ status \in Statuses /\ (status \in Ended) \in BOOLEAN
    BY <1>1, Entries DEF Works, Answers, Statuses
  <2>3. row' \in [Tasks -> Rows] /\ \A u \in Tasks \ {t}: row'[u] = row[u]
    BY <1>1, <2>1, <2>2, Numbers DEF FetchStores, TypeOK, Rows
  <2>4. TypeOK' BY <1>1, <1>2, <2>1, <2>3, IdleFields DEF FetchStores, TypeOK
  <2>5. Others(t) BY <1>1, <1>2, <2>1, <2>3 DEF FetchStores, Others
  <2>6. kind[t] # "video" BY <2>1 DEF FetchStores
  <2> QED BY <1>1, <2>4, <2>5, <2>6, OneTask
<1>5. CASE FetchSkips(t)
  <2>1. TypeOK' BY <1>1, <1>2, <1>5, IdleFields DEF FetchSkips, TypeOK
  <2>2. Others(t) BY <1>1, <1>2, <1>5 DEF FetchSkips, Others
  <2>3. kind[t] # "video" BY <1>5 DEF FetchSkips
  <2> QED BY <1>1, <2>1, <2>2, <2>3, OneTask
<1> QED BY <1>3, <1>4, <1>5 DEF FetchStep

\* The passing of time keeps the invariant.
LEMMA AgeStepInv ==
  ASSUME Owned, NEW t \in Tasks, Age(t)
  PROVE  Owned'
<1>1. TypeOK /\ kind' = kind BY DEF Owned, Age
<1>2. /\ disturbed' \in [Tasks -> SUBSET Reasons] /\ faults' \in Nat
      /\ \A u \in Tasks: disturbed'[u] = disturbed[u]
  BY <1>1, Undisturbing DEF Age
<1>3. TypeOK' BY <1>1, <1>2 DEF Age, TypeOK
<1>4. Others(t) BY <1>2 DEF Age, Others
<1>5. ASSUME kind[t] = "video" PROVE VideoInv(t)'
  <2>1. VideoInv(t) BY <1>5 DEF Owned
  <2> QED BY <1>2, <2>1
          DEF Age, VideoInv, OpenRow, AbsentRow, NotYet, OneBiller, Undisturbed, WorkShape
<1> QED BY <1>1, <1>3, <1>4, <1>5, OneTask

-----------------------------------------------------------------------------
(* Steps of a whole pass. *)

\* The query of a pass gives it the copies of some unfinished rows.
LEMMA Loading ==
  ASSUME Owned, NEW p \in Pollers, NEW label \in {"timedout", "loaded"},
         \A t \in Tasks: ~Billing(p, t),
         work' \in [Pollers -> [Tasks -> Works]],
         \A t \in Tasks: work'[p][t] = Idle \/ (Unfinished(t) /\ work'[p][t] = Copy(t, label)),
         \A q \in Pollers \ {p}, t \in Tasks: work'[q][t] = work[q][t],
         phase' \in [Pollers -> {"off", "sweep", "poll"}],
         NoFault, UNCHANGED <<rowVars, accounts, userVars, crashes>>
  PROVE  Owned'
<1>1. TypeOK BY DEF Owned
<1>2. /\ disturbed' \in [Tasks -> SUBSET Reasons] /\ faults' \in Nat
      /\ \A u \in Tasks: disturbed'[u] = disturbed[u]
  BY <1>1, Undisturbing
<1>3. TypeOK' BY <1>1, <1>2 DEF TypeOK
<1>4. ASSUME NEW t \in Tasks, kind[t] = "video" PROVE VideoInv(t)'
  <2>1. VideoInv(t) BY <1>4 DEF Owned
  <2>2. \/ work'[p][t] = Idle
        \/ /\ row[t].status \in Unended /\ work'[p][t].pc = label
           /\ work'[p][t].next = "idle" /\ work'[p][t].from = row[t].status
           /\ work'[p][t].quota = row[t].quota
    BY <1>1, CopyFields DEF Unfinished
  <2>3. work'[p][t].pc \in {"idle", "timedout", "loaded"} /\ work'[p][t].next = "idle"
    BY <2>2, IdleFields
  <2>4. \A q \in Pollers: work'[q][t] = work[q][t] \/ q = p OBVIOUS
  <2>5. \A q \in Pollers: Billing(q, t)' <=> Billing(q, t)
    BY <2>3, <2>4
  <2>6. OpenRow(t)'
    <3>1. SUFFICES ASSUME row[t].status \in Unended PROVE OpenRow(t)' BY DEF OpenRow
    <3>2. OpenRow(t) BY <2>1 DEF VideoInv
    <3>3. \A q \in Pollers: ~At(q, t, "idle")' => work'[q][t].quota = row[t].quota
      BY <2>2, <2>4, <3>1, <3>2, IdleFields DEF OpenRow
    <3>4. \A q \in Pollers: ~Billing(q, t)' BY <2>5, <3>1, <3>2 DEF OpenRow
    <3> QED BY <3>1, <3>2, <3>3, <3>4 DEF OpenRow
  <2>7. AbsentRow(t)' BY <2>1, <2>2, <2>4, IdleFields DEF VideoInv, AbsentRow
  <2>8. NotYet(t)' /\ OneBiller(t)' BY <2>1, <2>5 DEF VideoInv, NotYet, OneBiller
  <2>9. Undisturbed(t)'
    <3>1. Undisturbed(t) BY <2>1 DEF VideoInv
    <3>2. UNCHANGED <<row, charged, token, missed>> /\ disturbed'[t] = disturbed[t]
      BY <1>2
    <3>3. \A q \in Pollers: work'[q][t].pc \in BillingPCs => work'[q][t] = work[q][t]
      BY <2>3, <2>4
    <3> QED BY <2>5, <3>1, <3>2, <3>3 DEF Undisturbed
  <2>10. \A q \in Pollers: WorkShape(q, t)'
    <3>1. WorkShape(p, t)' BY <2>2, IdleFields DEF WorkShape
    <3>2. ASSUME NEW q \in Pollers \ {p} PROVE WorkShape(q, t)'
      BY <1>2, <2>1, <3>2 DEF VideoInv, WorkShape
    <3> QED BY <3>1, <3>2
  <2> QED BY <2>1, <2>6, <2>7, <2>8, <2>9, <2>10 DEF VideoInv
<1> QED BY <1>3, <1>4 DEF Owned

\* StartPass, LoadTasks and EndPass keep the invariant.
LEMMA WholePassInv ==
  ASSUME Owned, OffIdle, NEW p \in Pollers, StartPass(p) \/ LoadTasks(p) \/ EndPass(p)
  PROVE  Owned'
<1>1. TypeOK BY DEF Owned
<1>2. phase' \in [Pollers -> {"off", "sweep", "poll"}]
  BY <1>1 DEF StartPass, LoadTasks, EndPass, TypeOK
<1>3. CASE StartPass(p)
  <2>1. [t \in Tasks |-> IF TimedOut(t) THEN Copy(t, "timedout") ELSE Idle] \in [Tasks -> Works]
    BY <1>1, CopyFields, IdleFields
  <2>2. work' \in [Pollers -> [Tasks -> Works]] BY <1>1, <1>3, <2>1 DEF StartPass, TypeOK
  <2>3. \A t \in Tasks: work'[p][t] = Idle \/ (Unfinished(t) /\ work'[p][t] = Copy(t, "timedout"))
    BY <1>1, <1>3 DEF StartPass, TypeOK, TimedOut
  <2>4. \A q \in Pollers \ {p}, t \in Tasks: work'[q][t] = work[q][t]
    BY <1>1, <1>3 DEF StartPass, TypeOK
  <2>5. \A t \in Tasks: ~Billing(p, t) BY <1>3 DEF StartPass, OffIdle
  <2> QED BY <1>2, <1>3, <2>2, <2>3, <2>4, <2>5, Loading DEF StartPass
<1>4. CASE LoadTasks(p)
  <2>1. [t \in Tasks |-> IF Unfinished(t) THEN Copy(t, "loaded") ELSE Idle] \in [Tasks -> Works]
    BY <1>1, CopyFields, IdleFields
  <2>2. work' \in [Pollers -> [Tasks -> Works]] BY <1>1, <1>4, <2>1 DEF LoadTasks, TypeOK
  <2>3. \A t \in Tasks: work'[p][t] = Idle \/ (Unfinished(t) /\ work'[p][t] = Copy(t, "loaded"))
    BY <1>1, <1>4 DEF LoadTasks, TypeOK
  <2>4. \A q \in Pollers \ {p}, t \in Tasks: work'[q][t] = work[q][t]
    BY <1>1, <1>4 DEF LoadTasks, TypeOK
  <2>5. \A t \in Tasks: ~Billing(p, t) BY <1>4 DEF LoadTasks
  <2> QED BY <1>2, <1>4, <2>2, <2>3, <2>4, <2>5, Loading DEF LoadTasks
<1>5. CASE EndPass(p)
  <2>1. /\ disturbed' \in [Tasks -> SUBSET Reasons] /\ faults' \in Nat
        /\ \A u \in Tasks: disturbed'[u] = disturbed[u]
    BY <1>1, <1>5, Undisturbing DEF EndPass
  <2>2. TypeOK' BY <1>1, <1>2, <1>5, <2>1 DEF EndPass, TypeOK
  <2>3. ASSUME NEW t \in Tasks, kind[t] = "video" PROVE VideoInv(t)'
    <3>1. VideoInv(t) BY <2>3 DEF Owned
    <3> QED BY <1>5, <2>1, <3>1
            DEF EndPass, VideoInv, OpenRow, AbsentRow, NotYet, OneBiller, Undisturbed, WorkShape
  <2> QED BY <1>5, <2>2, <2>3 DEF Owned, EndPass
<1> QED BY <1>3, <1>4, <1>5

\* BulkFail keeps the invariant: it leaves the bill alone, and marks the tasks.
LEMMA BulkFailInv ==
  ASSUME Owned, NEW p \in Pollers, NEW S \in SUBSET Tasks, BulkFail(p, S)
  PROVE  Owned'
<1>1. TypeOK BY DEF Owned
<1>2. \A t \in Tasks \ S: /\ row'[t] = row[t] /\ disturbed'[t] = disturbed[t]
                          /\ work'[p][t] = work[p][t]
  BY <1>1 DEF BulkFail, TypeOK
<1>3. \A t \in S: /\ work'[p][t] = Idle /\ work[p][t].pc = "loaded"
                  /\ disturbed'[t] = disturbed[t] \cup {"bulk"}
  BY <1>1 DEF BulkFail, TypeOK
<1>4. \A t \in S: /\ row'[t] \in Rows /\ row'[t].status = "FAILURE"
  BY <1>1, Numbers DEF BulkFail, TypeOK, Rows, Statuses
<1>5. \A q \in Pollers \ {p}, t \in Tasks: work'[q][t] = work[q][t]
  BY <1>1 DEF BulkFail, TypeOK
<1>6. TypeOK'
  <2>1. row' \in [Tasks -> Rows]
    <3>1. \A t \in Tasks: row'[t] \in Rows BY <1>1, <1>2, <1>4 DEF TypeOK
    <3>2. row' = [t \in Tasks |-> row'[t]] BY DEF BulkFail
    <3> QED BY <3>1, <3>2
  <2>2. [t \in Tasks |-> IF t \in S THEN Idle ELSE work[p][t]] \in [Tasks -> Works]
    BY <1>1, IdleFields DEF TypeOK
  <2>3. work' \in [Pollers -> [Tasks -> Works]] BY <1>1, <2>2 DEF BulkFail, TypeOK
  <2>4. disturbed' \in [Tasks -> SUBSET Reasons] BY <1>1 DEF BulkFail, TypeOK, Reasons
  <2> QED BY <1>1, <2>1, <2>3, <2>4 DEF BulkFail, TypeOK
<1>7. ASSUME NEW t \in Tasks, kind[t] = "video" PROVE VideoInv(t)'
  <2>1. VideoInv(t) BY <1>7 DEF Owned
  <2>2. UNCHANGED <<stage[t], charged[t], token[t], missed[t], missedToken[t]>> BY DEF BulkFail
  <2>3. CASE t \in S
    <3>1. row'[t].status = "FAILURE" /\ disturbed'[t] # {} BY <1>3, <1>4, <2>3
    <3>2. stage[t] = "over" BY <1>3, <2>1, <2>3 DEF VideoInv, AbsentRow, NotYet
    <3>3. \A q \in Pollers: Billing(q, t)' => q # p /\ Billing(q, t)
      BY <1>3, <1>5, <2>3, IdleFields
    <3>4. \A q \in Pollers: WorkShape(q, t)'
      <4>1. WorkShape(p, t)' BY <1>3, <2>3, IdleFields DEF WorkShape
      <4>2. ASSUME NEW q \in Pollers \ {p} PROVE WorkShape(q, t)'
        BY <1>5, <2>1, <2>2, <3>1, <4>2 DEF VideoInv, WorkShape
      <4> QED BY <4>1, <4>2
    <3>5. OneBiller(t)' BY <2>1, <3>3 DEF VideoInv, OneBiller
    <3> QED BY <2>1, <2>2, <3>1, <3>2, <3>4, <3>5
            DEF VideoInv, OpenRow, AbsentRow, NotYet, Undisturbed
  <2>4. CASE t \notin S
    <3>1. \A q \in Pollers: work'[q][t] = work[q][t] BY <1>2, <1>5, <2>4
    <3> QED BY <1>2, <2>1, <2>2, <2>4, <3>1
            DEF VideoInv, OpenRow, AbsentRow, NotYet, OneBiller, Undisturbed, WorkShape
  <2> QED BY <2>3, <2>4
<1> QED BY <1>6, <1>7 DEF Owned, BulkFail

\* Crash keeps the invariant: a task whose billing is lost is marked.
LEMMA CrashInv ==
  ASSUME Owned, NEW p \in Pollers, Crash(p)
  PROVE  Owned'
<1>1. TypeOK BY DEF Owned
<1>2. \A t \in Tasks: work'[p][t] = Idle BY <1>1 DEF Crash, TypeOK
<1>3. \A q \in Pollers \ {p}, t \in Tasks: work'[q][t] = work[q][t]
  BY <1>1 DEF Crash, TypeOK
<1>4. TypeOK'
  <2>1. [t \in Tasks |-> Idle] \in [Tasks -> Works] BY IdleFields
  <2>2. work' \in [Pollers -> [Tasks -> Works]] BY <1>1, <2>1 DEF Crash, TypeOK
  <2>3. disturbed' \in [Tasks -> SUBSET Reasons] BY <1>1 DEF Crash, TypeOK, Reasons
  <2>4. phase' \in [Pollers -> {"off", "sweep", "poll"}] BY <1>1 DEF Crash, TypeOK
  <2> QED BY <1>1, <2>2, <2>3, <2>4 DEF Crash, TypeOK
<1>5. ASSUME NEW t \in Tasks, kind[t] = "video" PROVE VideoInv(t)'
  <2>1. VideoInv(t) BY <1>5 DEF Owned
  <2>2. UNCHANGED <<stage, row, charged, token, missed, missedToken>> BY DEF Crash
  <2>3. \/ disturbed'[t] # {}
        \/ disturbed'[t] = disturbed[t] /\ ~Billing(p, t)
    <3>1. CASE work[p][t].pc \in BillingPCs \cup {"save"}
      <4>1. disturbed'[t] = disturbed[t] \cup {"crash"} BY <3>1 DEF Crash
      <4> QED BY <4>1
    <3>2. CASE work[p][t].pc \notin BillingPCs \cup {"save"}
      BY <3>2 DEF Crash
    <3> QED BY <3>1, <3>2
  <2>4. disturbed'[t] = {} => disturbed[t] = {} BY <1>1, <2>3 DEF Crash, TypeOK
  <2>5. \A q \in Pollers: q = p \/ work'[q][t] = work[q][t] BY <1>3
  <2>6. \A q \in Pollers: Billing(q, t)' => q # p /\ Billing(q, t)
    BY <1>2, <2>5, IdleFields
  <2>7. \A q \in Pollers: WorkShape(q, t)'
    <3>1. WorkShape(p, t)' BY <1>2, IdleFields DEF WorkShape
    <3>2. ASSUME NEW q \in Pollers \ {p} PROVE WorkShape(q, t)'
      BY <1>3, <2>1, <2>2, <2>4, <3>2 DEF VideoInv, WorkShape
    <3> QED BY <3>1, <3>2
  <2>8. OneBiller(t)' BY <2>1, <2>6 DEF VideoInv, OneBiller
  <2>9. OpenRow(t)' BY <1>2, <2>1, <2>2, <2>5, <2>6, IdleFields DEF VideoInv, OpenRow
  <2>10. AbsentRow(t)' BY <1>2, <2>1, <2>2, <2>5, IdleFields DEF VideoInv, AbsentRow
  <2>11. Undisturbed(t)'
    <3>1. SUFFICES ASSUME disturbed'[t] = {} PROVE Undisturbed(t)' BY DEF Undisturbed
    <3>2. Undisturbed(t) /\ disturbed[t] = {} /\ ~Billing(p, t)
      BY <2>1, <2>3, <2>4, <3>1 DEF VideoInv
    <3>3. \A q \in Pollers: Billing(q, t)' <=> Billing(q, t) BY <2>5, <2>6, <3>2
    <3>4. \A q \in Pollers: work'[q][t].pc \in BillingPCs => work'[q][t] = work[q][t]
      BY <2>5, <2>6
    <3> QED BY <2>2, <3>2, <3>3, <3>4 DEF Undisturbed
  <2> QED BY <2>1, <2>2, <2>7, <2>8, <2>9, <2>10, <2>11 DEF VideoInv, NotYet
<1> QED BY <1>4, <1>5 DEF Owned, Crash

-----------------------------------------------------------------------------
(* Every step. *)

\* A step of a pass on one task is of a pass that has the task in hand.
LEMMA TaskStepFrame ==
  ASSUME NEW p \in Pollers, NEW t \in Tasks, TaskStep(p, t)
  PROVE  /\ ~At(p, t, "idle") /\ phase' = phase
         /\ \E w: Working(p, t, w)
<1>1. CASE SweepTask(p, t) \/ SweepSkips(p, t) \/ PollSkips(p, t)
  BY <1>1 DEF SweepTask, SweepSkips, PollSkips, Goto
<1>2. CASE VideoStep(p, t)
  <2>1. CASE VideoFailure(p, t) \/ VideoSkips(p, t) \/ \E done \in BOOLEAN: VideoProgress(p, t, done)
    BY <2>1 DEF VideoProgress, VideoFailure, VideoSkips, Video, Goto
  <2>2. ASSUME NEW actual, NEW done, VideoSuccess(p, t, actual, done)
        PROVE  /\ ~At(p, t, "idle") /\ phase' = phase
               /\ \E w: Working(p, t, w)
    BY <2>2 DEF VideoSuccess, Video
  <2> QED BY <1>2, <2>1, <2>2 DEF VideoStep
<1>3. CASE SunoStep(p, t)
  <2>1. CASE SunoSave(p, t) \/ SunoSaveFails(p, t)
    BY <2>1 DEF SunoSave, SunoSaveFails
  <2>2. ASSUME NEW status, NEW reason, SunoAnswer(p, t, status, reason)
        PROVE  /\ ~At(p, t, "idle") /\ phase' = phase
               /\ \E w: Working(p, t, w)
    BY <2>2 DEF SunoAnswer
  <2> QED BY <1>3, <2>1, <2>2 DEF SunoStep
<1>4. CASE RefundFunding(p, t) \/ RefundFundingFails(p, t)
           \/ RefundToken(p, t) \/ RefundTokenFails(p, t)
  BY <1>4 DEF RefundFunding, RefundFundingFails, RefundToken, RefundTokenFails, Goto
<1>5. CASE SettleFunding(p, t) \/ SettleFundingFails(p, t)
           \/ SettleToken(p, t) \/ SettleTokenFails(p, t)
  BY <1>5 DEF SettleFunding, SettleFundingFails, SettleToken, SettleTokenFails, Goto
<1>6. CASE SettleRow(p, t) \/ SettleRowFails(p, t)
  BY <1>6 DEF SettleRow, SettleRowFails
<1> QED BY <1>1, <1>2, <1>3, <1>4, <1>5, <1>6 DEF TaskStep, BillingStep

\* A node that is not in a pass has nothing to do, after any step.
LEMMA OffIdleStep ==
  ASSUME TypeOK, OffIdle, [Next]_vars
  PROVE  OffIdle'
<1>1. CASE \E t \in Tasks: SubmitStep(t) \/ Age(t) \/ FetchStep(t)
  <2>1. phase' = phase /\ work' = work
    BY <1>1 DEF SubmitStep, Submit, SubmitUnsettled, SubmitFails, Insert, InsertFails, Age,
                FetchStep, FetchTask, FetchStores, FetchSkips
  <2> QED BY <2>1 DEF OffIdle
<1>2. ASSUME NEW p \in Pollers, StartPass(p) \/ LoadTasks(p) PROVE OffIdle'
  <2>1. /\ phase'[p] # "off"
        /\ \A q \in Pollers \ {p}: phase'[q] = phase[q] /\ work'[q] = work[q]
    BY <1>2 DEF StartPass, LoadTasks, TypeOK
  <2> QED BY <2>1 DEF OffIdle
<1>3. ASSUME NEW p \in Pollers, EndPass(p) PROVE OffIdle'
  BY <1>3 DEF EndPass, OffIdle, TypeOK
<1>4. ASSUME NEW p \in Pollers, NEW t \in Tasks, TaskStep(p, t) PROVE OffIdle'
  <2>1. ~At(p, t, "idle") /\ phase' = phase BY <1>4, TaskStepFrame
  <2>2. PICK w: Working(p, t, w) BY <1>4, TaskStepFrame
  <2>3. \A q \in Pollers \ {p}: work'[q] = work[q] BY <2>2 DEF Working, TypeOK
  <2>4. phase[p] # "off" BY <2>1 DEF OffIdle
  <2> QED BY <2>1, <2>3, <2>4 DEF OffIdle
<1>5. ASSUME NEW p \in Pollers, Crash(p) PROVE OffIdle'
  <2>1. \A t \in Tasks: work'[p][t] = Idle BY <1>5 DEF Crash, TypeOK
  <2>2. \A q \in Pollers \ {p}: phase'[q] = phase[q] /\ work'[q] = work[q]
    BY <1>5 DEF Crash, TypeOK
  <2> QED BY <2>1, <2>2, IdleFields DEF OffIdle
<1>6. ASSUME NEW p \in Pollers, NEW S \in SUBSET Tasks, BulkFail(p, S) PROVE OffIdle'
  <2>1. \A t \in Tasks: work'[p][t] = Idle \/ work'[p][t] = work[p][t]
    BY <1>6 DEF BulkFail, TypeOK
  <2>2. phase' = phase /\ \A q \in Pollers \ {p}: work'[q] = work[q]
    BY <1>6 DEF BulkFail, TypeOK
  <2> QED BY <2>1, <2>2, IdleFields DEF OffIdle
<1>7. CASE UNCHANGED vars BY <1>7 DEF vars, OffIdle
<1> QED BY <1>1, <1>2, <1>3, <1>4, <1>5, <1>6, <1>7 DEF Next, PassStep

\* A step of a pass on one task keeps the invariant.
LEMMA TaskStepInv ==
  ASSUME Owned, NEW p \in Pollers, NEW t \in Tasks, TaskStep(p, t)
  PROVE  Owned'
<1>1. CASE SweepTask(p, t) \/ SweepSkips(p, t) \/ PollSkips(p, t)
  BY <1>1, SweepTaskStep, SweepSkipsStep, PollSkipsStep
<1>2. CASE VideoStep(p, t)
  BY <1>2, VideoProgressStep, VideoFailureStep, VideoSuccessStep, VideoSkipsStep DEF VideoStep
<1>3. CASE SunoStep(p, t)
  BY <1>3, SunoAnswerStep, SunoSaveStep DEF SunoStep
<1>4. CASE BillingStep(p, t)
  BY <1>4, RefundFundingStep, RefundFundingFailsStep, RefundTokenStep, RefundTokenFailsStep,
     SettleFundingStep, SettleFundingFailsStep, SettleTokenStep, SettleTokenFailsStep,
     SettleRowStep, SettleRowFailsStep
  DEF BillingStep
<1> QED BY <1>1, <1>2, <1>3, <1>4 DEF TaskStep

\* Every step keeps the invariant.
LEMMA NextInv ==
  ASSUME IInv, [Next]_vars
  PROVE  IInv'
<1>1. Owned /\ OffIdle /\ TypeOK BY DEF IInv, Owned
<1>2. OffIdle' BY <1>1, OffIdleStep
<1>3. ASSUME NEW t \in Tasks, SubmitStep(t) \/ Age(t) \/ FetchStep(t) PROVE Owned'
  BY <1>1, <1>3, SubmitStepInv, AgeStepInv, FetchStepInv
<1>4. ASSUME NEW p \in Pollers, PassStep(p) PROVE Owned'
  BY <1>1, <1>4, WholePassInv, TaskStepInv DEF PassStep
<1>5. ASSUME NEW p \in Pollers, Crash(p) PROVE Owned'
  BY <1>1, <1>5, CrashInv
<1>6. ASSUME NEW p \in Pollers, NEW S \in SUBSET Tasks, BulkFail(p, S) PROVE Owned'
  BY <1>1, <1>6, BulkFailInv
<1>7. ASSUME UNCHANGED vars PROVE Owned'
  <2>1. TypeOK' BY <1>1, <1>7 DEF vars, TypeOK
  <2>2. ASSUME NEW t \in Tasks, kind[t] = "video" PROVE VideoInv(t)'
    <3>1. VideoInv(t) BY <1>1, <2>2 DEF Owned
    <3> QED BY <1>7, <3>1
            DEF vars, VideoInv, OpenRow, AbsentRow, NotYet, OneBiller, Undisturbed, WorkShape
  <2>3. kind' = kind BY <1>7 DEF vars
  <2> QED BY <2>1, <2>2, <2>3 DEF Owned
<1>8. Owned'
  <2>1. CASE \E t \in Tasks: SubmitStep(t) \/ Age(t) \/ FetchStep(t) BY <1>3, <2>1
  <2>2. ASSUME NEW p \in Pollers, \E S \in SUBSET Tasks: BulkFail(p, S) PROVE Owned'
    BY <1>6, <2>2
  <2>3. CASE \E p \in Pollers: PassStep(p) \/ Crash(p) \/ \E S \in SUBSET Tasks: BulkFail(p, S)
    BY <1>4, <1>5, <2>2, <2>3
  <2> QED BY <1>7, <2>1, <2>3 DEF Next
<1> QED BY <1>2, <1>8 DEF IInv

\* The initial states satisfy the invariant.
LEMMA InitInv == Init => IInv
<1> SUFFICES ASSUME Init PROVE IInv OBVIOUS
<1>1. NoRow \in Rows /\ NoRow.status = "NONE" BY DEF NoRow, NewRow, Rows, Statuses
<1>2. \A p \in Pollers, t \in Tasks: work[p][t] = Idle
  <2>1. work = [p \in Pollers |-> [t \in Tasks |-> Idle]] BY DEF Init
  <2> QED BY <2>1
<1>3. TypeOK
  <2>1. [t \in Tasks |-> Idle] \in [Tasks -> Works] BY IdleFields
  <2>2. work \in [Pollers -> [Tasks -> Works]] /\ fetch \in [Tasks -> Works]
    BY <2>1 DEF Init
  <2>3. row \in [Tasks -> Rows] BY <1>1 DEF Init
  <2>4. stage \in [Tasks -> {"new", "insert", "over"}] BY DEF Init
  <2>5. phase \in [Pollers -> {"off", "sweep", "poll"}] BY DEF Init
  <2>6. disturbed \in [Tasks -> SUBSET Reasons] BY DEF Init
  <2> QED BY <2>2, <2>3, <2>4, <2>5, <2>6 DEF Init, TypeOK
<1>4. ASSUME NEW t \in Tasks PROVE VideoInv(t)
  <2>1. /\ row[t].status = "NONE" /\ charged[t] = 0 /\ token[t] = 0 /\ missed[t] = 0
        /\ missedToken[t] = 0 /\ stage[t] = "new"
    BY <1>1 DEF Init
  <2> QED BY <1>2, <2>1, IdleFields
          DEF VideoInv, OpenRow, AbsentRow, NotYet, OneBiller, Undisturbed, WorkShape
<1>5. OffIdle BY <1>2, IdleFields DEF OffIdle
<1> QED BY <1>3, <1>4, <1>5 DEF IInv, Owned

-----------------------------------------------------------------------------
(* The theorems. *)

\* IInv, the ownership of a video task's bill, is an invariant of submissions,
\* polling passes, fetches and crashes.
THEOREM Invariance == Spec => []IInv
<1>1. IInv /\ [Next]_vars => IInv' BY NextInv
<1> QED BY <1>1, InitInv, PTL DEF Spec

\* A video task that nothing disturbed is charged what its row says, to its funding
\* source and its token, and nothing if it failed.
THEOREM VideoBilling == Spec => []VideoBill
<1>1. IInv => VideoBill
  <2> SUFFICES ASSUME IInv, NEW t \in Tasks, kind[t] = "video", row[t].status # "NONE",
                      Quiet(t), disturbed[t] = {}
               PROVE  /\ charged[t] = (IF row[t].status = "FAILURE" THEN 0 ELSE row[t].quota)
                      /\ token[t] = charged[t]
    BY DEF VideoBill
  <2>1. TypeOK /\ VideoInv(t) BY DEF IInv, Owned
  <2>2. \A p \in Pollers: ~Billing(p, t) BY DEF Quiet
  <2>3. /\ missed[t] = 0 /\ missedToken[t] = 0 /\ charged[t] \in Int /\ token[t] \in Int
        /\ row[t].status \in Statuses /\ row[t].quota \in Nat
    BY <2>1, Entries, Numbers DEF VideoInv, Undisturbed
  <2>4. CASE row[t].status \in Unended
    BY <2>1, <2>3, <2>4 DEF VideoInv, OpenRow
  <2>5. CASE row[t].status \in Ended
    BY <2>1, <2>2, <2>5 DEF VideoInv, Undisturbed
  <2> QED BY <2>3, <2>4, <2>5 DEF Statuses
<1> QED BY <1>1, Invariance, PTL

\* No step but a bulk update changes the status of a video task that has ended.
LEMMA EndStep ==
  ASSUME IInv, Next, NEW t \in Tasks, kind[t] = "video", row[t].status \in Ended,
         "bulk" \notin disturbed'[t]
  PROVE  row'[t].status = row[t].status
<1>1. TypeOK /\ VideoInv(t) BY DEF IInv, Owned
<1>2. ASSUME NEW u \in Tasks, SubmitStep(u) \/ Age(u) PROVE row'[t] = row[t]
  <2>1. CASE u = t
    <3>1. stage[t] = "over" BY <1>1 DEF VideoInv, NotYet
    <3> QED BY <1>2, <2>1, <3>1
            DEF SubmitStep, Submit, SubmitUnsettled, SubmitFails, Insert, InsertFails, Age
  <2>2. CASE u # t
    BY <1>1, <1>2, <2>2
    DEF TypeOK, SubmitStep, Submit, SubmitUnsettled, SubmitFails, Insert, InsertFails, Age
  <2> QED BY <2>1, <2>2
<1>3. ASSUME NEW u \in Tasks, FetchStep(u) PROVE row'[t] = row[t]
  BY <1>1, <1>3 DEF FetchStep, FetchTask, FetchStores, FetchSkips, TypeOK
<1>4. ASSUME NEW p \in Pollers, StartPass(p) \/ LoadTasks(p) \/ EndPass(p) \/ Crash(p)
      PROVE  row' = row
  BY <1>4 DEF StartPass, LoadTasks, EndPass, Crash
<1>5. ASSUME NEW p \in Pollers, NEW u \in Tasks, TaskStep(p, u)
      PROVE  row'[t].status = row[t].status
  <2>1. /\ work[p][t].pc # "save"
        /\ work[p][t].pc \in {"timedout", "loaded"} => ~Wins(t, work[p][t])
    BY <1>1 DEF VideoInv, WorkShape, Wins
  <2>2. CASE SweepTask(p, u) \/ SweepSkips(p, u) \/ PollSkips(p, u)
    BY <1>1, <2>1, <2>2 DEF SweepTask, SweepSkips, PollSkips, TypeOK
  <2>3. CASE VideoStep(p, u)
    <3>1. CASE VideoFailure(p, u) \/ VideoSkips(p, u) \/ \E done \in BOOLEAN: VideoProgress(p, u, done)
      BY <1>1, <2>1, <3>1 DEF VideoProgress, VideoFailure, VideoSkips, Video, TypeOK
    <3>2. ASSUME NEW actual, NEW done, VideoSuccess(p, u, actual, done) PROVE row'[t].status = row[t].status
      BY <1>1, <2>1, <3>2 DEF VideoSuccess, Video, TypeOK
    <3> QED BY <2>3, <3>1, <3>2 DEF VideoStep
  <2>4. CASE SunoStep(p, u)
    <3>1. CASE SunoSave(p, u) \/ SunoSaveFails(p, u)
      BY <1>1, <2>1, <3>1 DEF SunoSave, SunoSaveFails, TypeOK
    <3>2. ASSUME NEW status, NEW reason, SunoAnswer(p, u, status, reason)
          PROVE  row'[t].status = row[t].status
      BY <3>2 DEF SunoAnswer
    <3> QED BY <2>4, <3>1, <3>2 DEF SunoStep
  <2>5. CASE BillingStep(p, u)
    <3>1. CASE SettleRow(p, u) BY <1>1, <3>1 DEF SettleRow, TypeOK
    <3>2. CASE ~SettleRow(p, u)
      BY <2>5, <3>2
      DEF BillingStep, RefundFunding, RefundFundingFails, RefundToken, RefundTokenFails,
          SettleFunding, SettleFundingFails, SettleToken, SettleTokenFails, SettleRowFails
    <3> QED BY <3>1, <3>2
  <2> QED BY <1>5, <2>2, <2>3, <2>4, <2>5 DEF TaskStep
<1>6. ASSUME NEW p \in Pollers, NEW S \in SUBSET Tasks, BulkFail(p, S)
      PROVE  row'[t] = row[t]
  <2>1. t \notin S
    <3>1. SUFFICES ASSUME t \in S PROVE FALSE OBVIOUS
    <3>2. disturbed'[t] = disturbed[t] \cup {"bulk"} BY <1>6, <3>1 DEF BulkFail
    <3> QED BY <3>2
  <2> QED BY <1>6, <2>1 DEF BulkFail
<1>7. CASE \E u \in Tasks: SubmitStep(u) \/ Age(u) \/ FetchStep(u)
  BY <1>2, <1>3, <1>7
<1>8. ASSUME NEW p \in Pollers, PassStep(p) \/ Crash(p) PROVE row'[t].status = row[t].status
  BY <1>4, <1>5, <1>8 DEF PassStep
<1>9. ASSUME NEW p \in Pollers, \E S \in SUBSET Tasks: BulkFail(p, S)
      PROVE  row'[t].status = row[t].status
  BY <1>6, <1>9
<1>10. CASE \E p \in Pollers: PassStep(p) \/ Crash(p) \/ \E S \in SUBSET Tasks: BulkFail(p, S)
  BY <1>8, <1>9, <1>10
<1> QED BY <1>7, <1>10 DEF Next

\* The end of a video task is final but for the bulk update of a vanished channel.
THEOREM VideoEndIsFinal == Spec => EndIsFinal
<1> DEFINE Final == \A t \in Tasks:
                      kind[t] = "video" /\ row[t].status \in Ended /\ "bulk" \notin disturbed'[t]
                        => row'[t].status = row[t].status
<1>1. IInv /\ [Next]_vars => [Final]_vars BY EndStep
<1> QED BY <1>1, Invariance, PTL DEF Spec, EndIsFinal

=============================================================================
