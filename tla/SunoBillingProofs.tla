--------------------------- MODULE SunoBillingProofs ---------------------------
(***************************************************************************)
(* Proofs about the bill of a Suno task in TaskBilling, for any sets of    *)
(* tasks and polling nodes.  updateSunoTasks refunds before it saves, and  *)
(* saves whatever the row says by then; what keeps the bill right is that  *)
(* passes take turns, so that the copy a pass holds is the row (SerialInv).*)
(***************************************************************************)
EXTENDS TaskBillingProofs

USE DEF At, ChargeFunding, ChargeToken, Continued, Written, rowVars, accounts, pollVars,
        userVars, Billing, BillingPCs, Unended, Ended

\* What SerialInv says of the task t.
SunoTask(t) == kind[t] = "suno" /\ disturbed[t] = {} => SunoInv(t)

\* No pass but that of p has t in hand.
OnlyHand(p, t) == \A q \in Pollers \ {p}: At(q, t, "idle") /\ work'[q][t] = work[q][t]

\* What SunoInv(u) speaks of stays.
Untouched(u) ==
  /\ UNCHANGED <<kind[u], stage[u], row[u], charged[u], token[u], missed[u], disturbed[u]>>
  /\ \A q \in Pollers: work'[q][u] = work[q][u]

\* A task that a step does not touch keeps its part of the invariant.
LEMMA UntouchedKept ==
  ASSUME NEW u \in Tasks, SunoTask(u), Untouched(u)
  PROVE  SunoTask(u)'
<1> SUFFICES ASSUME kind'[u] = "suno", disturbed'[u] = {} PROVE SunoInv(u)'
  BY DEF SunoTask
<1>1. SunoInv(u) BY DEF SunoTask, Untouched
<1>2. UNCHANGED <<stage[u], row[u], charged[u], token[u], missed[u]>> BY DEF Untouched
<1>3. \A q \in Pollers: work'[q][u] = work[q][u] BY DEF Untouched
<1>4. \A q \in Pollers: SunoWork(q, u)'
  BY <1>1, <1>2, <1>3 DEF SunoInv, SunoWork, SunoCharge, Unfinished
<1>5. Quiet(u)' => Quiet(u) BY <1>3 DEF Quiet
<1> QED BY <1>1, <1>2, <1>4, <1>5 DEF SunoInv, SunoCharge

-----------------------------------------------------------------------------
(* Steps of a pass on one task. *)

\* A step of a pass on t leaves the other tasks alone, and marks are never removed.
LEMMA PassFrame ==
  ASSUME TypeOK, NEW p \in Pollers, NEW t \in Tasks, TaskStep(p, t)
  PROVE  /\ \A u \in Tasks \ {t}: Untouched(u)
         /\ disturbed'[t] = {} => disturbed[t] = {}
         /\ kind' = kind /\ missed' = missed /\ stage' = stage
<1>1. PICK w: Working(p, t, w) BY TaskStepFrame
<1>2. \A u \in Tasks \ {t}, q \in Pollers: work'[q][u] = work[q][u]
  BY <1>1 DEF Working, TypeOK
<1> DEFINE Rest == /\ UNCHANGED <<kind, stage, missed>>
                   /\ \A u \in Tasks \ {t}: UNCHANGED <<row[u], charged[u], token[u]>>
<1> DEFINE Marks == /\ \A u \in Tasks \ {t}: disturbed'[u] = disturbed[u]
                    /\ disturbed'[t] = {} => disturbed[t] = {}
<1>3. Marks
  <2>1. NoFault => Marks BY Undisturbing
  <2>2. \A why \in Reasons: Fault(t) \/ Disturb(t, why) => Marks BY Disturbing
  <2>3. NoFault \/ Fault(t) \/ \E why \in Reasons: Disturb(t, why)
    <3>1. CASE SweepTask(p, t) \/ SweepSkips(p, t) \/ PollSkips(p, t)
      BY <3>1 DEF SweepTask, SweepSkips, PollSkips, Reasons
    <3>2. CASE VideoStep(p, t)
      BY <3>2 DEF VideoStep, VideoProgress, VideoFailure, VideoSkips, VideoSuccess
    <3>3. CASE SunoStep(p, t) BY <3>3 DEF SunoStep, SunoAnswer, SunoSave, SunoSaveFails
    <3>4. CASE BillingStep(p, t)
      BY <3>4 DEF BillingStep, RefundFunding, RefundFundingFails, RefundToken, RefundTokenFails,
         SettleFunding, SettleFundingFails, SettleToken, SettleTokenFails, SettleRow,
         SettleRowFails, Reasons
    <3> QED BY <3>1, <3>2, <3>3, <3>4 DEF TaskStep
  <2>4. "fault" \in Reasons BY DEF Reasons
  <2> QED BY <2>1, <2>2, <2>3, <2>4
<1>4. Rest
  <2>1. CASE SweepTask(p, t) BY <2>1 DEF SweepTask, TypeOK
  <2>2. CASE SweepSkips(p, t) BY <2>2 DEF SweepSkips, TypeOK
  <2>3. CASE PollSkips(p, t) BY <2>3 DEF PollSkips, TypeOK
  <2>4. CASE VideoStep(p, t)
    BY <2>4 DEF VideoStep, VideoProgress, VideoFailure, VideoSkips, VideoSuccess, TypeOK
  <2>5. CASE SunoStep(p, t) BY <2>5 DEF SunoStep, SunoAnswer, SunoSave, SunoSaveFails, TypeOK
  <2>6. CASE RefundFunding(p, t) \/ RefundFundingFails(p, t)
             \/ RefundToken(p, t) \/ RefundTokenFails(p, t)
    BY <2>6 DEF RefundFunding, RefundFundingFails, RefundToken, RefundTokenFails, TypeOK
  <2>7. CASE SettleFunding(p, t) \/ SettleFundingFails(p, t)
             \/ SettleToken(p, t) \/ SettleTokenFails(p, t)
    BY <2>7 DEF SettleFunding, SettleFundingFails, SettleToken, SettleTokenFails, TypeOK
  <2>8. CASE SettleRow(p, t) \/ SettleRowFails(p, t)
    BY <2>8 DEF SettleRow, SettleRowFails, TypeOK
  <2> QED BY <2>1, <2>2, <2>3, <2>4, <2>5, <2>6, <2>7, <2>8 DEF TaskStep, BillingStep
<1>6. ASSUME NEW u \in Tasks \ {t} PROVE Untouched(u)
  BY <1>2, <1>3, <1>4, <1>6 DEF Untouched
<1> QED BY <1>3, <1>4, <1>6

\* While passes take turns, the pass that takes a step on t is alone with it.
LEMMA PassAlone ==
  ASSUME TypeOK, OffIdle, OnePass, NEW p \in Pollers, NEW t \in Tasks, TaskStep(p, t)
  PROVE  OnlyHand(p, t)
<1>1. ~At(p, t, "idle") BY TaskStepFrame
<1>2. PICK w: Working(p, t, w) BY TaskStepFrame
<1>3. phase[p] # "off" BY <1>1 DEF OffIdle
<1>4. \A q \in Pollers \ {p}: phase[q] = "off" BY <1>3 DEF OnePass
<1>5. \A q \in Pollers \ {p}: work'[q][t] = work[q][t] BY <1>2 DEF Working, TypeOK
<1> QED BY <1>4, <1>5 DEF OffIdle, OnlyHand

\* A pass that is alone with t: what it leaves of the task decides.
LEMMA AloneInv ==
  ASSUME NEW p \in Pollers, NEW t \in Tasks, OnlyHand(p, t), SunoInv(t),
         UNCHANGED <<stage[t], missed[t]>>, row[t].status # "NONE", row'[t].status # "NONE",
         SunoWork(p, t)',
         ~Billing(p, t)' /\ ~At(p, t, "save")' => SunoCharge(t, row[t].status, row[t].done)'
  PROVE  SunoInv(t)'
<1>1. \A q \in Pollers: SunoWork(q, t)'
  BY DEF OnlyHand, SunoWork
<1>2. Quiet(t)' => ~Billing(p, t)' /\ ~At(p, t, "save")' BY DEF Quiet
<1>3. stage[t] = "over" BY DEF SunoInv
<1> QED BY <1>1, <1>2, <1>3 DEF SunoInv

\* The numbers and fields of an undisturbed Suno task that a pass has in hand.
LEMMA Hand ==
  ASSUME TypeOK, NEW p \in Pollers, NEW t \in Tasks, OnlyHand(p, t), SunoInv(t),
         ~At(p, t, "idle")
  PROVE  /\ SunoWork(p, t) /\ row[t].status # "NONE"
         /\ work[p][t].pc \in {"timedout", "loaded"} =>
              SunoCharge(t, row[t].status, row[t].done)
         /\ row[t].quota \in Nat /\ charged[t] \in Int /\ token[t] \in Int
         /\ work[p][t].quota = row[t].quota
         /\ work[p][t].next \in {"idle", "save"}
<1>1. SunoWork(p, t) BY DEF SunoInv
<1>2. row[t].status # "NONE" /\ work[p][t].quota = row[t].quota BY <1>1 DEF SunoWork
<1>3. work[p][t].pc \in {"timedout", "loaded"} => Quiet(t) BY DEF Quiet, OnlyHand
<1> QED BY <1>1, <1>2, <1>3, Entries, Numbers DEF SunoInv

\* The sweep fails the task and refunds it.
LEMMA SunoSwept ==
  ASSUME TypeOK, NEW p \in Pollers, NEW t \in Tasks, OnlyHand(p, t), SunoInv(t),
         SweepTask(p, t), disturbed'[t] = {}
  PROVE  SunoInv(t)'
<1>1. /\ SunoWork(p, t) /\ SunoCharge(t, row[t].status, row[t].done)
      /\ row[t].status # "NONE" /\ row[t].quota \in Nat /\ charged[t] \in Int
      /\ work[p][t].quota = row[t].quota
  BY Hand DEF SweepTask
<1>2. ~Disturb(t, "legacy") BY Disturbing DEF Reasons
<1>3. /\ row'[t].status = "FAILURE" /\ row'[t].done /\ row'[t].quota = row[t].quota
      /\ \/ work[p][t].quota # 0 /\ work'[p][t].pc = "refund"
            /\ work'[p][t].quota = work[p][t].quota /\ work'[p][t].next = work[p][t].next
         \/ work[p][t].quota = 0 /\ work'[p][t] = Idle
      /\ UNCHANGED <<stage[t], charged[t], token[t], missed[t]>>
  BY <1>1, <1>2 DEF SweepTask, Working, Goto, TypeOK
<1>4. charged[t] = row[t].quota /\ token[t] = row[t].quota /\ work[p][t].next = "idle"
  BY <1>1 DEF SweepTask, SunoWork, SunoCharge, Unfinished
<1>5. SunoWork(p, t)' BY <1>1, <1>3, <1>4, IdleFields DEF SunoWork
<1>6. ~Billing(p, t)' => SunoCharge(t, row[t].status, row[t].done)'
  BY <1>1, <1>3, <1>4 DEF SunoCharge
<1> QED BY <1>1, <1>3, <1>5, <1>6, AloneInv

\* A pass that gives a task up leaves it as it was.
LEMMA SunoSkipped ==
  ASSUME TypeOK, NEW p \in Pollers, NEW t \in Tasks, OnlyHand(p, t), SunoInv(t),
         SweepSkips(p, t) \/ PollSkips(p, t)
  PROVE  SunoInv(t)'
<1>1. /\ SunoCharge(t, row[t].status, row[t].done) /\ row[t].status # "NONE"
  BY Hand DEF SweepSkips, PollSkips
<1>2. /\ work'[p][t] = Idle
      /\ UNCHANGED <<row[t], stage[t], charged[t], token[t], missed[t]>>
  BY DEF SweepSkips, PollSkips, Working, TypeOK
<1>3. SunoWork(p, t)' BY <1>2, IdleFields DEF SunoWork
<1>4. SunoCharge(t, row[t].status, row[t].done)' BY <1>1, <1>2 DEF SunoCharge
<1> QED BY <1>1, <1>2, <1>3, <1>4, AloneInv

\* The answer: a refund is due, or the copy is saved as it is.
LEMMA SunoAnswered ==
  ASSUME TypeOK, NEW p \in Pollers, NEW t \in Tasks, OnlyHand(p, t), SunoInv(t),
         NEW status \in Answers \cup {work[p][t].from}, NEW reason \in BOOLEAN,
         SunoAnswer(p, t, status, reason)
  PROVE  SunoInv(t)'
<1>1. /\ SunoWork(p, t) /\ SunoCharge(t, row[t].status, row[t].done)
      /\ row[t].status # "NONE" /\ row[t].quota \in Nat /\ charged[t] \in Int
      /\ work[p][t].quota = row[t].quota
  BY Hand DEF SunoAnswer
<1>2. /\ work'[p][t].pc = (IF (reason \/ status = "FAILURE") /\ work[p][t].quota # 0
                           THEN "refund" ELSE "save")
      /\ work'[p][t].status = status /\ work'[p][t].done = SunoDone(status, reason)
      /\ work'[p][t].quota = work[p][t].quota /\ work'[p][t].next = "save"
      /\ UNCHANGED <<row[t], stage[t], charged[t], token[t], missed[t]>>
  BY DEF SunoAnswer, Working, TypeOK
<1>3. /\ charged[t] = row[t].quota /\ token[t] = row[t].quota
      /\ status # "NONE"
  BY <1>1 DEF SunoAnswer, SunoWork, SunoCharge, Unfinished, Answers
<1>4. SunoWork(p, t)'
  <2>1. CASE work'[p][t].pc = "refund"
    BY <1>1, <1>2, <1>3, <2>1 DEF SunoWork, SunoDone
  <2>2. CASE work'[p][t].pc = "save"
    <3>1. SunoCharge(t, work[p][t].status, work[p][t].done)'
      BY <1>1, <1>2, <1>3, <2>2 DEF SunoCharge
    <3> QED BY <1>1, <1>2, <1>3, <2>2, <3>1 DEF SunoWork
  <2> QED BY <1>2, <2>1, <2>2
<1> QED BY <1>1, <1>2, <1>4, AloneInv

\* The row is saved as the copy says.
LEMMA SunoSaved ==
  ASSUME TypeOK, NEW p \in Pollers, NEW t \in Tasks, OnlyHand(p, t), SunoInv(t), SunoSave(p, t)
  PROVE  SunoInv(t)'
<1>1. /\ SunoWork(p, t) /\ row[t].status # "NONE" /\ work[p][t].quota = row[t].quota
  BY Hand DEF SunoSave
<1>2. /\ row'[t].status = work[p][t].status /\ row'[t].done = work[p][t].done
      /\ row'[t].quota = work[p][t].quota /\ work'[p][t] = Idle
      /\ UNCHANGED <<stage[t], charged[t], token[t], missed[t]>>
  BY DEF SunoSave, Working, TypeOK
<1>3. work[p][t].status # "NONE" /\ SunoCharge(t, work[p][t].status, work[p][t].done)
  BY <1>1 DEF SunoSave, SunoWork
<1>4. SunoWork(p, t)' BY <1>2, IdleFields DEF SunoWork
<1>5. SunoCharge(t, row[t].status, row[t].done)' BY <1>1, <1>2, <1>3 DEF SunoCharge
<1> QED BY <1>1, <1>2, <1>3, <1>4, <1>5, AloneInv

\* The funding source is refunded, ...
LEMMA SunoFundingRefunded ==
  ASSUME TypeOK, NEW p \in Pollers, NEW t \in Tasks, OnlyHand(p, t), SunoInv(t),
         RefundFunding(p, t)
  PROVE  SunoInv(t)'
<1>1. /\ SunoWork(p, t) /\ row[t].status # "NONE" /\ work[p][t].quota = row[t].quota
      /\ row[t].quota \in Nat /\ charged[t] \in Int
  BY Hand DEF RefundFunding
<1>2. /\ work'[p][t].pc = "refundToken" /\ charged'[t] = charged[t] - work[p][t].quota
      /\ work'[p][t].quota = work[p][t].quota /\ work'[p][t].next = work[p][t].next
      /\ work'[p][t].status = work[p][t].status /\ work'[p][t].done = work[p][t].done
      /\ UNCHANGED <<row[t], stage[t], token[t], missed[t]>>
  BY <1>1 DEF RefundFunding, Working, Goto, TypeOK
<1>3. SunoWork(p, t)' BY <1>1, <1>2 DEF RefundFunding, SunoWork
<1> QED BY <1>1, <1>2, <1>3, AloneInv

\* ... and then the token; the pass goes on to save the row, if it is not the sweep's.
LEMMA SunoTokenRefunded ==
  ASSUME TypeOK, NEW p \in Pollers, NEW t \in Tasks, OnlyHand(p, t), SunoInv(t),
         RefundToken(p, t)
  PROVE  SunoInv(t)'
<1>1. /\ SunoWork(p, t) /\ row[t].status # "NONE" /\ work[p][t].quota = row[t].quota
      /\ row[t].quota \in Nat /\ token[t] \in Int /\ work[p][t].next \in {"idle", "save"}
  BY Hand DEF RefundToken
<1>2. /\ work'[p][t].pc = work[p][t].next /\ token'[t] = token[t] - work[p][t].quota
      /\ work'[p][t].quota = work[p][t].quota
      /\ work'[p][t].status = work[p][t].status /\ work'[p][t].done = work[p][t].done
      /\ UNCHANGED <<row[t], stage[t], charged[t], missed[t]>>
  BY <1>1 DEF RefundToken, Working, Goto, TypeOK
<1>3. /\ charged[t] = 0 /\ token'[t] = 0
      /\ IF work[p][t].next = "idle" THEN row[t].status = "FAILURE" /\ row[t].done
                                    ELSE work[p][t].done /\ work[p][t].status # "NONE"
  BY <1>1, <1>2 DEF RefundToken, SunoWork
<1>4. SunoWork(p, t)' BY <1>1, <1>2, <1>3 DEF SunoWork, SunoCharge
<1>5. ~At(p, t, "save")' => SunoCharge(t, row[t].status, row[t].done)'
  BY <1>1, <1>2, <1>3 DEF SunoCharge
<1> QED BY <1>1, <1>2, <1>4, <1>5, AloneInv

\* No other step of a pass leaves a Suno task undisturbed.
LEMMA SunoPass ==
  ASSUME TypeOK, NEW p \in Pollers, NEW t \in Tasks, OnlyHand(p, t), SunoInv(t),
         kind[t] = "suno", TaskStep(p, t), disturbed'[t] = {}
  PROVE  SunoInv(t)'
<1>1. ~Fault(t) /\ ~Disturb(t, "refused") BY Disturbing DEF Reasons
<1>2. work[p][t].pc \notin {"settle", "settleToken", "settleRow"}
  BY DEF SunoInv, SunoWork
<1>3. CASE SweepTask(p, t) \/ SweepSkips(p, t) \/ PollSkips(p, t)
  BY <1>3, SunoSwept, SunoSkipped
<1>4. CASE VideoStep(p, t)
  BY <1>4 DEF VideoStep, VideoProgress, VideoFailure, VideoSkips, VideoSuccess, Video
<1>5. CASE SunoStep(p, t)
  BY <1>1, <1>5, SunoAnswered, SunoSaved DEF SunoStep, SunoSaveFails
<1>6. CASE BillingStep(p, t)
  BY <1>1, <1>2, <1>6, SunoFundingRefunded, SunoTokenRefunded
  DEF BillingStep, RefundFundingFails, RefundTokenFails, SettleFunding, SettleFundingFails,
      SettleToken, SettleTokenFails, SettleRow, SettleRowFails
<1> QED BY <1>3, <1>4, <1>5, <1>6 DEF TaskStep

-----------------------------------------------------------------------------
(* The other steps. *)

\* A submission leaves the other tasks and the passes alone.
LEMMA SubmitFrame ==
  ASSUME TypeOK, NEW t \in Tasks, SubmitStep(t)
  PROVE  /\ \A u \in Tasks \ {t}: Untouched(u)
         /\ work' = work /\ phase' = phase /\ kind' = kind
         /\ disturbed'[t] = {} => disturbed[t] = {} /\ NoFault
<1>1. work' = work /\ phase' = phase /\ kind' = kind
  BY DEF SubmitStep, Submit, SubmitUnsettled, SubmitFails, Insert, InsertFails
<1>2. ASSUME NEW u \in Tasks \ {t}
      PROVE  UNCHANGED <<stage[u], row[u], charged[u], token[u], missed[u]>>
  BY <1>2 DEF SubmitStep, Submit, SubmitUnsettled, SubmitFails, Insert, InsertFails, TypeOK
<1>3. NoFault \/ Fault(t) \/ \E why \in Reasons: Disturb(t, why)
  BY DEF SubmitStep, Submit, SubmitUnsettled, SubmitFails, Insert, InsertFails, Reasons
<1>4. /\ \A u \in Tasks \ {t}: disturbed'[u] = disturbed[u]
      /\ disturbed'[t] = {} => disturbed[t] = {} /\ NoFault
  <2>1. "fault" \in Reasons BY DEF Reasons
  <2>2. \A why \in Reasons: Fault(t) \/ Disturb(t, why) =>
          disturbed'[t] # {} /\ \A u \in Tasks \ {t}: disturbed'[u] = disturbed[u]
    BY Disturbing
  <2>3. NoFault => \A u \in Tasks: disturbed'[u] = disturbed[u] BY Undisturbing
  <2> QED BY <1>3, <2>1, <2>2, <2>3
<1> QED BY <1>1, <1>2, <1>4 DEF Untouched

\* A submission that nothing disturbs charges what its row says.
LEMMA SunoSubmitted ==
  ASSUME TypeOK, NEW t \in Tasks, SubmitStep(t), SunoInv(t), disturbed'[t] = {}
  PROVE  SunoInv(t)'
<1>1. work' = work /\ disturbed[t] = {} /\ NoFault BY SubmitFrame
<1>2. row[t].status = "NONE" /\ \A p \in Pollers: At(p, t, "idle")
  BY DEF SunoInv, SunoWork, SubmitStep, Submit, SubmitUnsettled, SubmitFails, Insert, InsertFails
<1>3. \A p \in Pollers: SunoWork(p, t)'
  BY <1>1, <1>2 DEF SunoWork
<1>4. ASSUME NEW quota \in Quotas, NEW at \in SubmitTimes, Submit(t, quota, at)
      PROVE  SunoInv(t)'
  <2>1. charged[t] = 0 /\ token[t] = 0 BY <1>2, <1>4 DEF SunoInv, Submit
  <2>2. /\ stage'[t] = "insert" /\ row'[t] = NewRow(quota, at) /\ missed'[t] = missed[t]
        /\ charged'[t] = charged[t] + quota /\ token'[t] = token[t] + quota
    BY <1>4 DEF Submit, TypeOK
  <2>3. charged'[t] = quota /\ token'[t] = quota BY <2>1, <2>2, QuotasAssumption
  <2>4. row'[t].status = "NONE" /\ row'[t].quota = quota /\ ~row'[t].done
    BY <2>2 DEF NewRow
  <2> QED BY <1>3, <2>2, <2>3, <2>4 DEF SunoInv
<1>5. ASSUME NEW held, NEW quota, NEW at, SubmitUnsettled(t, held, quota, at) PROVE FALSE
  <2>1. Fault(t) \/ Disturb(t, "unsettled") BY <1>5 DEF SubmitUnsettled
  <2>2. "unsettled" \in Reasons BY DEF Reasons
  <2> QED BY <2>1, <2>2, Disturbing
<1>6. CASE SubmitFails(t)
  <2>1. stage'[t] = "over" /\ stage[t] = "new" BY <1>6 DEF SubmitFails, TypeOK
  <2>2. UNCHANGED <<row, charged, token, missed>> BY <1>6 DEF SubmitFails
  <2> QED BY <1>2, <1>3, <2>1, <2>2 DEF SunoInv
<1>7. CASE Insert(t)
  <2>1. /\ stage'[t] = "over" /\ stage[t] = "insert"
        /\ row'[t].status = "NOT_START" /\ row'[t].done = row[t].done
        /\ row'[t].quota = row[t].quota
        /\ UNCHANGED <<charged, token, missed>>
    BY <1>7 DEF Insert, TypeOK
  <2>2. SunoCharge(t, row[t].status, row[t].done)' BY <2>1 DEF SunoInv, SunoCharge
  <2> QED BY <1>2, <1>3, <2>1, <2>2 DEF SunoInv
<1>8. CASE InsertFails(t)
  <2>1. "noRow" \in Reasons BY DEF Reasons
  <2> QED BY <1>8, <2>1, Disturbing DEF InsertFails
<1> QED BY <1>4, <1>5, <1>6, <1>7, <1>8 DEF SubmitStep

\* A query gives a pass that is alone the copies of unfinished rows.
LEMMA SunoLoaded ==
  ASSUME TypeOK, NEW p \in Pollers, NEW t \in Tasks, NEW label \in {"timedout", "loaded"},
         SunoInv(t), \A q \in Pollers: At(q, t, "idle"),
         work'[p][t] = Idle \/ (Unfinished(t) /\ work'[p][t] = Copy(t, label)),
         \A q \in Pollers \ {p}: work'[q][t] = work[q][t],
         UNCHANGED <<stage[t], row[t], charged[t], token[t], missed[t]>>
  PROVE  SunoInv(t)'
<1>1. \/ work'[p][t] = Idle
      \/ /\ Unfinished(t) /\ work'[p][t].pc = label
         /\ work'[p][t].next = "idle" /\ work'[p][t].from = row[t].status
         /\ work'[p][t].quota = row[t].quota
  BY CopyFields
<1>2. SunoWork(p, t)' BY <1>1, IdleFields DEF SunoWork, Unfinished
<1>3. \A q \in Pollers: SunoWork(q, t)' BY <1>2 DEF SunoInv, SunoWork
<1>4. Quiet(t) BY DEF Quiet
<1> QED BY <1>3, <1>4 DEF SunoInv, SunoCharge

\* The start of a pass, and its two queries.
LEMMA SunoPassSteps ==
  ASSUME TypeOK, OffIdle, OnePass, ~Overlap, NEW p \in Pollers,
         StartPass(p) \/ LoadTasks(p) \/ EndPass(p),
         \A t \in Tasks: SunoTask(t)
  PROVE  OnePass' /\ \A t \in Tasks: SunoTask(t)'
<1>1. \A q \in Pollers \ {p}: phase'[q] = phase[q]
  BY DEF StartPass, LoadTasks, EndPass, TypeOK
<1>2. OnePass'
  <2>1. CASE StartPass(p)
    <3>1. \A q \in Pollers \ {p}: phase'[q] = "off" BY <1>1, <2>1 DEF StartPass
    <3> QED BY <3>1 DEF OnePass
  <2>2. CASE LoadTasks(p) \/ EndPass(p)
    <3>1. phase[p] # "off" BY <2>2 DEF LoadTasks, EndPass
    <3> QED BY <1>1, <3>1 DEF OnePass
  <2> QED BY <2>1, <2>2
<1>3. \A q \in Pollers, t \in Tasks: At(q, t, "idle")
  <2>1. CASE StartPass(p) BY <2>1 DEF StartPass, OffIdle
  <2>2. CASE LoadTasks(p) \/ EndPass(p)
    <3>1. phase[p] # "off" /\ \A t \in Tasks: At(p, t, "idle")
      BY <2>2 DEF LoadTasks, EndPass
    <3> QED BY <3>1 DEF OnePass, OffIdle
  <2> QED BY <2>1, <2>2
<1>4. \A t \in Tasks: /\ kind'[t] = kind[t] /\ disturbed'[t] = disturbed[t]
                      /\ UNCHANGED <<stage[t], row[t], charged[t], token[t], missed[t]>>
  BY DEF StartPass, LoadTasks, EndPass, NoFault
<1>5. ASSUME NEW t \in Tasks, SunoInv(t) PROVE SunoInv(t)'
  <2>1. \A q \in Pollers \ {p}: work'[q][t] = work[q][t]
    BY DEF StartPass, LoadTasks, EndPass, TypeOK
  <2>2. CASE StartPass(p)
    <3>1. work'[p][t] = Idle \/ (Unfinished(t) /\ work'[p][t] = Copy(t, "timedout"))
      BY <2>2 DEF StartPass, TypeOK, TimedOut
    <3> QED BY <1>3, <1>4, <1>5, <2>1, <3>1, SunoLoaded
  <2>3. CASE LoadTasks(p)
    <3>1. work'[p][t] = Idle \/ (Unfinished(t) /\ work'[p][t] = Copy(t, "loaded"))
      BY <2>3 DEF LoadTasks, TypeOK
    <3> QED BY <1>3, <1>4, <1>5, <2>1, <3>1, SunoLoaded
  <2>4. CASE EndPass(p)
    <3>1. \A q \in Pollers: work'[q][t] = work[q][t] BY <2>4 DEF EndPass
    <3>2. \A q \in Pollers: SunoWork(q, t)'
      BY <1>3, <3>1 DEF SunoWork
    <3>3. Quiet(t) BY <1>3 DEF Quiet
    <3> QED BY <1>4, <1>5, <3>2, <3>3 DEF SunoInv, SunoCharge
  <2> QED BY <2>2, <2>3, <2>4
<1> QED BY <1>2, <1>4, <1>5 DEF SunoTask

\* Rows failed in bulk are marked; the others are left alone.
LEMMA SunoBulk ==
  ASSUME TypeOK, NEW p \in Pollers, NEW S \in SUBSET Tasks, BulkFail(p, S),
         NEW t \in Tasks, SunoTask(t)
  PROVE  SunoTask(t)'
<1>1. CASE t \in S
  <2>1. "bulk" \in disturbed'[t] BY <1>1 DEF BulkFail
  <2> QED BY <2>1 DEF SunoTask
<1>2. CASE t \notin S
  <2>1. Untouched(t) BY <1>2 DEF BulkFail, TypeOK, Untouched
  <2> QED BY <2>1, UntouchedKept
<1> QED BY <1>1, <1>2

\* A pass that dies in the middle of a refund marks the task; otherwise nothing is lost.
LEMMA SunoCrash ==
  ASSUME TypeOK, NEW p \in Pollers, Crash(p), NEW t \in Tasks, SunoTask(t)
  PROVE  SunoTask(t)'
<1>1. SUFFICES ASSUME kind'[t] = "suno", disturbed'[t] = {} PROVE SunoInv(t)'
  BY DEF SunoTask
<1>2. work[p][t].pc \notin BillingPCs \cup {"save"} /\ disturbed[t] = {}
  <2>1. CASE work[p][t].pc \in BillingPCs \cup {"save"}
    <3>1. "crash" \in disturbed'[t] BY <2>1 DEF Crash
    <3> QED BY <1>1, <3>1
  <2>2. CASE work[p][t].pc \notin BillingPCs \cup {"save"}
    <3>1. disturbed'[t] = disturbed[t] BY <2>2 DEF Crash
    <3> QED BY <1>1, <2>2, <3>1
  <2> QED BY <2>1, <2>2
<1>3. SunoInv(t) BY <1>1, <1>2 DEF SunoTask, Crash
<1>4. /\ work'[p][t] = Idle /\ \A q \in Pollers \ {p}: work'[q][t] = work[q][t]
      /\ UNCHANGED <<stage, row, charged, token, missed>>
  BY DEF Crash, TypeOK
<1>5. \A q \in Pollers: SunoWork(q, t)'
  <2>1. SunoWork(p, t)' BY <1>4, IdleFields DEF SunoWork
  <2>2. ASSUME NEW q \in Pollers \ {p} PROVE SunoWork(q, t)'
    BY <1>3, <1>4, <2>2 DEF SunoInv, SunoWork, SunoCharge, Unfinished
  <2> QED BY <2>1, <2>2
<1>6. Quiet(t)' => Quiet(t)
  <2>1. \A q \in Pollers: q = p \/ work'[q][t] = work[q][t] BY <1>4
  <2>2. ~Billing(p, t) /\ ~At(p, t, "save") BY <1>2
  <2> QED BY <2>1, <2>2 DEF Quiet
<1> QED BY <1>3, <1>4, <1>5, <1>6 DEF SunoInv, SunoCharge

\* A user's fetch is not of a Suno task.
LEMMA SunoNotFetched ==
  ASSUME TypeOK, NEW t \in Tasks, Age(t) \/ FetchStep(t), NEW u \in Tasks, SunoTask(u)
  PROVE  SunoTask(u)'
<1>1. /\ UNCHANGED <<kind, stage, charged, token, missed, disturbed>> /\ work' = work
  BY DEF Age, FetchStep, FetchTask, FetchStores, FetchSkips, NoFault
<1>2. kind[u] = "suno" => row'[u] = row[u]
  BY DEF Age, FetchStep, FetchTask, FetchStores, FetchSkips, TypeOK
<1>3. CASE kind[u] = "suno"
  <2>1. Untouched(u) BY <1>1, <1>2, <1>3 DEF Untouched
  <2> QED BY <2>1, UntouchedKept
<1>4. CASE kind[u] # "suno" BY <1>1, <1>4 DEF SunoTask
<1> QED BY <1>3, <1>4

\* Every step of passes that take turns keeps the invariant.
LEMMA SerialStep ==
  ASSUME SerialInv, [Next]_vars
  PROVE  SerialInv'
<1>1. IInv /\ IInv' BY NextInv DEF SerialInv
<1>2. TypeOK /\ OffIdle BY <1>1 DEF IInv, Owned
<1>3. SUFFICES ASSUME ~Overlap PROVE OnePass' /\ \A u \in Tasks: SunoTask(u)'
  BY <1>1 DEF SerialInv, SunoTask
<1>4. OnePass /\ \A u \in Tasks: SunoTask(u) BY <1>3 DEF SerialInv, SunoTask
<1>5. ASSUME phase' = phase PROVE OnePass' BY <1>4, <1>5 DEF OnePass
<1>6. ASSUME NEW t \in Tasks, SubmitStep(t) PROVE OnePass' /\ \A u \in Tasks: SunoTask(u)'
  <2>1. SunoTask(t)' BY <1>2, <1>4, <1>6, SubmitFrame, SunoSubmitted DEF SunoTask
  <2>2. \A u \in Tasks \ {t}: SunoTask(u)' BY <1>2, <1>4, <1>6, SubmitFrame, UntouchedKept
  <2>3. phase' = phase BY <1>2, <1>6, SubmitFrame
  <2> QED BY <1>5, <2>1, <2>2, <2>3
<1>7. ASSUME NEW t \in Tasks, Age(t) \/ FetchStep(t)
      PROVE  OnePass' /\ \A u \in Tasks: SunoTask(u)'
  <2>1. phase' = phase BY <1>7 DEF Age, FetchStep, FetchTask, FetchStores, FetchSkips
  <2> QED BY <1>2, <1>4, <1>5, <1>7, <2>1, SunoNotFetched
<1>8. ASSUME NEW p \in Pollers, StartPass(p) \/ LoadTasks(p) \/ EndPass(p)
      PROVE  OnePass' /\ \A u \in Tasks: SunoTask(u)'
  BY <1>2, <1>3, <1>4, <1>8, SunoPassSteps
<1>9. ASSUME NEW p \in Pollers, NEW t \in Tasks, TaskStep(p, t)
      PROVE  OnePass' /\ \A u \in Tasks: SunoTask(u)'
  <2>1. OnlyHand(p, t) BY <1>2, <1>4, <1>9, PassAlone
  <2>2. SunoTask(t)' BY <1>2, <1>4, <1>9, <2>1, PassFrame, SunoPass DEF SunoTask
  <2>3. \A u \in Tasks \ {t}: SunoTask(u)' BY <1>2, <1>4, <1>9, PassFrame, UntouchedKept
  <2>4. phase' = phase BY <1>9, TaskStepFrame
  <2> QED BY <1>5, <2>2, <2>3, <2>4
<1>10. ASSUME NEW p \in Pollers, Crash(p) PROVE OnePass' /\ \A u \in Tasks: SunoTask(u)'
  <2>1. \A q \in Pollers: phase'[q] # "off" => phase[q] # "off"
    BY <1>2, <1>10 DEF Crash, TypeOK
  <2>2. OnePass' BY <1>4, <2>1 DEF OnePass
  <2> QED BY <1>2, <1>4, <1>10, <2>2, SunoCrash
<1>11. ASSUME NEW p \in Pollers, NEW S \in SUBSET Tasks, BulkFail(p, S)
       PROVE  OnePass' /\ \A u \in Tasks: SunoTask(u)'
  <2>1. phase' = phase BY <1>11 DEF BulkFail
  <2> QED BY <1>2, <1>4, <1>5, <1>11, <2>1, SunoBulk
<1>12. CASE UNCHANGED vars
  <2>1. phase' = phase /\ \A u \in Tasks: Untouched(u) BY <1>12 DEF vars, Untouched
  <2> QED BY <1>4, <1>5, <2>1, UntouchedKept
<1>13. ASSUME NEW p \in Pollers, PassStep(p) PROVE OnePass' /\ \A u \in Tasks: SunoTask(u)'
  BY <1>8, <1>9, <1>13 DEF PassStep
<1>14. CASE \E t \in Tasks: SubmitStep(t) \/ Age(t) \/ FetchStep(t)
  BY <1>6, <1>7, <1>14
<1>15. CASE \E p \in Pollers: PassStep(p) \/ Crash(p) \/ \E S \in SUBSET Tasks: BulkFail(p, S)
  BY <1>10, <1>11, <1>13, <1>15
<1> QED BY <1>12, <1>14, <1>15 DEF Next

\* No pass is on and nothing is charged at the start.
LEMMA SerialInit == Init => SerialInv
<1> SUFFICES ASSUME Init PROVE SerialInv OBVIOUS
<1>1. IInv BY InitInv
<1>2. OnePass BY DEF Init, OnePass
<1>3. ASSUME NEW t \in Tasks PROVE SunoInv(t)
  <2>1. /\ row[t].status = "NONE" /\ charged[t] = 0 /\ token[t] = 0 /\ missed[t] = 0
        /\ stage[t] = "new"
    BY DEF Init, NoRow, NewRow
  <2>2. \A p \in Pollers: work[p][t] = Idle BY DEF Init
  <2> QED BY <2>1, <2>2, IdleFields DEF SunoInv, SunoWork
<1> QED BY <1>1, <1>2, <1>3 DEF SerialInv

-----------------------------------------------------------------------------
(* The theorems. *)

\* SerialInv, what passes that take turns make of the copies of a Suno row, is an
\* invariant of submissions, polling passes, fetches and crashes.
THEOREM SerialInvariance == Spec => []SerialInv
<1>1. SerialInv /\ [Next]_vars => SerialInv' BY SerialStep
<1> QED BY <1>1, SerialInit, PTL DEF Spec

\* A Suno task that nothing disturbed is charged its quota while it will be polled
\* again, nothing once it failed, and its token is charged the same
\* (updateSunoTasks, sweepTimedOutTasks, RefundTaskQuota).
THEOREM SunoBilling == Spec => []SunoBill
<1>1. SerialInv => SunoBill
  BY DEF SerialInv, SunoBill, SunoInv, SunoCharge
<1> QED BY <1>1, SerialInvariance, PTL

\* No video task is refunded more than it was charged, however passes overlap, fail
\* and die; nor is an undisturbed Suno task while passes take turns.
THEOREM TaskNeverOverRefunded == Spec => []NeverOverRefunded
<1>1. SerialInv => NeverOverRefunded
  <2> SUFFICES ASSUME SerialInv, NEW t \in Tasks,
                      kind[t] = "video" \/ (kind[t] = "suno" /\ ~Overlap /\ disturbed[t] = {})
               PROVE  charged[t] + missed[t] >= 0
    BY DEF NeverOverRefunded
  <2>1. CASE kind[t] = "video" BY <2>1 DEF SerialInv, IInv, Owned, VideoInv
  <2>2. CASE kind[t] = "suno" /\ ~Overlap /\ disturbed[t] = {}
    <3>1. SunoInv(t) /\ TypeOK BY <2>2 DEF SerialInv, IInv, Owned
    <3>2. row[t].quota \in Nat /\ missed[t] = 0 BY <3>1, Numbers DEF SunoInv
    <3>3. charged[t] \in {0, row[t].quota}
      <4>1. CASE row[t].status = "NONE" BY <3>1, <4>1 DEF SunoInv
      <4>2. CASE row[t].status # "NONE" /\ Quiet(t) BY <3>1, <4>2 DEF SunoInv, SunoCharge
      <4>3. ASSUME NEW p \in Pollers, Billing(p, t) \/ At(p, t, "save")
            PROVE  charged[t] \in {0, row[t].quota}
        BY <3>1, <4>3 DEF SunoInv, SunoWork, SunoCharge
      <4> QED BY <4>1, <4>2, <4>3 DEF Quiet
    <3> QED BY <3>2, <3>3
  <2> QED BY <2>1, <2>2
<1> QED BY <1>1, SerialInvariance, PTL
=============================================================================
