---------------------------- MODULE AgentHoldProofs ----------------------------
(***************************************************************************)
(* The hold of a background session is settled at most once, for any       *)
(* number of sessions, workers, sweeps, attempts, redeliveries and         *)
(* cancellations, when leases are kept in time, last updates do not fail   *)
(* and no process dies between a settlement and its next statement; the    *)
(* holds then implement SettleOnce.  And what the person is told of the    *)
(* session is one story that agrees with its row and its hold, when        *)
(* besides nobody cancels, no settlement is lost, nobody throws outside    *)
(* its try block and no claim fails.                                       *)
(***************************************************************************)
EXTENDS AgentRunProofs, FiniteSetTheorems

\* No living worker's lease lapses, no last update fails, and nobody dies between
\* a settlement and the statement after it.
Calm == {"late", "saveFails", "crashSettling"} \cap Faults = {}

\* How often the hold of a session was settled, either way.
paid == [s \in Sessions |-> charges[s] + refunds[s]]

\* A driver in these places has not paid ...
UnpaidPcs == {"abandon", "refundAbandoned", "enter", "head", "step", "charge", "catch",
              "refund"}

\* ... and in these ones its row is as it claimed it, unless a person cancelled it.
RunningPcs == {"abandon", "enter", "head", "step", "charge"}

Sweeping(p) == rp[p].pc \in {"refundExhausted", "refundOrphan"}

Resting(s) == \A w \in Workers : ~Drives(w, s)

Unswept(s) == \A p \in Reapers : Sweeping(p) => rp[p].s # s

\* Until its handoff is over a session has no job, no worker and no sweep.
HandingQueue ==
    \A s \in Sessions : handoff[s] # "done" =>
        s \notin direct /\ \A n \in JobIds : job[s][n].state = "absent"

HandingWorkers == \A w \in Workers : wk[w].pc # "idle" => handoff[wk[w].s] = "done"

HandingReapers == \A p \in Reapers : rp[p].pc # "idle" => handoff[rp[p].s] = "done"

HandingRow ==
    \A s \in Sessions :
        /\ handoff[s] # "done" => paid[s] = 0
        /\ handoff[s] \in {"idle", "refused", "reserved"} => status[s] = "none" /\ ~old[s]
        /\ handoff[s] \in {"created", "failing"} =>
               status[s] \in {"queued", "cancelled"} /\ ~old[s]
        /\ handoff[s] = "refunding" => status[s] \in {"none", "cancelled"}

\* A row that can be claimed or given up has no payer, and was not paid.
RowHold ==
    \A s \in Sessions :
        /\ status[s] = "queued" => paid[s] = 0 /\ Resting(s) /\ Unswept(s)
        /\ status[s] = "running" => Unswept(s) /\ (Resting(s) => paid[s] = 0)

\* Nobody but its driver pays for a session that has one ...
DriverHold ==
    \A w \in Workers : wk[w].pc \in LeasedPcs =>
        /\ Unswept(wk[w].s)
        /\ status[wk[w].s] \notin {"none", "queued"}
        /\ wk[w].pc \in UnpaidPcs => paid[wk[w].s] = 0
        /\ wk[w].pc \in RunningPcs =>
               \/ status[wk[w].s] = "running"
               \/ "cancel" \in Faults /\ status[wk[w].s] = "cancelled"
        /\ wk[w].pc \in {"settled", "refundAbandoned"} => status[wk[w].s] # "running"

\* ... and nobody but the sweep that failed it for one that has a sweep.
SweepHold ==
    \A p \in Reapers : Sweeping(p) =>
        /\ paid[rp[p].s] = 0
        /\ status[rp[p].s] \notin Open
        /\ \A q \in Reapers : Sweeping(q) /\ rp[q].s = rp[p].s => q = p

PaidOnce == \A s \in Sessions : paid[s] <= 1

\* Only where a person may cancel is a session being cancelled.
CancelsAllowed == \A s \in Sessions : cancel[s] # "no" => "cancel" \in Faults

HoldInv == /\ RowInv /\ HandingQueue /\ HandingWorkers /\ HandingReapers /\ HandingRow
           /\ RowHold /\ DriverHold /\ SweepHold /\ CancelsAllowed /\ PaidOnce

-----------------------------------------------------------------------------
(* What the parts of a step do.                                            *)

\* Workers stay where they are, w goes to pc.
Moved(w, pc) ==
    \A v \in Workers : /\ wk'[v].s = wk[v].s
                       /\ wk'[v].pc = IF v = w THEN pc ELSE wk[v].pc

\* w leaves its session.
Idled(w) ==
    /\ wk'[w].pc = "idle"
    /\ \A v \in Workers \ {w} : wk'[v].s = wk[v].s /\ wk'[v].pc = wk[v].pc

\* w takes up a session.
Begun(w, s) ==
    /\ wk[w].pc = "idle" /\ wk'[w].pc = "claim" /\ wk'[w].s = s
    /\ \A v \in Workers \ {w} : wk'[v].s = wk[v].s /\ wk'[v].pc = wk[v].pc

SamePlaces == \A v \in Workers : wk'[v].s = wk[v].s /\ wk'[v].pc = wk[v].pc

\* Reapers stay where they are, p goes to pc ...
ReaperMoved(p, pc) ==
    \A q \in Reapers : /\ rp'[q].s = rp[q].s
                       /\ rp'[q].pc = IF q = p THEN pc ELSE rp[q].pc

\* ... or leaves its session, or takes up one.
ReaperIdled(p) ==
    /\ rp'[p].pc = "idle"
    /\ \A q \in Reapers \ {p} : rp'[q].s = rp[q].s /\ rp'[q].pc = rp[q].pc

ReaperBegun(p, pc, s) ==
    /\ rp'[p].pc = pc /\ rp'[p].s = s
    /\ \A q \in Reapers \ {p} : rp'[q].s = rp[q].s /\ rp'[q].pc = rp[q].pc

\* s may be paid once more.
Pays(s) == paid' \in {paid, [paid EXCEPT ![s] = @ + 1]}

\* A worker that goes on moves only itself.
LEMMA GotoMoves ==
    ASSUME TypeOK, NEW w \in Workers, NEW pc, Goto(w, pc)
    PROVE  Moved(w, pc)
<1>1. \A v \in Workers : wk[v] \in WorkerType
    BY DEF TypeOK, ProcessesTyped
<1> QED
    BY <1>1 DEF Moved, Goto, WorkerType, TypeOK, ProcessesTyped

\* So does one that has come to how its session ends,
LEMMA EndsMoves ==
    ASSUME TypeOK, NEW w \in Workers, NEW pc, NEW final, Ends(w, pc, final)
    PROVE  Moved(w, pc)
<1>1. \A v \in Workers : wk[v] \in WorkerType
    BY DEF TypeOK, ProcessesTyped
<1> QED
    BY <1>1 DEF Moved, Ends, WorkerType, TypeOK, ProcessesTyped

\* one that leaves the loop,
LEMMA LeavesMoves ==
    ASSUME TypeOK, NEW w \in Workers, NEW outcome, Leaves(w, outcome)
    PROVE  Moved(w, "release")
<1>1. \A v \in Workers : wk[v] \in WorkerType
    BY DEF TypeOK, ProcessesTyped
<1> QED
    BY <1>1 DEF Moved, Leaves, WorkerType, TypeOK, ProcessesTyped

\* and one that claims a row, to enter it or to give it up.
LEMMA ClaimMoves ==
    ASSUME TypeOK, NEW w \in Workers, ClaimStep(w)
    PROVE  \E pc \in {"enter", "abandon"} : Moved(w, pc)
<1>1. \A v \in Workers : wk[v] \in WorkerType
    BY DEF TypeOK, ProcessesTyped
<1> QED
    BY <1>1 DEF Moved, ClaimStep, WorkerType, TypeOK, ProcessesTyped

\* Finding the lease lost moves nobody.
LEMMA LostStays ==
    ASSUME TypeOK, NEW w \in Workers, wk' = [wk EXCEPT ![w].lost = TRUE]
    PROVE  SamePlaces
<1>1. \A v \in Workers : wk[v] \in WorkerType
    BY DEF TypeOK, ProcessesTyped
<1> QED
    BY <1>1 DEF SamePlaces, WorkerType, TypeOK, ProcessesTyped

\* A worker that is done, or dies, leaves its session.
LEMMA IdleIdles ==
    ASSUME TypeOK, NEW w \in Workers, wk' = [wk EXCEPT ![w] = IdleWorker]
    PROVE  Idled(w)
BY DEF Idled, IdleWorker, TypeOK, ProcessesTyped

\* An idle worker that is handed a job takes up its session.
LEMMA BeginBegins ==
    ASSUME TypeOK, NEW w \in Workers, NEW s, NEW n, NEW last, Begin(w, s, n, last)
    PROVE  Begun(w, s)
BY DEF Begun, Begin, TypeOK, ProcessesTyped

\* A sweep that goes on moves only itself,
LEMMA ReaperMoves ==
    ASSUME TypeOK, NEW p \in Reapers, NEW pc, ToReaper(p, pc)
    PROVE  ReaperMoved(p, pc)
BY DEF ReaperMoved, ToReaper, TypeOK, ProcessesTyped

\* one that is done leaves its session,
LEMMA ReaperLeaves ==
    ASSUME TypeOK, NEW p \in Reapers, rp' = [rp EXCEPT ![p] = IdleReaper]
    PROVE  ReaperIdled(p)
BY DEF ReaperIdled, IdleReaper, TypeOK, ProcessesTyped

\* and one that finds a session takes it up.
LEMMA ReaperBegins ==
    ASSUME TypeOK, NEW p \in Reapers, NEW pc, NEW s, NEW n,
           rp' = [rp EXCEPT ![p] = [pc |-> pc, s |-> s, attempts |-> n]]
    PROVE  ReaperBegun(p, pc, s)
BY DEF ReaperBegun, TypeOK, ProcessesTyped

\* What was paid for a session is a number.
LEMMA PaidTyped == ASSUME TypeOK PROVE paid \in [Sessions -> Nat]
BY DEF TypeOK, HoldsTyped, paid

\* Without a charge or a refund nothing is paid.
LEMMA PaidStays == ASSUME UNCHANGED moneyVars PROVE UNCHANGED paid
BY DEF paid, moneyVars

\* A refund or a charge pays for its own session, at most once.
LEMMA GivesOnce ==
    ASSUME TypeOK, NEW s \in Sessions, GiveBack(s) \/ ChargeHold(s)
    PROVE  Pays(s)
<1>1. charges \in [Sessions -> Nat] /\ refunds \in [Sessions -> Nat]
    BY DEF TypeOK, HoldsTyped
<1>2. CASE charges' = [charges EXCEPT ![s] = @ + 1] /\ UNCHANGED refunds
    <2>1. \A r \in Sessions :
              paid'[r] = IF r = s THEN paid[s] + 1 ELSE paid[r]
        BY <1>1, <1>2 DEF paid
    <2>2. paid' = [paid EXCEPT ![s] = @ + 1]
        BY <2>1 DEF paid
    <2> QED
        BY <2>2 DEF Pays
<1>3. CASE refunds' = [refunds EXCEPT ![s] = @ + 1] /\ UNCHANGED charges
    <2>1. \A r \in Sessions :
              paid'[r] = IF r = s THEN paid[s] + 1 ELSE paid[r]
        BY <1>1, <1>3 DEF paid
    <2>2. paid' = [paid EXCEPT ![s] = @ + 1]
        BY <2>1 DEF paid
    <2> QED
        BY <2>2 DEF Pays
<1>4. CASE UNCHANGED moneyVars
    BY <1>4, PaidStays DEF Pays
<1> QED
    BY <1>2, <1>3, <1>4 DEF GiveBack, ChargeHold

-----------------------------------------------------------------------------
(* The invariant, part by part.                                            *)

\* A cancellation begins where a person may cancel.
LEMMA CancelsStayAllowed ==
    ASSUME TypeOK, CancelsAllowed, Next
    PROVE  CancelsAllowed'
<1> USE DEF rowVars, leaseVars, queueVars, CancelsAllowed, Calm
<1>1. ASSUME NEW s \in Sessions,
             Reserve(s) \/ CreateRow(s) \/ CreateThrows(s) \/ Enqueue(s) \/
             CountersThrow(s) \/ CancelUnsettled(s) \/ RefundHandoff(s) \/
             CrashHandoff(s) \/ ReadCancel(s) \/ CancelJob(s) \/ WriteCancel(s) \/
             Lapse(s)
      PROVE  CancelsAllowed'
    BY <1>1
       DEF Reserve, ToHandoff, CreateRow, SetStatus, CreateThrows, Enqueue, CountersThrow,
           CancelUnsettled, RefundHandoff, CrashHandoff, ReadCancel, ToCancel, CancelJob,
           WriteCancel, Lapse
<1>2. ASSUME NEW s \in Sessions, Age(s) \/ LoseJob(s) PROVE CancelsAllowed'
    BY <1>2
       DEF Age, LoseJob
<1>3. ASSUME NEW s \in Sessions, NEW n \in JobIds,
             Stall(s, n) \/ Forget(s, n)
      PROVE  CancelsAllowed'
    BY <1>3
       DEF Stall, Forget
<1>4. ASSUME NEW w \in Workers,
             Claim(w) \/ ClaimThrows(w) \/ Abandon(w) \/ RefundAbandoned(w) \/
             Escape(w) \/ AgentGone(w) \/ Enter(w) \/ Head(w) \/ Step(w) \/
             Complete(w) \/ NoModel(w) \/ Break(w)
      PROVE  CancelsAllowed'
    BY <1>4
       DEF Claim, TakeRow, Return, ClaimThrows, Throw, Abandon, SetStatus,
           RefundAbandoned, Escape, AgentGone, Enter, Head, Step, Complete, NoModel, Break
<1>5. ASSUME NEW w \in Workers,
             Charge(w) \/ Save(w) \/ SaveFails(w) \/ Catch(w) \/ Refund(w) \/
             SaveFailed(w) \/ Leave(w) \/ Release(w) \/ Report(w) \/ ReportThrows(w) \/
             Renew(w) \/ CrashWorker(w)
      PROVE  CancelsAllowed'
    BY <1>5
       DEF Charge, Save, SetStatus, SaveFails, Catch, Refund, SaveFailed, Leave, Release,
           DropLease, NoLease, Return, Throw, Report, ReportThrows, Renew, CrashWorker
<1>6. ASSUME NEW w \in Workers, NEW s \in Sessions, TakeDirect(w, s) PROVE CancelsAllowed'
    BY <1>6
       DEF TakeDirect
<1>7. ASSUME NEW w \in Workers, NEW s \in Sessions, NEW n \in JobIds,
             TakeJob(w, s, n)
      PROVE  CancelsAllowed'
    BY <1>7
       DEF TakeJob
<1>8. ASSUME NEW p \in Reapers,
             Resume(p) \/ FailExhausted(p) \/ RefundExhausted(p) \/ TellStopped(p) \/
             RefundOrphan(p) \/ CrashReaper(p)
      PROVE  CancelsAllowed'
    BY <1>8
       DEF Resume, FailExhausted, NoLease, Exhausted, Lapsed, RefundExhausted,
           TellStopped, RefundOrphan, CrashReaper
<1>9. ASSUME NEW p \in Reapers, NEW s \in Sessions,
             ListLapsed(p, s) \/ ClaimOrphan(p, s)
      PROVE  CancelsAllowed'
    BY <1>9
       DEF ListLapsed, Lapsed, ClaimOrphan, SetStatus
<1> QED
    BY <1>1, <1>2, <1>3, <1>4, <1>5, <1>6, <1>7, <1>8, <1>9
       DEF Next, HandoffStep, CancelStep, WorkerStep, ReaperStep

\* The row of a session being handed over changes by its handoff alone.
LEMMA HandingRowStays ==
    ASSUME Calm, TypeOK, RowInv, HandingRow, HandingQueue, HandingWorkers, HandingReapers,
           CancelsAllowed, Next
    PROVE  HandingRow'
<1> USE DEF rowVars, leaseVars, queueVars, RowsTyped, RowInv, Early, HandingRow, HandingWorkers,
            HandingReapers, HandingQueue, CancelsAllowed, ToHandoff, Pays, LeasedPcs, Calm, Open
<1>1. RowsTyped
    BY DEF TypeOK
<1>2. handoff \in [Sessions -> HandoffPcs]
    BY DEF TypeOK, HoldsTyped
<1>3. \A w \in Workers : wk[w].pc # "idle" => wk[w].s \in Sessions
    BY DEF TypeOK, ProcessesTyped
<1>4. \A p \in Reapers : rp[p].pc # "idle" => rp[p].s \in Sessions
    BY DEF TypeOK, ProcessesTyped
<1>5. ASSUME NEW s \in Sessions,
             Reserve(s) \/ CreateRow(s) \/ CreateThrows(s) \/ Enqueue(s) \/
             CountersThrow(s) \/ CancelUnsettled(s) \/ CrashHandoff(s) \/
             ReadCancel(s) \/ CancelJob(s) \/ WriteCancel(s) \/ Lapse(s) \/ Age(s)
      PROVE  HandingRow'
    BY <1>5, <1>1, <1>2, <1>3, <1>4, PaidTyped, PaidStays
       DEF Reserve, ToHandoff, CreateRow, SetStatus, CreateThrows, Enqueue, CountersThrow,
           CancelUnsettled, CrashHandoff, ReadCancel, ToCancel, CancelJob, WriteCancel,
           Lapse, Age
<1>6. ASSUME NEW s \in Sessions, RefundHandoff(s) PROVE HandingRow'
    BY <1>6, <1>1, <1>2, <1>3, <1>4, PaidTyped, PaidStays, GivesOnce
       DEF RefundHandoff, ToHandoff
<1>7. ASSUME NEW s \in Sessions, LoseJob(s) PROVE HandingRow'
    BY <1>7, <1>1, <1>2, <1>3, <1>4, PaidTyped, PaidStays
       DEF LoseJob
<1>8. ASSUME NEW s \in Sessions, NEW n \in JobIds,
             Stall(s, n) \/ Forget(s, n)
      PROVE  HandingRow'
    BY <1>8, <1>1, <1>2, <1>3, <1>4, PaidTyped, PaidStays
       DEF Stall, Forget
<1>9. ASSUME NEW w \in Workers,
             Claim(w) \/ ClaimThrows(w) \/ Abandon(w) \/ Escape(w) \/ AgentGone(w) \/
             Enter(w) \/ Head(w) \/ Step(w) \/ Complete(w) \/ NoModel(w) \/ Break(w) \/
             Save(w)
      PROVE  HandingRow'
    BY <1>9, <1>1, <1>2, <1>3, <1>4, PaidTyped, PaidStays
       DEF Claim, TakeRow, Return, ClaimThrows, Throw, Abandon, SetStatus, Escape,
           AgentGone, Enter, Head, Step, Complete, NoModel, Break, Save
<1>10. ASSUME NEW w \in Workers,
             RefundAbandoned(w) \/ Charge(w) \/ Refund(w)
      PROVE  HandingRow'
    BY <1>10, <1>1, <1>2, <1>3, <1>4, PaidTyped, PaidStays, GivesOnce
       DEF RefundAbandoned, Charge, Refund
<1>11. ASSUME NEW w \in Workers,
             SaveFails(w) \/ Catch(w) \/ SaveFailed(w) \/ Leave(w) \/ Release(w) \/
             Report(w) \/ ReportThrows(w) \/ Renew(w) \/ CrashWorker(w)
      PROVE  HandingRow'
    BY <1>11, <1>1, <1>2, <1>3, <1>4, PaidTyped, PaidStays
       DEF SaveFails, Catch, SaveFailed, SetStatus, Leave, Release, DropLease, NoLease,
           Return, Throw, Report, ReportThrows, Renew, CrashWorker
<1>12. ASSUME NEW w \in Workers, NEW s \in Sessions, TakeDirect(w, s) PROVE HandingRow'
    BY <1>12, <1>1, <1>2, <1>3, <1>4, PaidTyped, PaidStays
       DEF TakeDirect
<1>13. ASSUME NEW w \in Workers, NEW s \in Sessions, NEW n \in JobIds,
             TakeJob(w, s, n)
      PROVE  HandingRow'
    BY <1>13, <1>1, <1>2, <1>3, <1>4, PaidTyped, PaidStays
       DEF TakeJob
<1>14. ASSUME NEW p \in Reapers,
             Resume(p) \/ FailExhausted(p) \/ TellStopped(p) \/ CrashReaper(p)
      PROVE  HandingRow'
    BY <1>14, <1>1, <1>2, <1>3, <1>4, PaidTyped, PaidStays
       DEF Resume, FailExhausted, NoLease, Exhausted, Lapsed, TellStopped, CrashReaper
<1>15. ASSUME NEW p \in Reapers, RefundExhausted(p) \/ RefundOrphan(p) PROVE HandingRow'
    BY <1>15, <1>1, <1>2, <1>3, <1>4, PaidTyped, PaidStays, GivesOnce
       DEF RefundExhausted, RefundOrphan
<1>16. ASSUME NEW p \in Reapers, NEW s \in Sessions,
             ListLapsed(p, s) \/ ClaimOrphan(p, s)
      PROVE  HandingRow'
    BY <1>16, <1>1, <1>2, <1>3, <1>4, PaidTyped, PaidStays
       DEF ListLapsed, Lapsed, ClaimOrphan, SetStatus
<1> QED
    BY <1>5, <1>6, <1>7, <1>8, <1>9, <1>10, <1>11, <1>12, <1>13, <1>14, <1>15, <1>16
       DEF Next, HandoffStep, CancelStep, WorkerStep, ReaperStep

\* Nothing is queued before the handoff queues it, its last step.
LEMMA HandingQueueStays ==
    ASSUME Calm, TypeOK, HandingQueue, HandingWorkers, HandingReapers, CancelsAllowed, Next
    PROVE  HandingQueue'
<1> USE DEF rowVars, leaseVars, queueVars, QueueTyped, HandingQueue, HandingWorkers,
            HandingReapers, CancelsAllowed, Calm, LeasedPcs, ToHandoff
<1>1. handoff \in [Sessions -> HandoffPcs]
    BY DEF TypeOK, HoldsTyped
<1>2. QueueTyped
    BY DEF TypeOK
<1>3. \A w \in Workers : wk[w].pc # "idle" => wk[w].s \in Sessions
    BY DEF TypeOK, ProcessesTyped
<1>4. \A p \in Reapers : rp[p].pc # "idle" => rp[p].s \in Sessions
    BY DEF TypeOK, ProcessesTyped
<1>5. ASSUME NEW s \in Sessions,
             Reserve(s) \/ CreateRow(s) \/ CreateThrows(s) \/ Enqueue(s) \/
             CountersThrow(s) \/ CancelUnsettled(s) \/ RefundHandoff(s) \/
             CrashHandoff(s) \/ ReadCancel(s) \/ CancelJob(s) \/ WriteCancel(s) \/
             Lapse(s)
      PROVE  HandingQueue'
    BY <1>5, <1>1, <1>2, <1>3, <1>4
       DEF Reserve, ToHandoff, CreateRow, SetStatus, CreateThrows, Enqueue, Hand, Add,
           CountersThrow, CancelUnsettled, RefundHandoff, CrashHandoff, ReadCancel,
           ToCancel, CancelJob, NoJob, WriteCancel, Lapse
<1>6. ASSUME NEW s \in Sessions, Age(s) \/ LoseJob(s) PROVE HandingQueue'
    BY <1>6, <1>1, <1>2, <1>3, <1>4
       DEF Age, LoseJob, NoJob
<1>7. ASSUME NEW s \in Sessions, NEW n \in JobIds,
             Stall(s, n) \/ Forget(s, n)
      PROVE  HandingQueue'
    BY <1>7, <1>1, <1>2, <1>3, <1>4
       DEF Stall, NoJob, KeptJob, Forget
<1>8. ASSUME NEW w \in Workers,
             Claim(w) \/ ClaimThrows(w) \/ Abandon(w) \/ RefundAbandoned(w) \/
             Escape(w) \/ AgentGone(w) \/ Enter(w) \/ Head(w) \/ Step(w) \/
             Complete(w) \/ NoModel(w) \/ Break(w)
      PROVE  HandingQueue'
    BY <1>8, <1>1, <1>2, <1>3, <1>4
       DEF Claim, TakeRow, Return, Finish, ClaimThrows, Throw, Abandon, SetStatus,
           RefundAbandoned, Escape, AgentGone, Enter, Head, Step, Complete, NoModel, Break
<1>9. ASSUME NEW w \in Workers,
             Charge(w) \/ Save(w) \/ SaveFails(w) \/ Catch(w) \/ Refund(w) \/
             SaveFailed(w) \/ Leave(w) \/ Release(w) \/ Report(w) \/ ReportThrows(w) \/
             Renew(w) \/ CrashWorker(w)
      PROVE  HandingQueue'
    BY <1>9, <1>1, <1>2, <1>3, <1>4
       DEF Charge, Save, SetStatus, SaveFails, Catch, Refund, SaveFailed, Leave, Release,
           DropLease, NoLease, Return, Throw, Finish, Report, ReportThrows, Renew,
           CrashWorker
<1>10. ASSUME NEW w \in Workers, NEW s \in Sessions, TakeDirect(w, s) PROVE HandingQueue'
    BY <1>10, <1>1, <1>2, <1>3, <1>4
       DEF TakeDirect
<1>11. ASSUME NEW w \in Workers, NEW s \in Sessions, NEW n \in JobIds,
             TakeJob(w, s, n)
      PROVE  HandingQueue'
    BY <1>11, <1>1, <1>2, <1>3, <1>4
       DEF TakeJob
<1>12. ASSUME NEW p \in Reapers,
             Resume(p) \/ FailExhausted(p) \/ RefundExhausted(p) \/ TellStopped(p) \/
             RefundOrphan(p) \/ CrashReaper(p)
      PROVE  HandingQueue'
    BY <1>12, <1>1, <1>2, <1>3, <1>4
       DEF Resume, Hand, Add, FailExhausted, NoLease, Exhausted, Lapsed, RefundExhausted,
           TellStopped, RefundOrphan, CrashReaper
<1>13. ASSUME NEW p \in Reapers, NEW s \in Sessions,
             ListLapsed(p, s) \/ ClaimOrphan(p, s)
      PROVE  HandingQueue'
    BY <1>13, <1>1, <1>2, <1>3, <1>4
       DEF ListLapsed, Lapsed, ClaimOrphan, SetStatus
<1> QED
    BY <1>5, <1>6, <1>7, <1>8, <1>9, <1>10, <1>11, <1>12, <1>13
       DEF Next, HandoffStep, CancelStep, WorkerStep, ReaperStep

\* A worker takes a session from the queue: its handoff is over.
LEMMA HandingWorkersStay ==
    ASSUME Calm, TypeOK, HandingRow, HandingQueue, HandingWorkers, HandingReapers, CancelsAllowed,
           Next
    PROVE  HandingWorkers'
<1> USE DEF rowVars, leaseVars, queueVars, HandingQueue, HandingWorkers, ToHandoff, Moved,
            Idled, Begun, SamePlaces, LeasedPcs
<1>1. handoff \in [Sessions -> HandoffPcs]
    BY DEF TypeOK, HoldsTyped
<1>2. \A w \in Workers : wk[w].pc # "idle" => wk[w].s \in Sessions
    BY DEF TypeOK, ProcessesTyped
<1>3. ASSUME NEW s \in Sessions,
             Reserve(s) \/ CreateRow(s) \/ CreateThrows(s) \/ Enqueue(s) \/
             CountersThrow(s) \/ CancelUnsettled(s) \/ RefundHandoff(s) \/
             CrashHandoff(s) \/ ReadCancel(s) \/ CancelJob(s) \/ WriteCancel(s) \/
             Lapse(s)
      PROVE  HandingWorkers'
    BY <1>3, <1>1, <1>2
       DEF Reserve, ToHandoff, CreateRow, SetStatus, CreateThrows, Enqueue, CountersThrow,
           CancelUnsettled, RefundHandoff, CrashHandoff, ReadCancel, ToCancel, CancelJob,
           WriteCancel, Lapse
<1>4. ASSUME NEW s \in Sessions, Age(s) \/ LoseJob(s) PROVE HandingWorkers'
    BY <1>4, <1>1, <1>2
       DEF Age, LoseJob
<1>5. ASSUME NEW s \in Sessions, NEW n \in JobIds,
             Stall(s, n) \/ Forget(s, n)
      PROVE  HandingWorkers'
    BY <1>5, <1>1, <1>2
       DEF Stall, Forget
<1>6. ASSUME NEW w \in Workers, Claim(w) PROVE HandingWorkers'
    BY <1>6, <1>1, <1>2, ClaimMoves, IdleIdles
       DEF Claim, TakeRow, Return, ClaimStep
<1>7. ASSUME NEW w \in Workers, ClaimThrows(w) PROVE HandingWorkers'
    <2>1. Idled(w)
        BY <1>7, IdleIdles DEF ClaimThrows, Throw
    <2> QED
        BY <2>1, <1>7, <1>1, <1>2 DEF ClaimThrows, Throw
<1>8. ASSUME NEW w \in Workers,
             Abandon(w) \/ AgentGone(w) \/ Complete(w) \/ SaveFailed(w)
      PROVE  HandingWorkers'
    BY <1>8, <1>1, <1>2, EndsMoves
       DEF Abandon, SetStatus, AgentGone, Complete, SaveFailed
<1>9. ASSUME NEW w \in Workers, RefundAbandoned(w) \/ Leave(w) PROVE HandingWorkers'
    BY <1>9, <1>1, <1>2, LeavesMoves
       DEF RefundAbandoned, Leave
<1>10. ASSUME NEW w \in Workers, Escape(w) PROVE HandingWorkers'
    <2>1. Moved(w, "release")
        BY <1>10, LeavesMoves DEF Escape
    <2> QED
        BY <2>1, <1>10, <1>1, <1>2 DEF Escape
<1>11. ASSUME NEW w \in Workers, Enter(w) PROVE HandingWorkers'
    BY <1>11, <1>1, <1>2, GotoMoves, EndsMoves
       DEF Enter
<1>12. ASSUME NEW w \in Workers, Head(w) PROVE HandingWorkers'
    BY <1>12, <1>1, <1>2, GotoMoves, EndsMoves, LeavesMoves
       DEF Head
<1>13. ASSUME NEW w \in Workers,
             Step(w) \/ NoModel(w) \/ Break(w) \/ Charge(w) \/ Save(w) \/
             SaveFails(w) \/ Refund(w)
      PROVE  HandingWorkers'
    BY <1>13, <1>1, <1>2, GotoMoves
       DEF Step, NoModel, SetStatus, Break, Charge, Save, SaveFails, Refund
<1>14. ASSUME NEW w \in Workers, Catch(w) PROVE HandingWorkers'
    BY <1>14, <1>1, <1>2, GotoMoves, LeavesMoves
       DEF Catch
<1>15. ASSUME NEW w \in Workers, Release(w) PROVE HandingWorkers'
    BY <1>15, <1>1, <1>2, GotoMoves, IdleIdles
       DEF Release, DropLease, NoLease, Return, Throw
<1>16. ASSUME NEW w \in Workers, Report(w) PROVE HandingWorkers'
    <2>1. Idled(w)
        BY <1>16, IdleIdles DEF Report, Return
    <2> QED
        BY <2>1, <1>16, <1>1, <1>2 DEF Report, Return
<1>17. ASSUME NEW w \in Workers, ReportThrows(w) PROVE HandingWorkers'
    <2>1. Idled(w)
        BY <1>17, IdleIdles DEF ReportThrows, Throw
    <2> QED
        BY <2>1, <1>17, <1>1, <1>2 DEF ReportThrows, Throw
<1>18. ASSUME NEW w \in Workers, Renew(w) PROVE HandingWorkers'
    BY <1>18, <1>1, <1>2, LostStays
       DEF Renew
<1>19. ASSUME NEW w \in Workers, CrashWorker(w) PROVE HandingWorkers'
    <2>1. Idled(w)
        BY <1>19, IdleIdles DEF CrashWorker, SettlingPcs
    <2> QED
        BY <2>1, <1>19, <1>1, <1>2 DEF CrashWorker, SettlingPcs
<1>20. ASSUME NEW w \in Workers, NEW s \in Sessions, TakeDirect(w, s) PROVE HandingWorkers'
    <2>1. Begun(w, s)
        BY <1>20, BeginBegins DEF TakeDirect
    <2> QED
        BY <2>1, <1>20, <1>1, <1>2 DEF TakeDirect
<1>21. ASSUME NEW w \in Workers, NEW s \in Sessions, NEW n \in JobIds,
             TakeJob(w, s, n)
      PROVE  HandingWorkers'
    <2>1. Begun(w, s)
        BY <1>21, BeginBegins DEF TakeJob
    <2> QED
        BY <2>1, <1>21, <1>1, <1>2 DEF TakeJob
<1>22. ASSUME NEW p \in Reapers,
             Resume(p) \/ FailExhausted(p) \/ RefundExhausted(p) \/ TellStopped(p) \/
             RefundOrphan(p) \/ CrashReaper(p)
      PROVE  HandingWorkers'
    BY <1>22, <1>1, <1>2
       DEF Resume, FailExhausted, NoLease, Exhausted, Lapsed, RefundExhausted,
           TellStopped, RefundOrphan, CrashReaper
<1>23. ASSUME NEW p \in Reapers, NEW s \in Sessions,
             ListLapsed(p, s) \/ ClaimOrphan(p, s)
      PROVE  HandingWorkers'
    BY <1>23, <1>1, <1>2
       DEF ListLapsed, Lapsed, ClaimOrphan, SetStatus
<1> QED
    BY <1>3, <1>4, <1>5, <1>6, <1>7, <1>8, <1>9, <1>10, <1>11, <1>12, <1>13, <1>14, <1>15,
       <1>16, <1>17, <1>18, <1>19, <1>20, <1>21, <1>22, <1>23
       DEF Next, HandoffStep, CancelStep, WorkerStep, ReaperStep

\* A sweep takes an old or lapsed row: its handoff is over.
LEMMA HandingReapersStay ==
    ASSUME Calm, TypeOK, HandingRow, HandingQueue, HandingWorkers, HandingReapers, CancelsAllowed,
           Next
    PROVE  HandingReapers'
<1> USE DEF rowVars, leaseVars, queueVars, Open, HandingRow, HandingReapers, ToHandoff,
            ReaperMoved, ReaperIdled, ReaperBegun
<1>1. handoff \in [Sessions -> HandoffPcs]
    BY DEF TypeOK, HoldsTyped
<1>2. \A p \in Reapers : rp[p].pc # "idle" => rp[p].s \in Sessions
    BY DEF TypeOK, ProcessesTyped
<1>3. ASSUME NEW s \in Sessions,
             Reserve(s) \/ CreateRow(s) \/ CreateThrows(s) \/ Enqueue(s) \/
             CountersThrow(s) \/ CancelUnsettled(s) \/ RefundHandoff(s) \/
             CrashHandoff(s) \/ ReadCancel(s) \/ CancelJob(s) \/ WriteCancel(s) \/
             Lapse(s)
      PROVE  HandingReapers'
    BY <1>3, <1>1, <1>2
       DEF Reserve, ToHandoff, CreateRow, SetStatus, CreateThrows, Enqueue, CountersThrow,
           CancelUnsettled, RefundHandoff, CrashHandoff, ReadCancel, ToCancel, CancelJob,
           WriteCancel, Lapse
<1>4. ASSUME NEW s \in Sessions, Age(s) \/ LoseJob(s) PROVE HandingReapers'
    BY <1>4, <1>1, <1>2
       DEF Age, LoseJob
<1>5. ASSUME NEW s \in Sessions, NEW n \in JobIds,
             Stall(s, n) \/ Forget(s, n)
      PROVE  HandingReapers'
    BY <1>5, <1>1, <1>2
       DEF Stall, Forget
<1>6. ASSUME NEW w \in Workers,
             Claim(w) \/ ClaimThrows(w) \/ Abandon(w) \/ RefundAbandoned(w) \/
             Escape(w) \/ AgentGone(w) \/ Enter(w) \/ Head(w) \/ Step(w) \/
             Complete(w) \/ NoModel(w) \/ Break(w)
      PROVE  HandingReapers'
    BY <1>6, <1>1, <1>2
       DEF Claim, TakeRow, Return, ClaimThrows, Throw, Abandon, SetStatus,
           RefundAbandoned, Escape, AgentGone, Enter, Head, Step, Complete, NoModel, Break
<1>7. ASSUME NEW w \in Workers,
             Charge(w) \/ Save(w) \/ SaveFails(w) \/ Catch(w) \/ Refund(w) \/
             SaveFailed(w) \/ Leave(w) \/ Release(w) \/ Report(w) \/ ReportThrows(w) \/
             Renew(w) \/ CrashWorker(w)
      PROVE  HandingReapers'
    BY <1>7, <1>1, <1>2
       DEF Charge, Save, SetStatus, SaveFails, Catch, Refund, SaveFailed, Leave, Release,
           DropLease, NoLease, Return, Throw, Report, ReportThrows, Renew, CrashWorker
<1>8. ASSUME NEW w \in Workers, NEW s \in Sessions, TakeDirect(w, s) PROVE HandingReapers'
    BY <1>8, <1>1, <1>2
       DEF TakeDirect
<1>9. ASSUME NEW w \in Workers, NEW s \in Sessions, NEW n \in JobIds,
             TakeJob(w, s, n)
      PROVE  HandingReapers'
    BY <1>9, <1>1, <1>2
       DEF TakeJob
<1>10. ASSUME NEW p \in Reapers, Resume(p) PROVE HandingReapers'
    <2>1. ReaperIdled(p)
        BY <1>10, ReaperLeaves DEF Resume
    <2> QED
        BY <2>1, <1>10, <1>1, <1>2 DEF Resume
<1>11. ASSUME NEW p \in Reapers, FailExhausted(p) PROVE HandingReapers'
    BY <1>11, <1>1, <1>2, ReaperMoves, ReaperLeaves
       DEF FailExhausted, NoLease, Exhausted, Lapsed
<1>12. ASSUME NEW p \in Reapers, RefundExhausted(p) PROVE HandingReapers'
    BY <1>12, <1>1, <1>2, ReaperMoves
       DEF RefundExhausted
<1>13. ASSUME NEW p \in Reapers, TellStopped(p) PROVE HandingReapers'
    <2>1. ReaperIdled(p)
        BY <1>13, ReaperLeaves DEF TellStopped
    <2> QED
        BY <2>1, <1>13, <1>1, <1>2 DEF TellStopped
<1>14. ASSUME NEW p \in Reapers, RefundOrphan(p) PROVE HandingReapers'
    <2>1. ReaperIdled(p)
        BY <1>14, ReaperLeaves DEF RefundOrphan
    <2>2. rp[p].s \in Sessions
        BY <1>14, <1>1, <1>2 DEF RefundOrphan
    <2>3. GiveBack(rp[p].s)
        BY <1>14 DEF RefundOrphan
    <2>4. Pays(rp[p].s)
        BY <2>2, <2>3, GivesOnce
    <2> QED
        BY <2>1, <2>2, <2>4, <1>14, <1>1, <1>2 DEF RefundOrphan
<1>15. ASSUME NEW p \in Reapers, CrashReaper(p) PROVE HandingReapers'
    <2>1. ReaperIdled(p)
        BY <1>15, ReaperLeaves DEF CrashReaper
    <2> QED
        BY <2>1, <1>15, <1>1, <1>2 DEF CrashReaper
<1>16. ASSUME NEW p \in Reapers, NEW s \in Sessions, ListLapsed(p, s) PROVE HandingReapers'
    <2>1. ReaperBegun(p, "reap", s)
        BY <1>16, ReaperBegins DEF ListLapsed
    <2> QED
        BY <2>1, <1>16, <1>1, <1>2 DEF ListLapsed, Lapsed, HandoffPcs
<1>17. ASSUME NEW p \in Reapers, NEW s \in Sessions,
             ClaimOrphan(p, s)
      PROVE  HandingReapers'
    <2>1. ReaperBegun(p, "refundOrphan", s)
        BY <1>17, ReaperBegins DEF ClaimOrphan
    <2> QED
        BY <2>1, <1>17, <1>1, <1>2 DEF ClaimOrphan, SetStatus, HandoffPcs
<1> QED
    BY <1>3, <1>4, <1>5, <1>6, <1>7, <1>8, <1>9, <1>10, <1>11, <1>12, <1>13, <1>14, <1>15,
       <1>16, <1>17
       DEF Next, HandoffStep, CancelStep, WorkerStep, ReaperStep

\* What makes a row claimable, a lapse or a release, leaves it unpaid and at rest.
LEMMA RowHoldStays ==
    ASSUME Calm, TypeOK, LeaseInv, RowHold, DriverHold, SweepHold, HandingRow,
           HandingWorkers, HandingReapers, CancelsAllowed, Next
    PROVE  RowHold'
<1> USE DEF rowVars, leaseVars, queueVars, RowHold, DriverHold, SweepHold, HandingRow,
            HandingWorkers, HandingReapers, CancelsAllowed, Resting, Unswept, Sweeping, Drives,
            Calm, Open, Terminal, UnpaidPcs, RunningPcs, Pays, ToHandoff, Moved, Idled,
            Begun, SamePlaces, LeasedPcs, ReaperMoved, ReaperIdled, ReaperBegun
<1>1. status \in [Sessions -> {"none"} \cup Open \cup Terminal]
    BY DEF TypeOK, RowsTyped
<1>2. handoff \in [Sessions -> HandoffPcs]
    BY DEF TypeOK, HoldsTyped
<1>3. \A w \in Workers : wk[w].pc # "idle" => wk[w].s \in Sessions
    BY DEF TypeOK, ProcessesTyped
<1>4. \A p \in Reapers : rp[p].pc # "idle" => rp[p].s \in Sessions
    BY DEF TypeOK, ProcessesTyped
<1>5. ASSUME NEW s \in Sessions,
             Reserve(s) \/ CreateRow(s) \/ CreateThrows(s) \/ Enqueue(s) \/
             CountersThrow(s) \/ CancelUnsettled(s) \/ CrashHandoff(s) \/
             ReadCancel(s) \/ CancelJob(s) \/ WriteCancel(s) \/ Lapse(s) \/ Age(s)
      PROVE  RowHold'
    BY <1>5, <1>1, <1>2, <1>3, <1>4, PaidTyped, PaidStays
       DEF Reserve, ToHandoff, CreateRow, SetStatus, CreateThrows, Enqueue, CountersThrow,
           CancelUnsettled, CrashHandoff, ReadCancel, ToCancel, CancelJob, WriteCancel,
           Lapse, Age
<1>6. ASSUME NEW s \in Sessions, RefundHandoff(s) PROVE RowHold'
    <2>1. GiveBack(s)
        BY <1>6 DEF RefundHandoff
    <2>2. Pays(s)
        BY <2>1, GivesOnce
    <2> QED
        BY <2>2, <1>6, <1>1, <1>2, <1>3, <1>4, PaidTyped, PaidStays DEF RefundHandoff
<1>7. ASSUME NEW s \in Sessions, LoseJob(s) PROVE RowHold'
    BY <1>7, <1>1, <1>2, <1>3, <1>4, PaidTyped, PaidStays
       DEF LoseJob
<1>8. ASSUME NEW s \in Sessions, NEW n \in JobIds,
             Stall(s, n) \/ Forget(s, n)
      PROVE  RowHold'
    BY <1>8, <1>1, <1>2, <1>3, <1>4, PaidTyped, PaidStays
       DEF Stall, Forget
<1>9. ASSUME NEW w \in Workers, Claim(w) PROVE RowHold'
    <2>1. CASE ClaimStep(w)
        <3>1. PICK pc \in {"enter", "abandon"} : Moved(w, pc)
            BY <2>1, ClaimMoves
        <3>2. /\ wk[w].s \in Sessions /\ wk[w].pc = "claim"
              /\ status[wk[w].s] \in Open /\ lease[wk[w].s] # "live"
            BY <2>1, <1>9, <1>1, <1>2, <1>3, <1>4, PaidTyped, PaidStays
               DEF ClaimStep, Claimable
        <3>3. \A r \in Sessions : status'[r] = IF r = wk[w].s THEN "running" ELSE status[r]
            BY <2>1, <3>2, <1>1, <1>2, <1>3, <1>4, PaidTyped, PaidStays
               DEF ClaimStep, TakeRow
        <3>4. UNCHANGED rp /\ UNCHANGED moneyVars
            BY <1>9 DEF Claim
        <3> QED
            BY <3>1, <3>2, <3>3, <3>4, <1>1, <1>2, <1>3, <1>4, PaidTyped, PaidStays
    <2>2. CASE ~Claimable(wk[w].s) /\ Return(w) /\ UNCHANGED rowVars
        <3>1. Idled(w)
            BY <2>2, IdleIdles DEF Return
        <3>2. wk[w].pc = "claim" /\ UNCHANGED <<handoff, status, moneyVars, rp>>
            BY <2>2, <1>9 DEF Claim
        <3> QED
            BY <3>1, <3>2, <1>1, <1>2, <1>3, <1>4, PaidTyped, PaidStays
    <2> QED
        BY <2>1, <2>2, <1>9 DEF Claim, ClaimStep
<1>10. ASSUME NEW w \in Workers, ClaimThrows(w) PROVE RowHold'
    <2>1. Idled(w)
        BY <1>10, IdleIdles DEF ClaimThrows, Throw
    <2> QED
        BY <2>1, <1>10, <1>1, <1>2, <1>3, <1>4, PaidTyped, PaidStays DEF ClaimThrows, Throw
<1>11. ASSUME NEW w \in Workers,
             Abandon(w) \/ AgentGone(w) \/ Complete(w) \/ SaveFailed(w)
      PROVE  RowHold'
    BY <1>11, <1>1, <1>2, <1>3, <1>4, PaidTyped, PaidStays, EndsMoves
       DEF Abandon, SetStatus, AgentGone, Complete, SaveFailed
<1>12. ASSUME NEW w \in Workers, RefundAbandoned(w) PROVE RowHold'
    <2>1. wk[w].s \in Sessions
        BY <1>12, <1>1, <1>2, <1>3, <1>4, PaidTyped, PaidStays DEF RefundAbandoned
    <2>2. GiveBack(wk[w].s)
        BY <1>12 DEF RefundAbandoned
    <2>3. Pays(wk[w].s)
        BY <2>1, <2>2, GivesOnce
    <2>4. Moved(w, "release")
        BY <1>12, LeavesMoves DEF RefundAbandoned
    <2> QED
        BY <2>1, <2>3, <2>4, <1>12, <1>1, <1>2, <1>3, <1>4, PaidTyped, PaidStays
           DEF RefundAbandoned
<1>13. ASSUME NEW w \in Workers, Escape(w) PROVE RowHold'
    <2>1. Moved(w, "release")
        BY <1>13, LeavesMoves DEF Escape
    <2> QED
        BY <2>1, <1>13, <1>1, <1>2, <1>3, <1>4, PaidTyped, PaidStays DEF Escape
<1>14. ASSUME NEW w \in Workers, Enter(w) PROVE RowHold'
    BY <1>14, <1>1, <1>2, <1>3, <1>4, PaidTyped, PaidStays, GotoMoves, EndsMoves
       DEF Enter
<1>15. ASSUME NEW w \in Workers, Head(w) PROVE RowHold'
    BY <1>15, <1>1, <1>2, <1>3, <1>4, PaidTyped, PaidStays, GotoMoves, EndsMoves,
       LeavesMoves
       DEF Head
<1>16. ASSUME NEW w \in Workers,
             Step(w) \/ NoModel(w) \/ Break(w) \/ SaveFails(w)
      PROVE  RowHold'
    BY <1>16, <1>1, <1>2, <1>3, <1>4, PaidTyped, PaidStays, GotoMoves
       DEF Step, NoModel, SetStatus, Break, SaveFails
<1>17. ASSUME NEW w \in Workers, Charge(w) PROVE RowHold'
    <2>1. wk[w].s \in Sessions
        BY <1>17, <1>1, <1>2, <1>3, <1>4, PaidTyped, PaidStays DEF Charge
    <2>2. ChargeHold(wk[w].s)
        BY <1>17 DEF Charge
    <2>3. Pays(wk[w].s)
        BY <2>1, <2>2, GivesOnce
    <2>4. Moved(w, "save")
        BY <1>17, GotoMoves DEF Charge
    <2> QED
        BY <2>1, <2>3, <2>4, <1>17, <1>1, <1>2, <1>3, <1>4, PaidTyped, PaidStays DEF Charge
<1>18. ASSUME NEW w \in Workers, Save(w) PROVE RowHold'
    <2>1. Moved(w, "settled") /\ wk[w].final \in Terminal
        BY <1>18, GotoMoves DEF Save, TypeOK, ProcessesTyped
    <2> QED
        BY <2>1, <1>18, <1>1, <1>2, <1>3, <1>4, PaidTyped, PaidStays DEF Save, SetStatus
<1>19. ASSUME NEW w \in Workers, Catch(w) PROVE RowHold'
    BY <1>19, <1>1, <1>2, <1>3, <1>4, PaidTyped, PaidStays, GotoMoves, LeavesMoves
       DEF Catch
<1>20. ASSUME NEW w \in Workers, Refund(w) PROVE RowHold'
    <2>1. wk[w].s \in Sessions
        BY <1>20, <1>1, <1>2, <1>3, <1>4, PaidTyped, PaidStays DEF Refund
    <2>2. GiveBack(wk[w].s)
        BY <1>20 DEF Refund
    <2>3. Pays(wk[w].s)
        BY <2>1, <2>2, GivesOnce
    <2>4. Moved(w, "saveFailed")
        BY <1>20, GotoMoves DEF Refund
    <2> QED
        BY <2>1, <2>3, <2>4, <1>20, <1>1, <1>2, <1>3, <1>4, PaidTyped, PaidStays DEF Refund
<1>21. ASSUME NEW w \in Workers, Leave(w) PROVE RowHold'
    BY <1>21, <1>1, <1>2, <1>3, <1>4, PaidTyped, PaidStays, LeavesMoves
       DEF Leave
<1>22. ASSUME NEW w \in Workers, Release(w) PROVE RowHold'
    BY <1>22, <1>1, <1>2, <1>3, <1>4, PaidTyped, PaidStays, GotoMoves, IdleIdles
       DEF Release, DropLease, NoLease, Return, Throw
<1>23. ASSUME NEW w \in Workers, Report(w) PROVE RowHold'
    <2>1. Idled(w)
        BY <1>23, IdleIdles DEF Report, Return
    <2> QED
        BY <2>1, <1>23, <1>1, <1>2, <1>3, <1>4, PaidTyped, PaidStays DEF Report, Return
<1>24. ASSUME NEW w \in Workers, ReportThrows(w) PROVE RowHold'
    <2>1. Idled(w)
        BY <1>24, IdleIdles DEF ReportThrows, Throw
    <2> QED
        BY <2>1, <1>24, <1>1, <1>2, <1>3, <1>4, PaidTyped, PaidStays DEF ReportThrows, Throw
<1>25. ASSUME NEW w \in Workers, Renew(w) PROVE RowHold'
    BY <1>25, <1>1, <1>2, <1>3, <1>4, PaidTyped, PaidStays, LostStays
       DEF Renew
<1>26. ASSUME NEW w \in Workers, CrashWorker(w) PROVE RowHold'
    <2>1. Idled(w)
        BY <1>26, IdleIdles DEF CrashWorker, SettlingPcs
    <2> QED
        BY <2>1, <1>26, <1>1, <1>2, <1>3, <1>4, PaidTyped, PaidStays
           DEF CrashWorker, SettlingPcs
<1>27. ASSUME NEW w \in Workers, NEW s \in Sessions, TakeDirect(w, s) PROVE RowHold'
    <2>1. Begun(w, s)
        BY <1>27, BeginBegins DEF TakeDirect
    <2> QED
        BY <2>1, <1>27, <1>1, <1>2, <1>3, <1>4, PaidTyped, PaidStays DEF TakeDirect
<1>28. ASSUME NEW w \in Workers, NEW s \in Sessions, NEW n \in JobIds,
             TakeJob(w, s, n)
      PROVE  RowHold'
    <2>1. Begun(w, s)
        BY <1>28, BeginBegins DEF TakeJob
    <2> QED
        BY <2>1, <1>28, <1>1, <1>2, <1>3, <1>4, PaidTyped, PaidStays DEF TakeJob
<1>29. ASSUME NEW p \in Reapers, Resume(p) PROVE RowHold'
    <2>1. ReaperIdled(p)
        BY <1>29, ReaperLeaves DEF Resume
    <2> QED
        BY <2>1, <1>29, <1>1, <1>2, <1>3, <1>4, PaidTyped, PaidStays DEF Resume
<1>30. ASSUME NEW p \in Reapers, FailExhausted(p) PROVE RowHold'
    BY <1>30, <1>1, <1>2, <1>3, <1>4, PaidTyped, PaidStays, ReaperMoves, ReaperLeaves
       DEF FailExhausted, NoLease, Exhausted, Lapsed
<1>31. ASSUME NEW p \in Reapers, RefundExhausted(p) PROVE RowHold'
    BY <1>31, <1>1, <1>2, <1>3, <1>4, PaidTyped, PaidStays, ReaperMoves, GivesOnce
       DEF RefundExhausted
<1>32. ASSUME NEW p \in Reapers, TellStopped(p) PROVE RowHold'
    <2>1. ReaperIdled(p)
        BY <1>32, ReaperLeaves DEF TellStopped
    <2> QED
        BY <2>1, <1>32, <1>1, <1>2, <1>3, <1>4, PaidTyped, PaidStays DEF TellStopped
<1>33. ASSUME NEW p \in Reapers, RefundOrphan(p) PROVE RowHold'
    <2>1. ReaperIdled(p)
        BY <1>33, ReaperLeaves DEF RefundOrphan
    <2>2. rp[p].s \in Sessions
        BY <1>33, <1>1, <1>2, <1>3, <1>4, PaidTyped, PaidStays DEF RefundOrphan
    <2>3. GiveBack(rp[p].s)
        BY <1>33 DEF RefundOrphan
    <2>4. Pays(rp[p].s)
        BY <2>2, <2>3, GivesOnce
    <2> QED
        BY <2>1, <2>2, <2>4, <1>33, <1>1, <1>2, <1>3, <1>4, PaidTyped, PaidStays
           DEF RefundOrphan
<1>34. ASSUME NEW p \in Reapers, CrashReaper(p) PROVE RowHold'
    <2>1. ReaperIdled(p)
        BY <1>34, ReaperLeaves DEF CrashReaper
    <2> QED
        BY <2>1, <1>34, <1>1, <1>2, <1>3, <1>4, PaidTyped, PaidStays DEF CrashReaper
<1>35. ASSUME NEW p \in Reapers, NEW s \in Sessions, ListLapsed(p, s) PROVE RowHold'
    <2>1. ReaperBegun(p, "reap", s)
        BY <1>35, ReaperBegins DEF ListLapsed
    <2> QED
        BY <2>1, <1>35, <1>1, <1>2, <1>3, <1>4, PaidTyped, PaidStays
           DEF ListLapsed, Lapsed, HandoffPcs
<1>36. ASSUME NEW p \in Reapers, NEW s \in Sessions, ClaimOrphan(p, s) PROVE RowHold'
    <2>1. ReaperBegun(p, "refundOrphan", s)
        BY <1>36, ReaperBegins DEF ClaimOrphan
    <2> QED
        BY <2>1, <1>36, <1>1, <1>2, <1>3, <1>4, PaidTyped, PaidStays
           DEF ClaimOrphan, SetStatus, HandoffPcs
<1> QED
    BY <1>5, <1>6, <1>7, <1>8, <1>9, <1>10, <1>11, <1>12, <1>13, <1>14, <1>15, <1>16,
       <1>17, <1>18, <1>19, <1>20, <1>21, <1>22, <1>23, <1>24, <1>25, <1>26, <1>27, <1>28,
       <1>29, <1>30, <1>31, <1>32, <1>33, <1>34, <1>35, <1>36
       DEF Next, HandoffStep, CancelStep, WorkerStep, ReaperStep

\* While a worker drives a session nobody else pays, claims or fails it.
LEMMA DriverHoldStays ==
    ASSUME Calm, TypeOK, LeaseInv, RowHold, DriverHold, SweepHold, HandingRow,
           HandingWorkers, HandingReapers, CancelsAllowed, Next
    PROVE  DriverHold'
<1> USE DEF rowVars, leaseVars, queueVars, RowHold, DriverHold, SweepHold, HandingRow,
            HandingWorkers, HandingReapers, CancelsAllowed, Resting, Unswept, Sweeping, Drives,
            Calm, Open, Terminal, UnpaidPcs, RunningPcs, Pays, ToHandoff, LeaseInv, Moved,
            Idled, Begun, SamePlaces, LeasedPcs, ReaperMoved, ReaperIdled, ReaperBegun
<1>1. status \in [Sessions -> {"none"} \cup Open \cup Terminal]
    BY DEF TypeOK, RowsTyped
<1>2. handoff \in [Sessions -> HandoffPcs]
    BY DEF TypeOK, HoldsTyped
<1>3. \A w \in Workers : wk[w].pc # "idle" => wk[w].s \in Sessions
    BY DEF TypeOK, ProcessesTyped
<1>4. \A p \in Reapers : rp[p].pc # "idle" => rp[p].s \in Sessions
    BY DEF TypeOK, ProcessesTyped
<1>5. ASSUME NEW s \in Sessions,
             Reserve(s) \/ CreateRow(s) \/ CreateThrows(s) \/ Enqueue(s) \/
             CountersThrow(s) \/ CancelUnsettled(s) \/ CrashHandoff(s) \/
             ReadCancel(s) \/ CancelJob(s) \/ WriteCancel(s) \/ Lapse(s) \/ Age(s)
      PROVE  DriverHold'
    BY <1>5, <1>1, <1>2, <1>3, <1>4, PaidTyped, PaidStays
       DEF Reserve, ToHandoff, CreateRow, SetStatus, CreateThrows, Enqueue, CountersThrow,
           CancelUnsettled, CrashHandoff, ReadCancel, ToCancel, CancelJob, WriteCancel,
           Lapse, Age
<1>6. ASSUME NEW s \in Sessions, RefundHandoff(s) PROVE DriverHold'
    <2>1. GiveBack(s)
        BY <1>6 DEF RefundHandoff
    <2>2. Pays(s)
        BY <2>1, GivesOnce
    <2> QED
        BY <2>2, <1>6, <1>1, <1>2, <1>3, <1>4, PaidTyped, PaidStays DEF RefundHandoff
<1>7. ASSUME NEW s \in Sessions, LoseJob(s) PROVE DriverHold'
    BY <1>7, <1>1, <1>2, <1>3, <1>4, PaidTyped, PaidStays
       DEF LoseJob
<1>8. ASSUME NEW s \in Sessions, NEW n \in JobIds,
             Stall(s, n) \/ Forget(s, n)
      PROVE  DriverHold'
    BY <1>8, <1>1, <1>2, <1>3, <1>4, PaidTyped, PaidStays
       DEF Stall, Forget
<1>9. ASSUME NEW w \in Workers, Claim(w) PROVE DriverHold'
    <2>1. CASE ClaimStep(w)
        <3>1. PICK pc \in {"enter", "abandon"} : Moved(w, pc)
            BY <2>1, ClaimMoves
        <3>2. /\ wk[w].s \in Sessions /\ wk[w].pc = "claim"
              /\ status[wk[w].s] \in Open /\ lease[wk[w].s] # "live"
            BY <2>1, <1>9, <1>1, <1>2, <1>3, <1>4, PaidTyped, PaidStays
               DEF ClaimStep, Claimable
        <3>3. \A r \in Sessions : status'[r] = IF r = wk[w].s THEN "running" ELSE status[r]
            BY <2>1, <3>2, <1>1, <1>2, <1>3, <1>4, PaidTyped, PaidStays
               DEF ClaimStep, TakeRow
        <3>4. UNCHANGED rp /\ UNCHANGED moneyVars
            BY <1>9 DEF Claim
        <3> QED
            BY <3>1, <3>2, <3>3, <3>4, <1>1, <1>2, <1>3, <1>4, PaidTyped, PaidStays
    <2>2. CASE ~Claimable(wk[w].s) /\ Return(w) /\ UNCHANGED rowVars
        <3>1. Idled(w)
            BY <2>2, IdleIdles DEF Return
        <3>2. wk[w].pc = "claim" /\ UNCHANGED <<handoff, status, moneyVars, rp>>
            BY <2>2, <1>9 DEF Claim
        <3> QED
            BY <3>1, <3>2, <1>1, <1>2, <1>3, <1>4, PaidTyped, PaidStays
    <2> QED
        BY <2>1, <2>2, <1>9 DEF Claim, ClaimStep
<1>10. ASSUME NEW w \in Workers, ClaimThrows(w) PROVE DriverHold'
    <2>1. Idled(w)
        BY <1>10, IdleIdles DEF ClaimThrows, Throw
    <2> QED
        BY <2>1, <1>10, <1>1, <1>2, <1>3, <1>4, PaidTyped, PaidStays DEF ClaimThrows, Throw
<1>11. ASSUME NEW w \in Workers,
             Abandon(w) \/ AgentGone(w) \/ Complete(w) \/ SaveFailed(w)
      PROVE  DriverHold'
    BY <1>11, <1>1, <1>2, <1>3, <1>4, PaidTyped, PaidStays, EndsMoves
       DEF Abandon, SetStatus, AgentGone, Complete, SaveFailed
<1>12. ASSUME NEW w \in Workers, RefundAbandoned(w) PROVE DriverHold'
    <2>1. wk[w].s \in Sessions
        BY <1>12, <1>1, <1>2, <1>3, <1>4, PaidTyped, PaidStays DEF RefundAbandoned
    <2>2. GiveBack(wk[w].s)
        BY <1>12 DEF RefundAbandoned
    <2>3. Pays(wk[w].s)
        BY <2>1, <2>2, GivesOnce
    <2>4. Moved(w, "release")
        BY <1>12, LeavesMoves DEF RefundAbandoned
    <2> QED
        BY <2>1, <2>3, <2>4, <1>12, <1>1, <1>2, <1>3, <1>4, PaidTyped, PaidStays
           DEF RefundAbandoned
<1>13. ASSUME NEW w \in Workers, Escape(w) PROVE DriverHold'
    <2>1. Moved(w, "release")
        BY <1>13, LeavesMoves DEF Escape
    <2> QED
        BY <2>1, <1>13, <1>1, <1>2, <1>3, <1>4, PaidTyped, PaidStays DEF Escape
<1>14. ASSUME NEW w \in Workers, Enter(w) PROVE DriverHold'
    BY <1>14, <1>1, <1>2, <1>3, <1>4, PaidTyped, PaidStays, GotoMoves, EndsMoves
       DEF Enter
<1>15. ASSUME NEW w \in Workers, Head(w) PROVE DriverHold'
    BY <1>15, <1>1, <1>2, <1>3, <1>4, PaidTyped, PaidStays, GotoMoves, EndsMoves,
       LeavesMoves
       DEF Head
<1>16. ASSUME NEW w \in Workers,
             Step(w) \/ NoModel(w) \/ Break(w) \/ SaveFails(w)
      PROVE  DriverHold'
    BY <1>16, <1>1, <1>2, <1>3, <1>4, PaidTyped, PaidStays, GotoMoves
       DEF Step, NoModel, SetStatus, Break, SaveFails
<1>17. ASSUME NEW w \in Workers, Charge(w) PROVE DriverHold'
    <2>1. wk[w].s \in Sessions
        BY <1>17, <1>1, <1>2, <1>3, <1>4, PaidTyped, PaidStays DEF Charge
    <2>2. ChargeHold(wk[w].s)
        BY <1>17 DEF Charge
    <2>3. Pays(wk[w].s)
        BY <2>1, <2>2, GivesOnce
    <2>4. Moved(w, "save")
        BY <1>17, GotoMoves DEF Charge
    <2> QED
        BY <2>1, <2>3, <2>4, <1>17, <1>1, <1>2, <1>3, <1>4, PaidTyped, PaidStays DEF Charge
<1>18. ASSUME NEW w \in Workers, Save(w) PROVE DriverHold'
    <2>1. Moved(w, "settled") /\ wk[w].final \in Terminal
        BY <1>18, GotoMoves DEF Save, TypeOK, ProcessesTyped
    <2> QED
        BY <2>1, <1>18, <1>1, <1>2, <1>3, <1>4, PaidTyped, PaidStays DEF Save, SetStatus
<1>19. ASSUME NEW w \in Workers, Catch(w) PROVE DriverHold'
    BY <1>19, <1>1, <1>2, <1>3, <1>4, PaidTyped, PaidStays, GotoMoves, LeavesMoves
       DEF Catch
<1>20. ASSUME NEW w \in Workers, Refund(w) PROVE DriverHold'
    <2>1. wk[w].s \in Sessions
        BY <1>20, <1>1, <1>2, <1>3, <1>4, PaidTyped, PaidStays DEF Refund
    <2>2. GiveBack(wk[w].s)
        BY <1>20 DEF Refund
    <2>3. Pays(wk[w].s)
        BY <2>1, <2>2, GivesOnce
    <2>4. Moved(w, "saveFailed")
        BY <1>20, GotoMoves DEF Refund
    <2> QED
        BY <2>1, <2>3, <2>4, <1>20, <1>1, <1>2, <1>3, <1>4, PaidTyped, PaidStays DEF Refund
<1>21. ASSUME NEW w \in Workers, Leave(w) PROVE DriverHold'
    BY <1>21, <1>1, <1>2, <1>3, <1>4, PaidTyped, PaidStays, LeavesMoves
       DEF Leave
<1>22. ASSUME NEW w \in Workers, Release(w) PROVE DriverHold'
    BY <1>22, <1>1, <1>2, <1>3, <1>4, PaidTyped, PaidStays, GotoMoves, IdleIdles
       DEF Release, DropLease, NoLease, Return, Throw
<1>23. ASSUME NEW w \in Workers, Report(w) PROVE DriverHold'
    <2>1. Idled(w)
        BY <1>23, IdleIdles DEF Report, Return
    <2> QED
        BY <2>1, <1>23, <1>1, <1>2, <1>3, <1>4, PaidTyped, PaidStays DEF Report, Return
<1>24. ASSUME NEW w \in Workers, ReportThrows(w) PROVE DriverHold'
    <2>1. Idled(w)
        BY <1>24, IdleIdles DEF ReportThrows, Throw
    <2> QED
        BY <2>1, <1>24, <1>1, <1>2, <1>3, <1>4, PaidTyped, PaidStays DEF ReportThrows, Throw
<1>25. ASSUME NEW w \in Workers, Renew(w) PROVE DriverHold'
    BY <1>25, <1>1, <1>2, <1>3, <1>4, PaidTyped, PaidStays, LostStays
       DEF Renew
<1>26. ASSUME NEW w \in Workers, CrashWorker(w) PROVE DriverHold'
    <2>1. Idled(w)
        BY <1>26, IdleIdles DEF CrashWorker, SettlingPcs
    <2> QED
        BY <2>1, <1>26, <1>1, <1>2, <1>3, <1>4, PaidTyped, PaidStays
           DEF CrashWorker, SettlingPcs
<1>27. ASSUME NEW w \in Workers, NEW s \in Sessions, TakeDirect(w, s) PROVE DriverHold'
    <2>1. Begun(w, s)
        BY <1>27, BeginBegins DEF TakeDirect
    <2> QED
        BY <2>1, <1>27, <1>1, <1>2, <1>3, <1>4, PaidTyped, PaidStays DEF TakeDirect
<1>28. ASSUME NEW w \in Workers, NEW s \in Sessions, NEW n \in JobIds,
             TakeJob(w, s, n)
      PROVE  DriverHold'
    <2>1. Begun(w, s)
        BY <1>28, BeginBegins DEF TakeJob
    <2> QED
        BY <2>1, <1>28, <1>1, <1>2, <1>3, <1>4, PaidTyped, PaidStays DEF TakeJob
<1>29. ASSUME NEW p \in Reapers, Resume(p) PROVE DriverHold'
    <2>1. ReaperIdled(p)
        BY <1>29, ReaperLeaves DEF Resume
    <2> QED
        BY <2>1, <1>29, <1>1, <1>2, <1>3, <1>4, PaidTyped, PaidStays DEF Resume
<1>30. ASSUME NEW p \in Reapers, FailExhausted(p) PROVE DriverHold'
    BY <1>30, <1>1, <1>2, <1>3, <1>4, PaidTyped, PaidStays, ReaperMoves, ReaperLeaves
       DEF FailExhausted, NoLease, Exhausted, Lapsed
<1>31. ASSUME NEW p \in Reapers, RefundExhausted(p) PROVE DriverHold'
    BY <1>31, <1>1, <1>2, <1>3, <1>4, PaidTyped, PaidStays, ReaperMoves, GivesOnce
       DEF RefundExhausted
<1>32. ASSUME NEW p \in Reapers, TellStopped(p) PROVE DriverHold'
    <2>1. ReaperIdled(p)
        BY <1>32, ReaperLeaves DEF TellStopped
    <2> QED
        BY <2>1, <1>32, <1>1, <1>2, <1>3, <1>4, PaidTyped, PaidStays DEF TellStopped
<1>33. ASSUME NEW p \in Reapers, RefundOrphan(p) PROVE DriverHold'
    <2>1. ReaperIdled(p)
        BY <1>33, ReaperLeaves DEF RefundOrphan
    <2>2. rp[p].s \in Sessions
        BY <1>33, <1>1, <1>2, <1>3, <1>4, PaidTyped, PaidStays DEF RefundOrphan
    <2>3. GiveBack(rp[p].s)
        BY <1>33 DEF RefundOrphan
    <2>4. Pays(rp[p].s)
        BY <2>2, <2>3, GivesOnce
    <2> QED
        BY <2>1, <2>2, <2>4, <1>33, <1>1, <1>2, <1>3, <1>4, PaidTyped, PaidStays
           DEF RefundOrphan
<1>34. ASSUME NEW p \in Reapers, CrashReaper(p) PROVE DriverHold'
    <2>1. ReaperIdled(p)
        BY <1>34, ReaperLeaves DEF CrashReaper
    <2> QED
        BY <2>1, <1>34, <1>1, <1>2, <1>3, <1>4, PaidTyped, PaidStays DEF CrashReaper
<1>35. ASSUME NEW p \in Reapers, NEW s \in Sessions, ListLapsed(p, s) PROVE DriverHold'
    <2>1. ReaperBegun(p, "reap", s)
        BY <1>35, ReaperBegins DEF ListLapsed
    <2> QED
        BY <2>1, <1>35, <1>1, <1>2, <1>3, <1>4, PaidTyped, PaidStays
           DEF ListLapsed, Lapsed, HandoffPcs
<1>36. ASSUME NEW p \in Reapers, NEW s \in Sessions, ClaimOrphan(p, s) PROVE DriverHold'
    <2>1. ReaperBegun(p, "refundOrphan", s)
        BY <1>36, ReaperBegins DEF ClaimOrphan
    <2> QED
        BY <2>1, <1>36, <1>1, <1>2, <1>3, <1>4, PaidTyped, PaidStays
           DEF ClaimOrphan, SetStatus, HandoffPcs
<1> QED
    BY <1>5, <1>6, <1>7, <1>8, <1>9, <1>10, <1>11, <1>12, <1>13, <1>14, <1>15, <1>16,
       <1>17, <1>18, <1>19, <1>20, <1>21, <1>22, <1>23, <1>24, <1>25, <1>26, <1>27, <1>28,
       <1>29, <1>30, <1>31, <1>32, <1>33, <1>34, <1>35, <1>36
       DEF Next, HandoffStep, CancelStep, WorkerStep, ReaperStep

\* A sweep pays for the row it failed itself, which no other can fail again.
LEMMA SweepHoldStays ==
    ASSUME Calm, TypeOK, LeaseInv, RowHold, DriverHold, SweepHold, HandingRow,
           HandingWorkers, HandingReapers, CancelsAllowed, Next
    PROVE  SweepHold'
<1> USE DEF rowVars, leaseVars, queueVars, RowHold, DriverHold, SweepHold, HandingRow,
            HandingWorkers, HandingReapers, CancelsAllowed, Resting, Unswept, Sweeping, Drives,
            Calm, Open, Terminal, UnpaidPcs, RunningPcs, Pays, ToHandoff, LeaseInv,
            LeasedPcs, ReaperMoved, ReaperIdled, ReaperBegun
<1>1. status \in [Sessions -> {"none"} \cup Open \cup Terminal]
    BY DEF TypeOK, RowsTyped
<1>2. handoff \in [Sessions -> HandoffPcs]
    BY DEF TypeOK, HoldsTyped
<1>3. \A w \in Workers : wk[w].pc # "idle" => wk[w].s \in Sessions
    BY DEF TypeOK, ProcessesTyped
<1>4. \A p \in Reapers : rp[p].pc # "idle" => rp[p].s \in Sessions
    BY DEF TypeOK, ProcessesTyped
<1>5. ASSUME NEW s \in Sessions,
             Reserve(s) \/ CreateRow(s) \/ CreateThrows(s) \/ Enqueue(s) \/
             CountersThrow(s) \/ CancelUnsettled(s) \/ CrashHandoff(s) \/
             ReadCancel(s) \/ CancelJob(s) \/ WriteCancel(s) \/ Lapse(s) \/ Age(s)
      PROVE  SweepHold'
    BY <1>5, <1>1, <1>2, <1>3, <1>4, PaidTyped, PaidStays
       DEF Reserve, ToHandoff, CreateRow, SetStatus, CreateThrows, Enqueue, CountersThrow,
           CancelUnsettled, CrashHandoff, ReadCancel, ToCancel, CancelJob, WriteCancel,
           Lapse, Age
<1>6. ASSUME NEW s \in Sessions, RefundHandoff(s) PROVE SweepHold'
    <2>1. GiveBack(s)
        BY <1>6 DEF RefundHandoff
    <2>2. Pays(s)
        BY <2>1, GivesOnce
    <2> QED
        BY <2>2, <1>6, <1>1, <1>2, <1>3, <1>4, PaidTyped, PaidStays DEF RefundHandoff
<1>7. ASSUME NEW s \in Sessions, LoseJob(s) PROVE SweepHold'
    BY <1>7, <1>1, <1>2, <1>3, <1>4, PaidTyped, PaidStays
       DEF LoseJob
<1>8. ASSUME NEW s \in Sessions, NEW n \in JobIds,
             Stall(s, n) \/ Forget(s, n)
      PROVE  SweepHold'
    BY <1>8, <1>1, <1>2, <1>3, <1>4, PaidTyped, PaidStays
       DEF Stall, Forget
<1>9. ASSUME NEW w \in Workers, Claim(w) PROVE SweepHold'
    <2>1. CASE ClaimStep(w)
        <3>1. wk[w].s \in Sessions /\ status[wk[w].s] \in Open
            BY <2>1, <1>9, <1>1, <1>2, <1>3, <1>4, PaidTyped, PaidStays
               DEF ClaimStep, Claimable
        <3>2. \A r \in Sessions \ {wk[w].s} : status'[r] = status[r]
            BY <2>1, <3>1, <1>1, <1>2, <1>3, <1>4, PaidTyped, PaidStays
               DEF ClaimStep, TakeRow
        <3> QED
            BY <3>1, <3>2, <1>9, <1>1, <1>2, <1>3, <1>4, PaidTyped, PaidStays DEF Claim
    <2>2. CASE UNCHANGED rowVars
        BY <2>2, <1>9, <1>1, <1>2, <1>3, <1>4, PaidTyped, PaidStays DEF Claim
    <2> QED
        BY <2>1, <2>2, <1>9 DEF Claim, ClaimStep
<1>10. ASSUME NEW w \in Workers,
             ClaimThrows(w) \/ Abandon(w) \/ Escape(w) \/ AgentGone(w) \/ Enter(w) \/
             Head(w) \/ Step(w) \/ Complete(w) \/ NoModel(w) \/ Break(w) \/
             SaveFails(w) \/ Catch(w)
      PROVE  SweepHold'
    BY <1>10, <1>1, <1>2, <1>3, <1>4, PaidTyped, PaidStays
       DEF ClaimThrows, Throw, Abandon, SetStatus, Escape, AgentGone, Enter, Head, Step,
           Complete, NoModel, Break, SaveFails, Catch
<1>11. ASSUME NEW w \in Workers, RefundAbandoned(w) PROVE SweepHold'
    <2>1. wk[w].s \in Sessions
        BY <1>11, <1>1, <1>2, <1>3, <1>4, PaidTyped, PaidStays DEF RefundAbandoned
    <2>2. GiveBack(wk[w].s)
        BY <1>11 DEF RefundAbandoned
    <2>3. Pays(wk[w].s)
        BY <2>1, <2>2, GivesOnce
    <2> QED
        BY <2>1, <2>3, <1>11, <1>1, <1>2, <1>3, <1>4, PaidTyped, PaidStays
           DEF RefundAbandoned
<1>12. ASSUME NEW w \in Workers, Charge(w) PROVE SweepHold'
    <2>1. wk[w].s \in Sessions
        BY <1>12, <1>1, <1>2, <1>3, <1>4, PaidTyped, PaidStays DEF Charge
    <2>2. ChargeHold(wk[w].s)
        BY <1>12 DEF Charge
    <2>3. Pays(wk[w].s)
        BY <2>1, <2>2, GivesOnce
    <2> QED
        BY <2>1, <2>3, <1>12, <1>1, <1>2, <1>3, <1>4, PaidTyped, PaidStays DEF Charge
<1>13. ASSUME NEW w \in Workers, Save(w) PROVE SweepHold'
    <2>1. Moved(w, "settled") /\ wk[w].final \in Terminal
        BY <1>13, GotoMoves DEF Save, TypeOK, ProcessesTyped
    <2> QED
        BY <2>1, <1>13, <1>1, <1>2, <1>3, <1>4, PaidTyped, PaidStays DEF Save, SetStatus
<1>14. ASSUME NEW w \in Workers, Refund(w) PROVE SweepHold'
    <2>1. wk[w].s \in Sessions
        BY <1>14, <1>1, <1>2, <1>3, <1>4, PaidTyped, PaidStays DEF Refund
    <2>2. GiveBack(wk[w].s)
        BY <1>14 DEF Refund
    <2>3. Pays(wk[w].s)
        BY <2>1, <2>2, GivesOnce
    <2> QED
        BY <2>1, <2>3, <1>14, <1>1, <1>2, <1>3, <1>4, PaidTyped, PaidStays DEF Refund
<1>15. ASSUME NEW w \in Workers,
             SaveFailed(w) \/ Leave(w) \/ Release(w) \/ Report(w) \/ ReportThrows(w) \/
             Renew(w) \/ CrashWorker(w)
      PROVE  SweepHold'
    BY <1>15, <1>1, <1>2, <1>3, <1>4, PaidTyped, PaidStays
       DEF SaveFailed, SetStatus, Leave, Release, DropLease, NoLease, Return, Throw,
           Report, ReportThrows, Renew, CrashWorker
<1>16. ASSUME NEW w \in Workers, NEW s \in Sessions, TakeDirect(w, s) PROVE SweepHold'
    BY <1>16, <1>1, <1>2, <1>3, <1>4, PaidTyped, PaidStays
       DEF TakeDirect
<1>17. ASSUME NEW w \in Workers, NEW s \in Sessions, NEW n \in JobIds,
             TakeJob(w, s, n)
      PROVE  SweepHold'
    BY <1>17, <1>1, <1>2, <1>3, <1>4, PaidTyped, PaidStays
       DEF TakeJob
<1>18. ASSUME NEW p \in Reapers, Resume(p) PROVE SweepHold'
    <2>1. ReaperIdled(p)
        BY <1>18, ReaperLeaves DEF Resume
    <2> QED
        BY <2>1, <1>18, <1>1, <1>2, <1>3, <1>4, PaidTyped, PaidStays DEF Resume
<1>19. ASSUME NEW p \in Reapers, FailExhausted(p) PROVE SweepHold'
    BY <1>19, <1>1, <1>2, <1>3, <1>4, PaidTyped, PaidStays, ReaperMoves, ReaperLeaves
       DEF FailExhausted, NoLease, Exhausted, Lapsed
<1>20. ASSUME NEW p \in Reapers, RefundExhausted(p) PROVE SweepHold'
    BY <1>20, <1>1, <1>2, <1>3, <1>4, PaidTyped, PaidStays, ReaperMoves, GivesOnce
       DEF RefundExhausted
<1>21. ASSUME NEW p \in Reapers, TellStopped(p) PROVE SweepHold'
    <2>1. ReaperIdled(p)
        BY <1>21, ReaperLeaves DEF TellStopped
    <2> QED
        BY <2>1, <1>21, <1>1, <1>2, <1>3, <1>4, PaidTyped, PaidStays DEF TellStopped
<1>22. ASSUME NEW p \in Reapers, RefundOrphan(p) PROVE SweepHold'
    <2>1. ReaperIdled(p)
        BY <1>22, ReaperLeaves DEF RefundOrphan
    <2>2. rp[p].s \in Sessions
        BY <1>22, <1>1, <1>2, <1>3, <1>4, PaidTyped, PaidStays DEF RefundOrphan
    <2>3. GiveBack(rp[p].s)
        BY <1>22 DEF RefundOrphan
    <2>4. Pays(rp[p].s)
        BY <2>2, <2>3, GivesOnce
    <2> QED
        BY <2>1, <2>2, <2>4, <1>22, <1>1, <1>2, <1>3, <1>4, PaidTyped, PaidStays
           DEF RefundOrphan
<1>23. ASSUME NEW p \in Reapers, CrashReaper(p) PROVE SweepHold'
    <2>1. ReaperIdled(p)
        BY <1>23, ReaperLeaves DEF CrashReaper
    <2> QED
        BY <2>1, <1>23, <1>1, <1>2, <1>3, <1>4, PaidTyped, PaidStays DEF CrashReaper
<1>24. ASSUME NEW p \in Reapers, NEW s \in Sessions, ListLapsed(p, s) PROVE SweepHold'
    <2>1. ReaperBegun(p, "reap", s)
        BY <1>24, ReaperBegins DEF ListLapsed
    <2> QED
        BY <2>1, <1>24, <1>1, <1>2, <1>3, <1>4, PaidTyped, PaidStays
           DEF ListLapsed, Lapsed, HandoffPcs
<1>25. ASSUME NEW p \in Reapers, NEW s \in Sessions, ClaimOrphan(p, s) PROVE SweepHold'
    <2>1. ReaperBegun(p, "refundOrphan", s)
        BY <1>25, ReaperBegins DEF ClaimOrphan
    <2> QED
        BY <2>1, <1>25, <1>1, <1>2, <1>3, <1>4, PaidTyped, PaidStays
           DEF ClaimOrphan, SetStatus, HandoffPcs
<1> QED
    BY <1>5, <1>6, <1>7, <1>8, <1>9, <1>10, <1>11, <1>12, <1>13, <1>14, <1>15, <1>16,
       <1>17, <1>18, <1>19, <1>20, <1>21, <1>22, <1>23, <1>24, <1>25
       DEF Next, HandoffStep, CancelStep, WorkerStep, ReaperStep

\* Every step that pays finds its session unpaid.
LEMMA PaidOnceStays ==
    ASSUME Calm, TypeOK, DriverHold, SweepHold, HandingRow, PaidOnce, Next
    PROVE  PaidOnce'
<1> USE DEF rowVars, leaseVars, queueVars, PaidOnce, DriverHold, SweepHold, HandingRow,
            LeasedPcs, UnpaidPcs, Sweeping, Pays, ToHandoff
<1>1. \A w \in Workers : wk[w].pc # "idle" => wk[w].s \in Sessions
    BY DEF TypeOK, ProcessesTyped
<1>2. \A p \in Reapers : rp[p].pc # "idle" => rp[p].s \in Sessions
    BY DEF TypeOK, ProcessesTyped
<1>3. ASSUME NEW s \in Sessions,
             Reserve(s) \/ CreateRow(s) \/ CreateThrows(s) \/ Enqueue(s) \/
             CountersThrow(s) \/ CancelUnsettled(s) \/ CrashHandoff(s) \/
             ReadCancel(s) \/ CancelJob(s) \/ WriteCancel(s) \/ Lapse(s) \/ Age(s)
      PROVE  PaidOnce'
    BY <1>3, <1>1, <1>2, PaidTyped, PaidStays
       DEF Reserve, ToHandoff, CreateRow, SetStatus, CreateThrows, Enqueue, CountersThrow,
           CancelUnsettled, CrashHandoff, ReadCancel, ToCancel, CancelJob, WriteCancel,
           Lapse, Age
<1>4. ASSUME NEW s \in Sessions, RefundHandoff(s) PROVE PaidOnce'
    <2>1. GiveBack(s)
        BY <1>4 DEF RefundHandoff
    <2>2. Pays(s)
        BY <2>1, GivesOnce
    <2> QED
        BY <2>2, <1>4, <1>1, <1>2, PaidTyped, PaidStays DEF RefundHandoff
<1>5. ASSUME NEW s \in Sessions, LoseJob(s) PROVE PaidOnce'
    BY <1>5, <1>1, <1>2, PaidTyped, PaidStays
       DEF LoseJob
<1>6. ASSUME NEW s \in Sessions, NEW n \in JobIds,
             Stall(s, n) \/ Forget(s, n)
      PROVE  PaidOnce'
    BY <1>6, <1>1, <1>2, PaidTyped, PaidStays
       DEF Stall, Forget
<1>7. ASSUME NEW w \in Workers,
             Claim(w) \/ ClaimThrows(w) \/ Abandon(w) \/ Escape(w) \/ AgentGone(w) \/
             Enter(w) \/ Head(w) \/ Step(w) \/ Complete(w) \/ NoModel(w) \/ Break(w) \/
             Save(w)
      PROVE  PaidOnce'
    BY <1>7, <1>1, <1>2, PaidTyped, PaidStays
       DEF Claim, TakeRow, Return, ClaimThrows, Throw, Abandon, SetStatus, Escape,
           AgentGone, Enter, Head, Step, Complete, NoModel, Break, Save
<1>8. ASSUME NEW w \in Workers, RefundAbandoned(w) PROVE PaidOnce'
    <2>1. wk[w].s \in Sessions
        BY <1>8, <1>1, <1>2, PaidTyped, PaidStays DEF RefundAbandoned
    <2>2. GiveBack(wk[w].s)
        BY <1>8 DEF RefundAbandoned
    <2>3. Pays(wk[w].s)
        BY <2>1, <2>2, GivesOnce
    <2> QED
        BY <2>1, <2>3, <1>8, <1>1, <1>2, PaidTyped, PaidStays DEF RefundAbandoned
<1>9. ASSUME NEW w \in Workers, Charge(w) PROVE PaidOnce'
    <2>1. wk[w].s \in Sessions
        BY <1>9, <1>1, <1>2, PaidTyped, PaidStays DEF Charge
    <2>2. ChargeHold(wk[w].s)
        BY <1>9 DEF Charge
    <2>3. Pays(wk[w].s)
        BY <2>1, <2>2, GivesOnce
    <2> QED
        BY <2>1, <2>3, <1>9, <1>1, <1>2, PaidTyped, PaidStays DEF Charge
<1>10. ASSUME NEW w \in Workers,
             SaveFails(w) \/ Catch(w) \/ SaveFailed(w) \/ Leave(w) \/ Release(w) \/
             Report(w) \/ ReportThrows(w) \/ Renew(w) \/ CrashWorker(w)
      PROVE  PaidOnce'
    BY <1>10, <1>1, <1>2, PaidTyped, PaidStays
       DEF SaveFails, Catch, SaveFailed, SetStatus, Leave, Release, DropLease, NoLease,
           Return, Throw, Report, ReportThrows, Renew, CrashWorker
<1>11. ASSUME NEW w \in Workers, Refund(w) PROVE PaidOnce'
    <2>1. wk[w].s \in Sessions
        BY <1>11, <1>1, <1>2, PaidTyped, PaidStays DEF Refund
    <2>2. GiveBack(wk[w].s)
        BY <1>11 DEF Refund
    <2>3. Pays(wk[w].s)
        BY <2>1, <2>2, GivesOnce
    <2> QED
        BY <2>1, <2>3, <1>11, <1>1, <1>2, PaidTyped, PaidStays DEF Refund
<1>12. ASSUME NEW w \in Workers, NEW s \in Sessions, TakeDirect(w, s) PROVE PaidOnce'
    BY <1>12, <1>1, <1>2, PaidTyped, PaidStays
       DEF TakeDirect
<1>13. ASSUME NEW w \in Workers, NEW s \in Sessions, NEW n \in JobIds,
             TakeJob(w, s, n)
      PROVE  PaidOnce'
    BY <1>13, <1>1, <1>2, PaidTyped, PaidStays
       DEF TakeJob
<1>14. ASSUME NEW p \in Reapers,
             Resume(p) \/ FailExhausted(p) \/ TellStopped(p) \/ CrashReaper(p)
      PROVE  PaidOnce'
    BY <1>14, <1>1, <1>2, PaidTyped, PaidStays
       DEF Resume, FailExhausted, NoLease, Exhausted, Lapsed, TellStopped, CrashReaper
<1>15. ASSUME NEW p \in Reapers, RefundExhausted(p) PROVE PaidOnce'
    BY <1>15, <1>1, <1>2, PaidTyped, PaidStays, GivesOnce
       DEF RefundExhausted
<1>16. ASSUME NEW p \in Reapers, RefundOrphan(p) PROVE PaidOnce'
    <2>2. rp[p].s \in Sessions
        BY <1>16, <1>1, <1>2, PaidTyped, PaidStays DEF RefundOrphan
    <2>3. GiveBack(rp[p].s)
        BY <1>16 DEF RefundOrphan
    <2>4. Pays(rp[p].s)
        BY <2>2, <2>3, GivesOnce
    <2> QED
        BY <2>2, <2>4, <1>16, <1>1, <1>2, PaidTyped, PaidStays DEF RefundOrphan
<1>17. ASSUME NEW p \in Reapers, NEW s \in Sessions,
             ListLapsed(p, s) \/ ClaimOrphan(p, s)
      PROVE  PaidOnce'
    BY <1>17, <1>1, <1>2, PaidTyped, PaidStays
       DEF ListLapsed, Lapsed, ClaimOrphan, SetStatus
<1> QED
    BY <1>3, <1>4, <1>5, <1>6, <1>7, <1>8, <1>9, <1>10, <1>11, <1>12, <1>13, <1>14, <1>15,
       <1>16, <1>17
       DEF Next, HandoffStep, CancelStep, WorkerStep, ReaperStep

\* At first nothing is held, queued or under way.
LEMMA HoldAtFirst == Init => HoldInv
BY RowInit DEF Init, HoldInv, HandingQueue, HandingWorkers, HandingReapers, HandingRow, RowHold,
   DriverHold, SweepHold, PaidOnce, CancelsAllowed, paid, NoJob, IdleWorker, IdleReaper, Sweeping,
   LeasedPcs

\* Every step keeps the invariant, with the leases as LeaseInv has them.
LEMMA HoldStep ==
    ASSUME Calm, TypeOK, TypeOK', LeaseInv, HoldInv, [Next]_vars
    PROVE  HoldInv'
<1>1. CASE Next
    BY <1>1, RowStep, CancelsStayAllowed, HandingRowStays, HandingQueueStays, HandingWorkersStay,
       HandingReapersStay, RowHoldStays, DriverHoldStays, SweepHoldStays, PaidOnceStays
       DEF HoldInv
<1>2. CASE UNCHANGED vars
    BY <1>2 DEF vars, moneyVars, rowVars, leaseVars, queueVars, HoldInv, RowInv, HandingQueue,
       HandingWorkers, HandingReapers, HandingRow, RowHold, DriverHold, SweepHold, PaidOnce,
       CancelsAllowed, paid, Sweeping, Resting, Unswept, Drives
<1> QED
    BY <1>1, <1>2

\* The three invariants together are inductive.
LEMMA HoldAndLeaseStep ==
    ASSUME Calm, TypeOK, LeaseInv, HoldInv, [Next]_vars
    PROVE  TypeOK' /\ LeaseInv' /\ HoldInv'
<1>1. TypeOK'
    BY TypeStep, AgentRunAssumption
<1>2. HoldInv'
    BY <1>1, HoldStep
<1>3. LeaseInv'
    <2>1. CASE Next
        BY <2>1, LeaseStep, AgentRunAssumption DEF Calm
    <2>2. CASE UNCHANGED vars
        BY <2>2 DEF vars, LeaseInv
    <2> QED
        BY <2>1, <2>2
<1> QED
    BY <1>1, <1>2, <1>3

\* Handoff, worker and reaper between them settle a session's hold at most once
\* (session-handoff.ts, runner.ts, run-reaper.ts), for any number of sessions,
\* workers, reapers, attempts, cancellations and redeliveries, as long as leases
\* are kept in time, last updates do not fail and nobody dies while settling.
THEOREM SettlesAtMostOnce == ASSUME Calm PROVE Spec => []SettledAtMostOnce
<1>1. Init => TypeOK /\ LeaseInv /\ HoldInv
    BY InitTyped, LeaseInit, HoldAtFirst
<1>2. TypeOK /\ LeaseInv /\ HoldInv /\ [Next]_vars => TypeOK' /\ LeaseInv' /\ HoldInv'
    BY HoldAndLeaseStep
<1>3. HoldInv => SettledAtMostOnce
    BY DEF HoldInv, PaidOnce, paid, SettledAtMostOnce
<1> QED
    BY <1>1, <1>2, <1>3, PTL DEF Spec

-----------------------------------------------------------------------------
(* One story of each session.                                              *)

\* Calm, and nobody cancels, no settlement is lost, nobody throws outside its try
\* block and no claim fails.
Orderly == Calm /\ {"cancel", "lostSettle", "escape", "claimFails"} \cap Faults = {}

\* A worker whose run has ended and been paid for, ...
Finishing(w) ==
    \/ wk[w].pc \in {"settled", "report"}
    \/ wk[w].pc = "release" /\ wk[w].outcome = "ran"

\* ... one that will speak of its run, or that may come to, ...
Speaking(w) == wk[w].pc \in LeasedPcs \/ Finishing(w)

\* ... and a sweep that will say that it stopped the run.
Stopping(p) == rp[p].pc \in {"refundExhausted", "tell"}

\* The row of a session agrees with its hold.
Accounted(s) ==
    \/ status[s] = "completed" /\ charges[s] = 1 /\ refunds[s] = 0
    \/ status[s] = "failed" /\ charges[s] + refunds[s] = 1

\* Where a worker is, its session has come to.
Placed(w) ==
    LET s == wk[w].s
    IN  /\ wk[w].pc = "release" => wk[w].outcome \in {"ran", "skipped"}
        /\ wk[w].pc \in {"charge", "save"} => wk[w].final \in {"completed", "failed"}
        /\ wk[w].pc = "save" => charges[s] = 1 /\ refunds[s] = 0
        /\ wk[w].pc = "saveFailed" => charges[s] = 0 /\ refunds[s] = 1
        /\ wk[w].pc = "refundAbandoned" => status[s] = "failed"
        /\ Finishing(w) => Accounted(s)

\* Nothing is said of a session that is still open, or being handed over, ...
OpenIsUntold ==
    \A s \in Sessions : status[s] \notin Terminal \/ handoff[s] # "done" => told[s] = {}

\* ... nor by anybody but the one worker that speaks of it, ...
OneSpeaker ==
    /\ \A w \in Workers : Speaking(w) => told[wk[w].s] = {}
    /\ \A v, w \in Workers : Speaking(v) /\ Speaking(w) /\ wk[v].s = wk[w].s => v = w

\* ... or the one sweep that stopped it.
OneStopper ==
    \A p \in Reapers : Stopping(p) =>
        /\ status[rp[p].s] = "failed" /\ told[rp[p].s] = {}
        /\ \A w \in Workers : Speaking(w) => wk[w].s # rp[p].s
        /\ \A q \in Reapers : Stopping(q) /\ rp[q].s = rp[p].s => q = p
        /\ rp[p].pc = "tell" => charges[rp[p].s] = 0 /\ refunds[rp[p].s] = 1

AllPlaced == \A w \in Workers : Placed(w)

\* What has been said agrees with the row and with the hold.
Agreed(s) ==
    /\ \E news : told[s] \subseteq {news}
    /\ "result" \in told[s] => status[s] = "completed" /\ charges[s] = 1
    /\ "sorry" \in told[s] => status[s] = "failed" /\ charges[s] + refunds[s] = 1
    /\ "stopped" \in told[s] => status[s] = "failed" /\ refunds[s] = 1

AllAgreed == \A s \in Sessions : Agreed(s)

StoryInv == OpenIsUntold /\ OneSpeaker /\ OneStopper /\ AllPlaced /\ AllAgreed

-----------------------------------------------------------------------------
(* The kinds of step this invariant tells apart.                           *)

holdVars == <<status, charges, refunds>>

\* The row and the hold of every other session stay as they are.
ElsewhereStays(s) ==
    \A r \in Sessions \ {s} :
        status'[r] = status[r] /\ charges'[r] = charges[r] /\ refunds'[r] = refunds[r]

Others(w) == \A v \in Workers \ {w} : wk'[v] = wk[v]

OtherSweeps(p) == \A q \in Reapers \ {p} : rp'[q] = rp[q]

\* Time, the queue, and a handoff that is not over.
Elapses == UNCHANGED <<holdVars, told, handoff, wk, rp>>

Hands(s) ==
    /\ handoff[s] # "done"
    /\ UNCHANGED <<told, wk, rp>>
    /\ ElsewhereStays(s)
    /\ \A r \in Sessions \ {s} : handoff'[r] = handoff[r]

\* A worker that speaks of no session afterwards, ...
StepsAside(w) ==
    /\ UNCHANGED <<holdVars, told, handoff, rp>>
    /\ Others(w)
    /\ ~Speaking(w)'
    /\ Placed(w)'

\* ... one that takes a row up, ...
TakesUp(w) ==
    /\ UNCHANGED <<charges, refunds, told, handoff, rp>>
    /\ wk[w].s \in Sessions
    /\ status[wk[w].s] \in Open /\ lease[wk[w].s] # "live"
    /\ status' = [status EXCEPT ![wk[w].s] = "running"]
    /\ Others(w)
    /\ wk'[w].pc \in {"enter", "abandon"} /\ wk'[w].s = wk[w].s

\* ... one that goes on with its own session, ...
GoesOnWith(w) ==
    /\ Speaking(w)
    /\ UNCHANGED <<told, handoff, rp>>
    /\ ElsewhereStays(wk[w].s)
    /\ Others(w)
    /\ wk'[w].s = wk[w].s
    /\ Placed(w)'

\* ... and one that says what became of it.
SaysAll(w) ==
    /\ Finishing(w) /\ wk[w].s \in Sessions
    /\ UNCHANGED <<holdVars, handoff, rp>>
    /\ Others(w)
    /\ wk'[w].pc = "idle"
    /\ \E news \in {{}, {"error"},
                    {IF status[wk[w].s] = "completed" THEN "result" ELSE "sorry"}} :
           Tell(wk[w].s, news)

\* A sweep that stops no session afterwards, ...
SweepsAside(p) ==
    /\ UNCHANGED <<holdVars, told, handoff, wk>>
    /\ OtherSweeps(p)
    /\ ~Stopping(p)'

\* ... one that gives a session up, refunds it, and says so, ...
GivesUp(p) ==
    /\ rp[p].s \in Sessions
    /\ status[rp[p].s] = "running" /\ lease[rp[p].s] # "live"
    /\ status' = [status EXCEPT ![rp[p].s] = "failed"]
    /\ UNCHANGED <<charges, refunds, told, handoff, wk>>
    /\ OtherSweeps(p)
    /\ rp'[p].pc = "refundExhausted" /\ rp'[p].s = rp[p].s

PaysBack(p) == refunds' = [refunds EXCEPT ![rp[p].s] = @ + 1]

RefundsStopped(p) ==
    /\ rp[p].pc = "refundExhausted" /\ rp[p].s \in Sessions
    /\ PaysBack(p)
    /\ UNCHANGED <<status, charges, told, handoff, wk>>
    /\ OtherSweeps(p)
    /\ rp'[p].pc = "tell" /\ rp'[p].s = rp[p].s

SaysStopped(p) ==
    /\ rp[p].pc = "tell" /\ rp[p].s \in Sessions
    /\ \E news \in {{}, {"stopped"}} : Tell(rp[p].s, news)
    /\ UNCHANGED <<holdVars, handoff, wk>>
    /\ OtherSweeps(p)
    /\ rp'[p].pc = "idle"

\* ... and one that finds an orphan and refunds it in silence.
FindsOrphan(p, s) ==
    /\ status[s] = "queued"
    /\ status' = [status EXCEPT ![s] = "failed"]
    /\ UNCHANGED <<charges, refunds, told, handoff, wk>>
    /\ OtherSweeps(p)
    /\ rp'[p].pc = "refundOrphan"

RefundsOrphan(p) ==
    /\ rp[p].pc = "refundOrphan" /\ rp[p].s \in Sessions
    /\ PaysBack(p)
    /\ UNCHANGED <<status, charges, told, handoff, wk>>
    /\ OtherSweeps(p)
    /\ rp'[p].pc = "idle"

StoryStep ==
    \/ Elapses
    \/ \E s \in Sessions : Hands(s)
    \/ \E w \in Workers : StepsAside(w) \/ TakesUp(w) \/ GoesOnWith(w) \/ SaysAll(w)
    \/ \E p \in Reapers : \/ SweepsAside(p) \/ GivesUp(p) \/ RefundsStopped(p)
                          \/ SaysStopped(p) \/ RefundsOrphan(p)
                          \/ \E s \in Sessions : FindsOrphan(p, s)

-----------------------------------------------------------------------------
(* Each kind preserves the invariant.                                      *)

\* A worker that a step leaves where it is speaks as it did, and is placed as
\* it was if its session is.
LEMMA StaysPlaced ==
    ASSUME NEW v \in Workers, wk'[v] = wk[v]
    PROVE  /\ Speaking(v)' <=> Speaking(v)
           /\ Finishing(v)' <=> Finishing(v)
           /\ /\ Placed(v)
              /\ status'[wk[v].s] = status[wk[v].s]
              /\ charges'[wk[v].s] = charges[wk[v].s]
              /\ refunds'[wk[v].s] = refunds[wk[v].s]
              => Placed(v)'
           /\ Placed(v) /\ ~Speaking(v) => Placed(v)'
BY DEF Speaking, Finishing, Placed, Accounted, LeasedPcs

\* A session whose row, hold and story stay as they were is agreed upon.
LEMMA StaysAgreed ==
    ASSUME NEW s \in Sessions, Agreed(s), told'[s] = told[s],
           \/ told[s] = {}
           \/ /\ status'[s] = status[s]
              /\ charges'[s] = charges[s] /\ refunds'[s] = refunds[s]
    PROVE  Agreed(s)'
BY DEF Agreed

\* A session that nobody paid for was neither charged nor refunded.
LEMMA UnpaidZero ==
    ASSUME TypeOK, NEW s \in Sessions, paid[s] = 0
    PROVE  charges[s] = 0 /\ refunds[s] = 0
<1>1. paid[s] = charges[s] + refunds[s]
    BY DEF paid
<1>2. charges[s] \in Nat /\ refunds[s] \in Nat
    BY DEF TypeOK, HoldsTyped
<1> QED
    BY <1>1, <1>2

\* Who is at work on which session.
LEMMA SpeakersKnown ==
    ASSUME TypeOK, HoldInv, LeaseInv, StoryInv
    PROVE  /\ \A w \in Workers : Speaking(w) => wk[w].s \in Sessions
           /\ \A w \in Workers : wk[w].pc # "idle" => wk[w].s \in Sessions
           /\ \A p \in Reapers : Stopping(p) => rp[p].s \in Sessions
           /\ \A w \in Workers : Speaking(w) => handoff[wk[w].s] = "done"
           /\ \A p \in Reapers : Stopping(p) => handoff[rp[p].s] = "done"
           /\ \A w \in Workers : Speaking(w) => \/ status[wk[w].s] \in Terminal
                                                \/ lease[wk[w].s] = "live"
           /\ \A w \in Workers : Speaking(w) => status[wk[w].s] # "queued"
<1>1. \A w \in Workers : Speaking(w) => wk[w].pc # "idle"
    BY DEF Speaking, Finishing, LeasedPcs
<1>2. \A p \in Reapers : Stopping(p) => rp[p].pc # "idle"
    BY DEF Stopping
<1>3. \A w \in Workers : Finishing(w) => status[wk[w].s] \in {"completed", "failed"}
    BY DEF StoryInv, AllPlaced, Placed, Accounted
<1>4. \A w \in Workers : wk[w].pc \in LeasedPcs => lease[wk[w].s] = "live"
    BY DEF LeaseInv
<1>5. \A w \in Workers : wk[w].pc \in LeasedPcs => status[wk[w].s] # "queued"
    BY DEF HoldInv, DriverHold
<1>6. /\ \A w \in Workers : wk[w].pc # "idle" => wk[w].s \in Sessions
      /\ \A p \in Reapers : rp[p].pc # "idle" => rp[p].s \in Sessions
    BY DEF TypeOK, ProcessesTyped
<1>7. /\ \A w \in Workers : wk[w].pc # "idle" => handoff[wk[w].s] = "done"
      /\ \A p \in Reapers : rp[p].pc # "idle" => handoff[rp[p].s] = "done"
    BY DEF HoldInv, HandingWorkers, HandingReapers
<1> QED
    BY <1>1, <1>2, <1>3, <1>4, <1>5, <1>6, <1>7 DEF Speaking, Terminal

\* Time, the queue and the handoffs,
LEMMA OutsideTells ==
    ASSUME TypeOK, HoldInv, LeaseInv, StoryInv, Elapses \/ \E s \in Sessions : Hands(s)
    PROVE  StoryInv'
<1>1. UNCHANGED <<told, wk, rp>>
    BY DEF Elapses, Hands
<1>2. \A w \in Workers : (Speaking(w)' <=> Speaking(w)) /\ (Finishing(w)' <=> Finishing(w))
    BY <1>1 DEF Speaking, Finishing
<1>3. \A s \in Sessions : \/ handoff[s] # "done"
                          \/ /\ status'[s] = status[s] /\ handoff'[s] = handoff[s]
                             /\ charges'[s] = charges[s] /\ refunds'[s] = refunds[s]
    BY DEF Elapses, Hands, ElsewhereStays, holdVars
<1>4. OpenIsUntold' /\ OneSpeaker'
    BY <1>1, <1>2, <1>3 DEF StoryInv, OpenIsUntold, OneSpeaker
<1>5. OneStopper'
    BY <1>1, <1>2, <1>3, SpeakersKnown DEF StoryInv, OneStopper, Stopping
<1>6. AllPlaced'
    <2> SUFFICES ASSUME NEW w \in Workers PROVE Placed(w)'
        BY DEF AllPlaced
    <2>1. Placed(w) /\ wk'[w] = wk[w]
        BY <1>1 DEF StoryInv, AllPlaced
    <2>2. CASE ~Speaking(w)
        BY <2>1, <2>2, StaysPlaced
    <2>3. CASE Speaking(w)
        BY <1>3, <2>1, <2>3, SpeakersKnown, StaysPlaced
    <2> QED
        BY <2>2, <2>3
<1>7. AllAgreed'
    BY <1>1, <1>3, StaysAgreed DEF StoryInv, AllAgreed, OpenIsUntold
<1> QED
    BY <1>4, <1>5, <1>6, <1>7 DEF StoryInv

\* the workers,
LEMMA WorkerTells ==
    ASSUME TypeOK, HoldInv, LeaseInv, StoryInv, NEW w \in Workers,
           StepsAside(w) \/ TakesUp(w) \/ GoesOnWith(w) \/ SaysAll(w)
    PROVE  StoryInv'
<1> DEFINE s == wk[w].s
<1>1. Others(w) /\ UNCHANGED <<handoff, rp>>
    BY DEF StepsAside, TakesUp, GoesOnWith, SaysAll
<1>2. \A v \in Workers \ {w} : /\ wk'[v] = wk[v]
                               /\ Speaking(v)' <=> Speaking(v)
                               /\ Finishing(v)' <=> Finishing(v)
    BY <1>1, StaysPlaced DEF Others
<1>3. status \in [Sessions -> {"none"} \cup Open \cup Terminal]
    BY DEF TypeOK, RowsTyped
<1>4. told \in [Sessions -> SUBSET {"result", "sorry", "stopped", "error"}]
    BY DEF TypeOK, HoldsTyped
<1>5. \A p \in Reapers : Stopping(p)' <=> Stopping(p)
    BY <1>1 DEF Stopping
<1>6. CASE StepsAside(w)
    <2>1. UNCHANGED <<status, charges, refunds, told>>
        BY <1>6 DEF StepsAside, holdVars
    <2>2. OpenIsUntold' /\ OneSpeaker' /\ OneStopper'
        BY <1>1, <1>2, <1>5, <1>6, <2>1
           DEF StepsAside, StoryInv, OpenIsUntold, OneSpeaker, OneStopper
    <2>3. AllPlaced'
        BY <1>2, <1>6, <2>1, StaysPlaced DEF StepsAside, StoryInv, AllPlaced
    <2>4. AllAgreed'
        BY <2>1, StaysAgreed DEF StoryInv, AllAgreed
    <2> QED
        BY <2>2, <2>3, <2>4 DEF StoryInv
<1>7. CASE TakesUp(w)
    <2>1. /\ s \in Sessions /\ status[s] \in Open /\ lease[s] # "live"
          /\ status' = [status EXCEPT ![s] = "running"]
          /\ UNCHANGED <<charges, refunds, told>>
          /\ wk'[w].s = s /\ wk'[w].pc \in {"enter", "abandon"}
        BY <1>7 DEF TakesUp
    <2>2. \A v \in Workers : Speaking(v) => wk[v].s # s
        BY <2>1, SpeakersKnown DEF Open, Terminal
    <2>3. told[s] = {} /\ \A p \in Reapers : Stopping(p) => rp[p].s # s
        BY <2>1 DEF StoryInv, OpenIsUntold, OneStopper, Open, Terminal
    <2>4. \A r \in Sessions \ {s} : status'[r] = status[r]
        BY <1>3, <2>1
    <2>5. OpenIsUntold'
        BY <1>1, <2>1, <2>3, <2>4 DEF StoryInv, OpenIsUntold
    <2>6. OneSpeaker'
        BY <1>2, <2>1, <2>2, <2>3 DEF StoryInv, OneSpeaker
    <2>7. OneStopper'
        BY <1>1, <1>2, <1>5, <2>1, <2>3, <2>4, SpeakersKnown DEF StoryInv, OneStopper
    <2>8. AllPlaced'
        <3> SUFFICES ASSUME NEW v \in Workers PROVE Placed(v)'
            BY DEF AllPlaced
        <3>1. CASE v = w
            BY <2>1, <3>1 DEF Placed, Finishing
        <3>2. CASE v # w /\ ~Speaking(v)
            BY <1>2, <3>2, StaysPlaced DEF StoryInv, AllPlaced
        <3>3. CASE v # w /\ Speaking(v)
            BY <1>2, <2>1, <2>2, <2>4, <3>3, SpeakersKnown, StaysPlaced
               DEF StoryInv, AllPlaced
        <3> QED
            BY <3>1, <3>2, <3>3
    <2>9. AllAgreed'
        BY <2>1, <2>3, <2>4, StaysAgreed DEF StoryInv, AllAgreed
    <2> QED
        BY <2>5, <2>6, <2>7, <2>8, <2>9 DEF StoryInv
<1>8. CASE GoesOnWith(w)
    <2>1. /\ Speaking(w) /\ UNCHANGED told /\ ElsewhereStays(s) /\ wk'[w].s = s
          /\ Placed(w)'
        BY <1>8 DEF GoesOnWith
    <2>2. s \in Sessions /\ handoff[s] = "done" /\ told[s] = {}
        BY <2>1, SpeakersKnown DEF StoryInv, OneSpeaker
    <2>3. \A v \in Workers : Speaking(v) /\ v # w => wk[v].s # s
        BY <2>1 DEF StoryInv, OneSpeaker
    <2>4. \A p \in Reapers : Stopping(p) => rp[p].s # s
        BY <2>1 DEF StoryInv, OneStopper
    <2>5. OpenIsUntold'
        BY <1>1, <2>1, <2>2 DEF StoryInv, OpenIsUntold, ElsewhereStays
    <2>6. OneSpeaker'
        BY <1>2, <2>1, <2>2, <2>3 DEF StoryInv, OneSpeaker
    <2>7. OneStopper'
        BY <1>1, <1>2, <1>5, <2>1, <2>4, SpeakersKnown DEF StoryInv, OneStopper, ElsewhereStays
    <2>8. AllPlaced'
        <3> SUFFICES ASSUME NEW v \in Workers PROVE Placed(v)'
            BY DEF AllPlaced
        <3>1. CASE v = w
            BY <2>1, <3>1
        <3>2. CASE v # w /\ ~Speaking(v)
            BY <1>2, <3>2, StaysPlaced DEF StoryInv, AllPlaced
        <3>3. CASE v # w /\ Speaking(v)
            BY <1>2, <2>1, <2>3, <3>3, SpeakersKnown, StaysPlaced
               DEF StoryInv, AllPlaced, ElsewhereStays
        <3> QED
            BY <3>1, <3>2, <3>3
    <2>9. AllAgreed'
        BY <2>1, <2>2, StaysAgreed DEF StoryInv, AllAgreed, ElsewhereStays
    <2> QED
        BY <2>5, <2>6, <2>7, <2>8, <2>9 DEF StoryInv
<1>9. CASE SaysAll(w)
    <2>0. PICK o \in Sessions : o = wk[w].s
        BY <1>9 DEF SaysAll
    <2>1. /\ Finishing(w) /\ Speaking(w) /\ s \in Sessions
          /\ UNCHANGED <<status, charges, refunds>> /\ wk'[w].pc = "idle"
        BY <1>9 DEF SaysAll, holdVars, Speaking
    <2>2. Accounted(s) /\ told[s] = {} /\ handoff[s] = "done"
        BY <2>1, SpeakersKnown DEF StoryInv, AllPlaced, Placed, OneSpeaker
    <2>3. ~Speaking(w)' /\ Placed(w)'
        BY <2>1 DEF Speaking, Finishing, Placed, LeasedPcs
    <2>4. \A r \in Sessions \ {s} : told'[r] = told[r]
        BY <1>4, <1>9 DEF SaysAll, Tell
    <2>5. \/ told'[s] \in {{}, {"error"}}
          \/ told'[s] = {"result"} /\ status[s] = "completed"
          \/ told'[s] = {"sorry"} /\ status[s] # "completed"
        BY <1>4, <1>9, <2>1, <2>2 DEF SaysAll, Tell
    <2>6. \A v \in Workers : Speaking(v) /\ v # w => wk[v].s # s
        BY <2>1 DEF StoryInv, OneSpeaker
    <2>7. \A p \in Reapers : Stopping(p) => rp[p].s # s
        BY <2>1 DEF StoryInv, OneStopper
    <2>8. OpenIsUntold'
        BY <1>1, <2>1, <2>2, <2>4 DEF StoryInv, OpenIsUntold, Accounted, Terminal
    <2>9. OneSpeaker'
        BY <1>2, <2>3, <2>4, <2>6, SpeakersKnown DEF StoryInv, OneSpeaker
    <2>10. OneStopper'
        <3>1. \A v \in Workers : Speaking(v)' => Speaking(v) /\ wk'[v].s = wk[v].s
            BY <1>2, <2>3
        <3>2. \A p \in Reapers : Stopping(p) => told'[rp[p].s] = told[rp[p].s]
            BY <2>4, <2>7, SpeakersKnown
        <3> QED
            BY <1>1, <1>5, <2>1, <3>1, <3>2 DEF StoryInv, OneStopper
    <2>11. AllPlaced'
        BY <1>2, <2>1, <2>3, StaysPlaced DEF StoryInv, AllPlaced
    <2>12. Agreed(o)'
        <3>1. \E news : told'[o] \subseteq {news}
            BY <2>0, <2>5
        <3> QED
            BY <2>0, <2>1, <2>2, <2>5, <3>1 DEF Agreed, Accounted
    <2>13. AllAgreed'
        BY <2>0, <2>1, <2>4, <2>12, StaysAgreed DEF StoryInv, AllAgreed
    <2> QED
        BY <2>8, <2>9, <2>10, <2>11, <2>13 DEF StoryInv
<1> QED
    BY <1>6, <1>7, <1>8, <1>9

\* and the sweeps.
LEMMA SweepTells ==
    ASSUME TypeOK, HoldInv, LeaseInv, StoryInv, NEW p \in Reapers,
           \/ SweepsAside(p) \/ GivesUp(p) \/ RefundsStopped(p)
           \/ SaysStopped(p) \/ RefundsOrphan(p)
           \/ \E s \in Sessions : FindsOrphan(p, s)
    PROVE  StoryInv'
<1>1. OtherSweeps(p) /\ UNCHANGED <<handoff, wk>>
    BY DEF SweepsAside, GivesUp, RefundsStopped, SaysStopped, RefundsOrphan, FindsOrphan
<1>2. \A q \in Reapers \ {p} : rp'[q] = rp[q] /\ (Stopping(q)' <=> Stopping(q))
    BY <1>1 DEF OtherSweeps, Stopping
<1>3. \A w \in Workers : /\ wk'[w] = wk[w]
                         /\ Speaking(w)' <=> Speaking(w)
                         /\ Finishing(w)' <=> Finishing(w)
    BY <1>1, StaysPlaced
<1>4. /\ status \in [Sessions -> {"none"} \cup Open \cup Terminal]
      /\ refunds \in [Sessions -> Nat] /\ charges \in [Sessions -> Nat]
      /\ told \in [Sessions -> SUBSET {"result", "sorry", "stopped", "error"}]
    BY DEF TypeOK, RowsTyped, HoldsTyped
<1> USE SpeakersKnown
<1>5. CASE SweepsAside(p)
    <2>1. UNCHANGED <<status, charges, refunds, told>> /\ ~Stopping(p)'
        BY <1>5 DEF SweepsAside, holdVars
    <2>2. OpenIsUntold' /\ OneSpeaker' /\ OneStopper'
        BY <1>1, <1>2, <1>3, <2>1 DEF StoryInv, OpenIsUntold, OneSpeaker, OneStopper
    <2>3. AllPlaced'
        BY <1>3, <2>1, StaysPlaced DEF StoryInv, AllPlaced
    <2>4. AllAgreed'
        BY <2>1, StaysAgreed DEF StoryInv, AllAgreed
    <2> QED
        BY <2>2, <2>3, <2>4 DEF StoryInv
\* The row and the hold of s change, of which nobody has spoken or speaks.
<1>6. ASSUME NEW s \in Sessions, told[s] = {}, UNCHANGED told, ElsewhereStays(s),
             \A w \in Workers : Speaking(w) => wk[w].s # s
      PROVE  OpenIsUntold' /\ OneSpeaker' /\ AllPlaced' /\ AllAgreed'
    <2>1. OpenIsUntold' /\ OneSpeaker'
        BY <1>1, <1>3, <1>6 DEF StoryInv, OpenIsUntold, OneSpeaker, ElsewhereStays
    <2>2. AllPlaced'
        <3> SUFFICES ASSUME NEW v \in Workers PROVE Placed(v)'
            BY DEF AllPlaced
        <3>1. CASE ~Speaking(v)
            BY <1>3, <3>1, StaysPlaced DEF StoryInv, AllPlaced
        <3>2. CASE Speaking(v)
            BY <1>3, <1>6, <3>2, StaysPlaced DEF StoryInv, AllPlaced, ElsewhereStays
        <3> QED
            BY <3>1, <3>2
    <2>3. AllAgreed'
        BY <1>6, StaysAgreed DEF StoryInv, AllAgreed, ElsewhereStays
    <2> QED
        BY <2>1, <2>2, <2>3
<1>7. CASE GivesUp(p)
    <2> DEFINE s == rp[p].s
    <2>1. /\ s \in Sessions /\ status[s] = "running" /\ lease[s] # "live"
          /\ status' = [status EXCEPT ![s] = "failed"]
          /\ UNCHANGED <<charges, refunds, told>>
          /\ rp'[p].pc = "refundExhausted" /\ rp'[p].s = s
        BY <1>7 DEF GivesUp
    <2> HIDE DEF s
    <2>2. \A w \in Workers : Speaking(w) => wk[w].s # s
        BY <2>1 DEF Terminal
    <2>3. told[s] = {} /\ \A q \in Reapers : Stopping(q) => rp[q].s # s
        BY <2>1 DEF StoryInv, OpenIsUntold, OneStopper, Terminal
    <2>4. ElsewhereStays(s) /\ status'[s] = "failed"
        BY <1>4, <2>1 DEF ElsewhereStays
    <2>5. OneStopper'
        BY <1>2, <1>3, <2>1, <2>2, <2>3, <2>4 DEF StoryInv, OneStopper, ElsewhereStays
    <2> QED
        BY <1>6, <2>1, <2>2, <2>3, <2>4, <2>5 DEF StoryInv
<1>8. CASE RefundsStopped(p)
    <2> DEFINE s == rp[p].s
    <2>1. /\ s \in Sessions /\ Stopping(p) /\ Sweeping(p)
          /\ refunds' = [refunds EXCEPT ![s] = @ + 1]
          /\ UNCHANGED <<status, charges, told>>
          /\ rp'[p].pc = "tell" /\ rp'[p].s = s
        BY <1>8 DEF RefundsStopped, PaysBack, Stopping, Sweeping
    <2>2. charges[s] = 0 /\ refunds[s] = 0
        BY <2>1, UnpaidZero DEF HoldInv, SweepHold
    <2>3. /\ told[s] = {} /\ status[s] = "failed"
          /\ \A w \in Workers : Speaking(w) => wk[w].s # s
          /\ \A q \in Reapers : Stopping(q) /\ rp[q].s = s => q = p
        BY <2>1 DEF StoryInv, OneStopper
    <2> HIDE DEF s
    <2>4. ElsewhereStays(s) /\ refunds'[s] = 1 /\ charges'[s] = 0
        BY <1>4, <2>1, <2>2 DEF ElsewhereStays
    <2>5. OneStopper'
        BY <1>2, <1>3, <2>1, <2>3, <2>4 DEF StoryInv, OneStopper, ElsewhereStays
    <2> QED
        BY <1>6, <2>1, <2>3, <2>4, <2>5 DEF StoryInv
<1>9. CASE SaysStopped(p)
    <2> DEFINE s == rp[p].s
    <2>0. PICK o \in Sessions : o = s
        BY <1>9 DEF SaysStopped
    <2>1. /\ s \in Sessions /\ Stopping(p) /\ rp[p].pc = "tell"
          /\ UNCHANGED <<status, charges, refunds>>
          /\ rp'[p].pc = "idle"
        BY <1>9 DEF SaysStopped, holdVars, Stopping
    <2>2. /\ told[s] = {} /\ status[s] = "failed" /\ charges[s] = 0 /\ refunds[s] = 1
          /\ \A w \in Workers : Speaking(w) => wk[w].s # s
          /\ \A q \in Reapers : Stopping(q) /\ rp[q].s = s => q = p
          /\ handoff[s] = "done"
        BY <2>1 DEF StoryInv, OneStopper
    <2>3. told'[s] \in {{}, {"stopped"}} /\ \A r \in Sessions \ {s} : told'[r] = told[r]
        BY <1>4, <1>9, <2>1, <2>2 DEF SaysStopped, Tell
    <2> HIDE DEF s
    <2>4. OpenIsUntold'
        BY <1>1, <2>1, <2>2, <2>3 DEF StoryInv, OpenIsUntold, Terminal
    <2>5. OneSpeaker'
        BY <1>3, <2>2, <2>3 DEF StoryInv, OneSpeaker
    <2>6. OneStopper'
        BY <1>2, <1>3, <2>1, <2>2, <2>3 DEF StoryInv, OneStopper, Stopping
    <2>7. AllPlaced'
        BY <1>3, <2>1, StaysPlaced DEF StoryInv, AllPlaced
    <2>8. Agreed(o)'
        <3>1. \E news : told'[o] \subseteq {news}
            BY <2>0, <2>3
        <3> QED
            BY <2>0, <2>1, <2>2, <2>3, <3>1 DEF Agreed
    <2>9. AllAgreed'
        BY <2>0, <2>1, <2>3, <2>8, StaysAgreed DEF StoryInv, AllAgreed
    <2> QED
        BY <2>4, <2>5, <2>6, <2>7, <2>9 DEF StoryInv
<1>10. CASE RefundsOrphan(p)
    <2> DEFINE s == rp[p].s
    <2>0. PICK o \in Sessions : o = s
        BY <1>10 DEF RefundsOrphan
    <2>1. /\ s \in Sessions /\ Sweeping(p) /\ ~Stopping(p)
          /\ refunds' = [refunds EXCEPT ![s] = @ + 1]
          /\ UNCHANGED <<status, charges, told>>
          /\ rp'[p].pc = "idle"
        BY <1>10 DEF RefundsOrphan, PaysBack, Stopping, Sweeping
    <2>2. /\ charges[s] = 0 /\ refunds[s] = 0
          /\ \A q \in Reapers : Sweeping(q) /\ rp[q].s = s => q = p
        BY <2>1, UnpaidZero DEF HoldInv, SweepHold
    <2>3. \A w \in Workers : Speaking(w) => wk[w].s # s
        <3>1. \A w \in Workers : wk[w].pc \in LeasedPcs => wk[w].s # s
            BY <2>1 DEF HoldInv, DriverHold, Unswept
        <3>2. \A w \in Workers : Finishing(w) => wk[w].s # s
            BY <2>2 DEF StoryInv, AllPlaced, Placed, Accounted
        <3> QED
            BY <3>1, <3>2 DEF Speaking
    <2>4. \A q \in Reapers : Stopping(q) => rp[q].s # s
        BY <2>1, <2>2 DEF Stopping, Sweeping, StoryInv, OneStopper
    <2> HIDE DEF s
    <2>5. ElsewhereStays(s)
        BY <1>4, <2>1 DEF ElsewhereStays
    <2>6. OpenIsUntold' /\ OneSpeaker'
        BY <1>1, <1>3, <2>1 DEF StoryInv, OpenIsUntold, OneSpeaker
    <2>7. OneStopper'
        BY <1>2, <1>3, <2>1, <2>4, <2>5 DEF StoryInv, OneStopper, Stopping, ElsewhereStays
    <2>8. AllPlaced'
        <3> SUFFICES ASSUME NEW v \in Workers PROVE Placed(v)'
            BY DEF AllPlaced
        <3>1. CASE ~Speaking(v)
            BY <1>3, <3>1, StaysPlaced DEF StoryInv, AllPlaced
        <3>2. CASE Speaking(v)
            BY <1>3, <2>3, <2>5, <3>2, StaysPlaced DEF StoryInv, AllPlaced, ElsewhereStays
        <3> QED
            BY <3>1, <3>2
    <2>9. Agreed(o)'
        <3>1. Agreed(o) /\ charges[o] = 0 /\ refunds[o] = 0 /\ told'[o] = told[o]
            BY <2>0, <2>1, <2>2 DEF StoryInv, AllAgreed
        <3> QED
            BY <3>1 DEF Agreed
    <2>10. AllAgreed'
        BY <2>0, <2>1, <2>5, <2>9, StaysAgreed DEF StoryInv, AllAgreed, ElsewhereStays
    <2> QED
        BY <2>6, <2>7, <2>8, <2>10 DEF StoryInv
<1>11. ASSUME NEW s \in Sessions, FindsOrphan(p, s) PROVE StoryInv'
    <2>1. /\ status[s] = "queued" /\ status' = [status EXCEPT ![s] = "failed"]
          /\ UNCHANGED <<charges, refunds, told>>
          /\ ~Stopping(p)'
        BY <1>11 DEF FindsOrphan, Stopping
    <2>2. \A w \in Workers : Speaking(w) => wk[w].s # s
        BY <2>1
    <2>3. told[s] = {} /\ \A q \in Reapers : Stopping(q) => rp[q].s # s
        BY <2>1 DEF StoryInv, OpenIsUntold, OneStopper, Terminal
    <2>4. ElsewhereStays(s)
        BY <1>4, <2>1 DEF ElsewhereStays
    <2>5. OneStopper'
        BY <1>2, <1>3, <2>1, <2>3, <2>4 DEF StoryInv, OneStopper, ElsewhereStays
    <2> QED
        BY <1>6, <2>1, <2>2, <2>3, <2>4, <2>5 DEF StoryInv
<1> QED
    BY <1>5, <1>7, <1>8, <1>9, <1>10, <1>11

-----------------------------------------------------------------------------
(* Every step of the component is one of these kinds.                      *)

\* Where a worker comes to, of the same session.
Becomes(w, pc, final, outcome) ==
    /\ Others(w)
    /\ wk'[w].s = wk[w].s /\ wk'[w].pc = pc
    /\ wk'[w].final = final /\ wk'[w].outcome = outcome

LEMMA GotoBecomes ==
    ASSUME TypeOK, NEW w \in Workers, NEW pc, Goto(w, pc)
    PROVE  Becomes(w, pc, wk[w].final, wk[w].outcome)
BY DEF TypeOK, ProcessesTyped, WorkerType, Goto, Becomes, Others

LEMMA EndsBecomes ==
    ASSUME TypeOK, NEW w \in Workers, NEW pc, NEW final, Ends(w, pc, final)
    PROVE  Becomes(w, pc, final, wk[w].outcome)
BY DEF TypeOK, ProcessesTyped, WorkerType, Ends, Becomes, Others

LEMMA LeavesBecomes ==
    ASSUME TypeOK, NEW w \in Workers, NEW outcome, Leaves(w, outcome)
    PROVE  Becomes(w, "release", wk[w].final, outcome)
BY DEF TypeOK, ProcessesTyped, WorkerType, Leaves, Becomes, Others

\* A worker under way whose session's row and hold it leaves alone, and which
\* comes to a place that asks nothing new, goes on with its session.
LEMMA GoesOnQuietly ==
    ASSUME TypeOK, NEW w \in Workers, Speaking(w), UNCHANGED <<holdVars, told, handoff, rp>>,
           NEW pc, NEW final, NEW outcome, Becomes(w, pc, final, outcome),
           pc \in {"enter", "head", "step", "charge", "catch", "refund", "release", "report"},
           pc = "charge" => final \in {"completed", "failed"},
           pc = "release" => outcome = "skipped" \/ (outcome = "ran" /\ Accounted(wk[w].s)),
           pc = "report" => Accounted(wk[w].s)
    PROVE  GoesOnWith(w)
<1>1. ElsewhereStays(wk[w].s) /\ Others(w) /\ wk'[w].s = wk[w].s
    BY DEF ElsewhereStays, holdVars, Becomes
<1>2. Placed(w)'
    BY DEF Placed, Finishing, Accounted, Becomes, holdVars
<1> QED
    BY <1>1, <1>2 DEF GoesOnWith

\* One that leaves its session, or takes another job up, says nothing.
LEMMA LeavesQuietly ==
    ASSUME TypeOK, NEW w \in Workers, UNCHANGED <<holdVars, told, handoff, rp>>,
           Others(w), wk'[w].pc \in {"idle", "claim"}
    PROVE  StepsAside(w)
BY DEF StepsAside, Speaking, Finishing, Placed, LeasedPcs

LEMMA IdlesQuietly ==
    ASSUME TypeOK, NEW w \in Workers, UNCHANGED <<holdVars, told, handoff, rp>>,
           wk' = [wk EXCEPT ![w] = IdleWorker]
    PROVE  StepsAside(w)
<1>1. Others(w) /\ wk'[w].pc = "idle"
    BY DEF TypeOK, ProcessesTyped, IdleWorker, Others
<1> QED
    BY <1>1, LeavesQuietly

\* What a settlement that is not lost does.
LEMMA Settles ==
    ASSUME Orderly, TypeOK, NEW s \in Sessions, paid[s] = 0, UNCHANGED status
    PROVE  /\ GiveBack(s) => ElsewhereStays(s) /\ charges'[s] = 0 /\ refunds'[s] = 1
           /\ ChargeHold(s) => ElsewhereStays(s) /\ charges'[s] = 1 /\ refunds'[s] = 0
<1>1. charges[s] = 0 /\ refunds[s] = 0
    BY UnpaidZero
<1>2. charges \in [Sessions -> Nat] /\ refunds \in [Sessions -> Nat]
    BY DEF TypeOK, HoldsTyped
<1>3. "lostSettle" \notin Faults
    BY DEF Orderly
<1>4. ASSUME GiveBack(s)
      PROVE  ElsewhereStays(s) /\ charges'[s] = 0 /\ refunds'[s] = 1
    BY <1>1, <1>2, <1>3, <1>4 DEF GiveBack, ElsewhereStays
<1>5. ASSUME ChargeHold(s)
      PROVE  ElsewhereStays(s) /\ charges'[s] = 1 /\ refunds'[s] = 0
    BY <1>1, <1>2, <1>3, <1>5 DEF ChargeHold, ElsewhereStays
<1> QED
    BY <1>4, <1>5

\* What writing a row does.
LEMMA SetsElsewhere ==
    ASSUME TypeOK, NEW s \in Sessions, NEW to, SetStatus(s, to), UNCHANGED moneyVars
    PROVE  ElsewhereStays(s) /\ status'[s] = to
BY DEF TypeOK, RowsTyped, SetStatus, ElsewhereStays, moneyVars

\* Time, the queue and the handoffs are the first two kinds.
LEMMA OutsideStory ==
    ASSUME Orderly, TypeOK, HoldInv, NEW s \in Sessions,
           \/ HandoffStep(s) \/ CancelStep(s) \/ Lapse(s) \/ Age(s) \/ LoseJob(s)
           \/ \E n \in JobIds : Stall(s, n) \/ Forget(s, n)
    PROVE  StoryStep
<1> USE DEF rowVars, leaseVars, moneyVars, queueVars
<1>1. handoff \in [Sessions -> HandoffPcs]
    BY DEF TypeOK, HoldsTyped
<1>2. ASSUME Hands(s) PROVE StoryStep
    BY <1>2 DEF StoryStep
<1>3. ASSUME handoff[s] # "done", UNCHANGED <<told, wk, rp>>, ElsewhereStays(s),
             NEW pc, ToHandoff(s, pc)
      PROVE  StoryStep
    BY <1>1, <1>2, <1>3 DEF Hands, ToHandoff
<1>4. CASE \/ Reserve(s) \/ CreateThrows(s) \/ Enqueue(s) \/ CountersThrow(s)
           \/ CrashHandoff(s)
    <2>1. UNCHANGED <<status, charges, refunds, told, wk, rp>> /\ handoff[s] # "done"
        BY <1>4 DEF Reserve, CreateThrows, Enqueue, CountersThrow, CrashHandoff
    <2>2. \E pc : ToHandoff(s, pc)
        BY <1>4 DEF Reserve, CreateThrows, Enqueue, CountersThrow, CrashHandoff
    <2>3. ElsewhereStays(s)
        BY <2>1 DEF ElsewhereStays
    <2> QED
        BY <1>3, <2>1, <2>2, <2>3
<1>5. CASE CreateRow(s)
    <2>1. ElsewhereStays(s)
        BY <1>5, SetsElsewhere DEF CreateRow
    <2> QED
        BY <1>3, <1>5, <2>1 DEF CreateRow
<1>6. CASE CancelUnsettled(s)
    <2>1. ElsewhereStays(s)
        <3>1. CASE SetStatus(s, "cancelled")
            BY <1>6, <3>1, SetsElsewhere DEF CancelUnsettled
        <3>2. CASE UNCHANGED rowVars
            BY <1>6, <3>2 DEF CancelUnsettled, ElsewhereStays
        <3> QED
            BY <1>6, <3>1, <3>2 DEF CancelUnsettled
    <2> QED
        BY <1>3, <1>6, <2>1 DEF CancelUnsettled
<1>7. CASE RefundHandoff(s)
    <2>1. ElsewhereStays(s)
        BY <1>7, Settles DEF RefundHandoff, HoldInv, HandingRow
    <2> QED
        BY <1>3, <1>7, <2>1 DEF RefundHandoff
<1>8. CASE CancelStep(s)
    BY <1>8 DEF CancelStep, ReadCancel, CancelJob, WriteCancel, HoldInv, CancelsAllowed, Orderly,
                Calm
<1>9. CASE \/ Lapse(s) \/ Age(s) \/ LoseJob(s)
           \/ \E n \in JobIds : Stall(s, n) \/ Forget(s, n)
    BY <1>9 DEF Lapse, Age, LoseJob, Stall, Forget, Elapses, holdVars, StoryStep
<1> QED
    BY <1>4, <1>5, <1>6, <1>7, <1>8, <1>9 DEF HandoffStep

\* A worker's steps are the next four.
LEMMA WorkerStory ==
    ASSUME Orderly, TypeOK, HoldInv, LeaseInv, StoryInv, NEW w \in Workers,
           \/ WorkerStep(w) \/ Renew(w) \/ CrashWorker(w)
           \/ \E s \in Sessions : TakeDirect(w, s) \/ \E n \in JobIds : TakeJob(w, s, n)
    PROVE  StepsAside(w) \/ TakesUp(w) \/ GoesOnWith(w) \/ SaysAll(w)
<1> USE DEF rowVars, leaseVars, moneyVars
<1> DEFINE s == wk[w].s
<1>1. wk[w].pc # "idle" => s \in Sessions
    BY DEF TypeOK, ProcessesTyped
<1>2. Placed(w)
    BY DEF StoryInv, AllPlaced
<1>3. wk[w].pc \in LeasedPcs => Speaking(w)
    BY DEF Speaking
<1>4. /\ wk[w].pc \in {"refundAbandoned", "charge", "refund"} => paid[s] = 0
      /\ wk[w].pc = "head" => status[s] = "running"
    BY DEF HoldInv, DriverHold, UnpaidPcs, RunningPcs, LeasedPcs, Orderly
<1>5. "saveFails" \notin Faults /\ {"escape", "claimFails"} \cap Faults = {}
    BY DEF Orderly, Calm
<1> HIDE DEF s
<1>6. CASE Claim(w)
    <2>1. CASE Claimable(s) /\ TakeRow(s, w) /\ ClaimStep(w)
        <3>1. /\ Others(w) /\ wk'[w].s = s /\ wk'[w].pc \in {"enter", "abandon"}
            BY <2>1 DEF ClaimStep, Others, TypeOK, ProcessesTyped, WorkerType, s
        <3>2. /\ s \in Sessions /\ status[s] \in Open /\ lease[s] # "live"
              /\ status' = [status EXCEPT ![s] = "running"]
              /\ UNCHANGED <<charges, refunds, told, handoff, rp>>
            BY <1>1, <1>6, <2>1 DEF Claim, Claimable, TakeRow
        <3> QED
            BY <3>1, <3>2 DEF TakesUp, s
    <2>2. CASE Return(w) /\ UNCHANGED rowVars
        BY <1>6, <2>2, IdlesQuietly DEF Claim, Return, holdVars
    <2> QED
        BY <1>6, <2>1, <2>2 DEF Claim, ClaimStep, s
<1>7. CASE ClaimThrows(w) \/ Escape(w) \/ AgentGone(w) \/ SaveFails(w)
    BY <1>5, <1>7 DEF ClaimThrows, Escape, AgentGone, SaveFails
<1>8. CASE Abandon(w)
    <2>1. /\ Becomes(w, "refundAbandoned", "failed", wk[w].outcome)
          /\ ElsewhereStays(s) /\ status'[s] = "failed" /\ Speaking(w)
          /\ UNCHANGED <<told, handoff, rp>>
        BY <1>1, <1>3, <1>8, EndsBecomes, SetsElsewhere DEF Abandon, LeasedPcs, s
    <2>2. Placed(w)'
        BY <2>1 DEF Becomes, Placed, Finishing, s
    <2> QED
        BY <2>1, <2>2 DEF GoesOnWith, Becomes, s
<1>9. CASE RefundAbandoned(w)
    <2>1. /\ Becomes(w, "release", wk[w].final, "ran")
          /\ ElsewhereStays(s) /\ charges'[s] = 0 /\ refunds'[s] = 1 /\ Speaking(w)
          /\ status'[s] = "failed"
          /\ UNCHANGED <<told, handoff, rp>>
        BY <1>1, <1>2, <1>3, <1>4, <1>9, LeavesBecomes, Settles
           DEF RefundAbandoned, LeasedPcs, Placed, s
    <2>2. Placed(w)'
        BY <2>1 DEF Becomes, Placed, Accounted, s
    <2> QED
        BY <2>1, <2>2 DEF GoesOnWith, Becomes, s
<1>10. CASE Enter(w) \/ Head(w) \/ Step(w) \/ Complete(w) \/ Break(w) \/ Catch(w)
    <2>1. UNCHANGED <<holdVars, told, handoff, rp>> /\ Speaking(w)
        BY <1>3, <1>10 DEF Enter, Head, Step, Complete, Break, Catch, holdVars, LeasedPcs
    <2>2. \/ \E pc \in {"head", "step", "catch", "refund"} : Goto(w, pc)
          \/ \E f \in {"completed", "failed"} : Ends(w, "charge", f)
          \/ Leaves(w, "skipped")
        BY <1>4, <1>10 DEF Enter, Head, Step, Complete, Break, Catch, s
    <2>3. ASSUME NEW pc \in {"head", "step", "catch", "refund"}, Goto(w, pc)
          PROVE  GoesOnWith(w)
        BY <2>1, <2>3, GotoBecomes, GoesOnQuietly
    <2>4. ASSUME NEW f \in {"completed", "failed"}, Ends(w, "charge", f)
          PROVE  GoesOnWith(w)
        BY <2>1, <2>4, EndsBecomes, GoesOnQuietly
    <2>5. ASSUME Leaves(w, "skipped") PROVE GoesOnWith(w)
        <3>1. Becomes(w, "release", wk[w].final, "skipped")
            BY <2>5, LeavesBecomes
        <3> QED
            BY <2>1, <3>1, GoesOnQuietly
    <2> QED
        BY <2>2, <2>3, <2>4, <2>5
<1>11. CASE NoModel(w)
    <2>1. /\ Becomes(w, "catch", wk[w].final, wk[w].outcome) /\ Speaking(w)
          /\ UNCHANGED <<told, handoff, rp>>
        BY <1>3, <1>11, GotoBecomes DEF NoModel, LeasedPcs
    <2>2. ElsewhereStays(s)
        <3>1. CASE SetStatus(s, "failed")
            BY <1>1, <1>11, <3>1, SetsElsewhere DEF NoModel
        <3>2. CASE UNCHANGED rowVars
            BY <1>11, <3>2 DEF NoModel, ElsewhereStays
        <3> QED
            BY <1>11, <3>1, <3>2 DEF NoModel, s
    <2>3. Placed(w)'
        BY <2>1 DEF Becomes, Placed, Finishing
    <2> QED
        BY <2>1, <2>2, <2>3 DEF GoesOnWith, Becomes, s
<1>12. CASE Charge(w)
    <2>1. /\ Becomes(w, "save", wk[w].final, wk[w].outcome) /\ Speaking(w)
          /\ wk[w].final \in {"completed", "failed"}
          /\ ElsewhereStays(s) /\ charges'[s] = 1 /\ refunds'[s] = 0
          /\ UNCHANGED <<told, handoff, rp>>
        BY <1>1, <1>2, <1>3, <1>4, <1>12, GotoBecomes, Settles
           DEF Charge, LeasedPcs, Placed, s
    <2>2. Placed(w)'
        BY <2>1 DEF Becomes, Placed, Finishing, s
    <2> QED
        BY <2>1, <2>2 DEF GoesOnWith, Becomes, s
<1>13. CASE Save(w)
    <2>1. /\ Becomes(w, "settled", wk[w].final, wk[w].outcome) /\ Speaking(w)
          /\ charges'[s] = 1 /\ refunds'[s] = 0
          /\ ElsewhereStays(s) /\ status'[s] \in {"completed", "failed"}
          /\ UNCHANGED <<told, handoff, rp>>
        BY <1>1, <1>2, <1>3, <1>13, GotoBecomes, SetsElsewhere DEF Save, LeasedPcs, Placed, s
    <2>2. Placed(w)'
        BY <2>1 DEF Becomes, Placed, Accounted, s
    <2> QED
        BY <2>1, <2>2 DEF GoesOnWith, Becomes, s
<1>14. CASE Refund(w)
    <2>1. /\ Becomes(w, "saveFailed", wk[w].final, wk[w].outcome) /\ Speaking(w)
          /\ ElsewhereStays(s) /\ charges'[s] = 0 /\ refunds'[s] = 1
          /\ UNCHANGED <<told, handoff, rp>>
        BY <1>1, <1>3, <1>4, <1>14, GotoBecomes, Settles DEF Refund, LeasedPcs, s
    <2>2. Placed(w)'
        BY <2>1 DEF Becomes, Placed, Finishing, s
    <2> QED
        BY <2>1, <2>2 DEF GoesOnWith, Becomes, s
<1>15. CASE SaveFailed(w)
    <2>1. /\ Becomes(w, "settled", "failed", wk[w].outcome) /\ Speaking(w)
          /\ charges'[s] = 0 /\ refunds'[s] = 1
          /\ ElsewhereStays(s) /\ status'[s] = "failed"
          /\ UNCHANGED <<told, handoff, rp>>
        BY <1>1, <1>2, <1>3, <1>15, EndsBecomes, SetsElsewhere
           DEF SaveFailed, LeasedPcs, Placed, s
    <2>2. Placed(w)'
        BY <2>1 DEF Becomes, Placed, Accounted, s
    <2> QED
        BY <2>1, <2>2 DEF GoesOnWith, Becomes, s
<1>16. CASE Leave(w)
    <2>1. /\ Speaking(w) /\ Accounted(s) /\ UNCHANGED <<holdVars, told, handoff, rp>>
        BY <1>2, <1>3, <1>16 DEF Leave, LeasedPcs, Placed, Finishing, holdVars, s
    <2>2. PICK outcome \in {"ran", "skipped"} : Leaves(w, outcome)
        BY <1>16 DEF Leave
    <2>3. Becomes(w, "release", wk[w].final, outcome)
        BY <2>2, LeavesBecomes
    <2> QED
        BY <2>1, <2>2, <2>3, GoesOnQuietly DEF s
<1>17. CASE Release(w)
    <2>1. UNCHANGED <<status, charges, refunds, handoff, rp>>
        BY <1>17 DEF Release, DropLease, NoLease
    <2>2. CASE wk[w].outcome = "ran" /\ Goto(w, "report") /\ UNCHANGED told
        <3>1. Speaking(w) /\ Accounted(s)
            BY <1>2, <1>17, <2>2 DEF Release, Speaking, Finishing, Placed, s
        <3> QED
            BY <2>1, <2>2, <3>1, GotoBecomes, GoesOnQuietly DEF holdVars, s
    <2>3. CASE Return(w) /\ UNCHANGED told
        BY <2>1, <2>3, IdlesQuietly DEF Return, holdVars
    <2> QED
        BY <1>2, <1>17, <2>2, <2>3 DEF Release, Placed
<1>18. CASE Report(w) \/ ReportThrows(w)
    <2>1. /\ Finishing(w) /\ s \in Sessions /\ UNCHANGED <<holdVars, handoff, rp>>
          /\ wk' = [wk EXCEPT ![w] = IdleWorker]
        BY <1>1, <1>18 DEF Report, ReportThrows, Return, Throw, Finishing, holdVars
    <2>2. Others(w) /\ wk'[w].pc = "idle"
        BY <2>1 DEF TypeOK, ProcessesTyped, IdleWorker, Others
    <2>3. \E news \in {{}, {"error"},
                       {IF status[s] = "completed" THEN "result" ELSE "sorry"}} :
              Tell(s, news)
        BY <1>18 DEF Report, ReportThrows, Throw, s
    <2> QED
        BY <2>1, <2>2, <2>3 DEF SaysAll, s
<1>19. CASE Renew(w)
    <2>1. UNCHANGED <<holdVars, told, handoff, rp>> /\ Speaking(w)
        BY <1>3, <1>19 DEF Renew, holdVars
    <2>2. /\ Others(w) /\ wk'[w].s = wk[w].s /\ wk'[w].pc = wk[w].pc
          /\ wk'[w].final = wk[w].final /\ wk'[w].outcome = wk[w].outcome
        BY <1>19 DEF Renew, Others, TypeOK, ProcessesTyped, WorkerType
    <2>3. Placed(w)'
        BY <1>2, <2>1, <2>2 DEF Placed, Finishing, Accounted, holdVars
    <2>4. ElsewhereStays(s)
        BY <2>1 DEF ElsewhereStays, holdVars
    <2> QED
        BY <2>1, <2>2, <2>3, <2>4 DEF GoesOnWith, s
<1>20. CASE CrashWorker(w)
    BY <1>20, IdlesQuietly DEF CrashWorker, holdVars
<1>21. ASSUME NEW o \in Sessions, TakeDirect(w, o) \/ \E n \in JobIds : TakeJob(w, o, n)
       PROVE  StepsAside(w)
    <2>1. UNCHANGED <<holdVars, told, handoff, rp>>
        BY <1>21 DEF TakeDirect, TakeJob, holdVars
    <2>2. \E n, last : Begin(w, o, n, last)
        BY <1>21 DEF TakeDirect, TakeJob
    <2>3. Others(w) /\ wk'[w].pc = "claim"
        BY <2>2 DEF Begin, Others, TypeOK, ProcessesTyped
    <2> QED
        BY <2>1, <2>3, LeavesQuietly
<1> QED
    BY <1>6, <1>7, <1>8, <1>9, <1>10, <1>11, <1>12, <1>13, <1>14, <1>15, <1>16, <1>17,
       <1>18, <1>19, <1>20, <1>21 DEF WorkerStep

\* And a sweep's steps are the rest.
LEMMA SweepStory ==
    ASSUME Orderly, TypeOK, HoldInv, NEW p \in Reapers,
           \/ ReaperStep(p) \/ CrashReaper(p)
           \/ \E s \in Sessions : ListLapsed(p, s) \/ ClaimOrphan(p, s)
    PROVE  \/ SweepsAside(p) \/ GivesUp(p) \/ RefundsStopped(p)
           \/ SaysStopped(p) \/ RefundsOrphan(p)
           \/ \E s \in Sessions : FindsOrphan(p, s)
<1> USE DEF rowVars, leaseVars, moneyVars
<1>1. rp[p].pc # "idle" => rp[p].s \in Sessions
    BY DEF TypeOK, ProcessesTyped
<1>2. ASSUME NEW k, rp' = [rp EXCEPT ![p] = k] PROVE OtherSweeps(p) /\ rp'[p] = k
    BY <1>2 DEF TypeOK, ProcessesTyped, OtherSweeps
<1>3. ASSUME NEW pc, ToReaper(p, pc)
      PROVE  OtherSweeps(p) /\ rp'[p].pc = pc /\ rp'[p].s = rp[p].s
    BY <1>3 DEF TypeOK, ProcessesTyped, OtherSweeps, ToReaper
<1>4. ASSUME rp' = [rp EXCEPT ![p] = IdleReaper]
      PROVE  OtherSweeps(p) /\ rp'[p].pc = "idle" /\ ~Stopping(p)'
    <2>1. OtherSweeps(p) /\ rp'[p] = IdleReaper
        BY <1>2, <1>4
    <2>2. rp'[p].pc = "idle"
        BY <2>1 DEF IdleReaper
    <2> QED
        BY <2>1, <2>2 DEF Stopping
<1>5. "lostSettle" \notin Faults
    BY DEF Orderly
<1>6. CASE Resume(p) \/ CrashReaper(p)
    BY <1>4, <1>6 DEF Resume, CrashReaper, SweepsAside, holdVars
<1>7. CASE FailExhausted(p)
    <2>1. CASE /\ Exhausted(rp[p].s)
               /\ status' = [status EXCEPT ![rp[p].s] = "failed"]
               /\ ToReaper(p, "refundExhausted")
        BY <1>1, <1>3, <1>7, <2>1 DEF FailExhausted, Exhausted, Lapsed, GivesUp
    <2>2. CASE rp' = [rp EXCEPT ![p] = IdleReaper] /\ UNCHANGED rowVars
        BY <1>4, <1>7, <2>2 DEF FailExhausted, SweepsAside, holdVars
    <2> QED
        BY <1>7, <2>1, <2>2 DEF FailExhausted
<1>8. CASE RefundExhausted(p)
    BY <1>1, <1>3, <1>5, <1>8 DEF RefundExhausted, GiveBack, PaysBack, RefundsStopped
<1>9. CASE TellStopped(p)
    BY <1>1, <1>4, <1>9 DEF TellStopped, SaysStopped, holdVars
<1>10. CASE RefundOrphan(p)
    BY <1>1, <1>4, <1>5, <1>10 DEF RefundOrphan, GiveBack, PaysBack, RefundsOrphan
<1>11. ASSUME NEW s \in Sessions, ListLapsed(p, s) PROVE SweepsAside(p)
    <2> DEFINE k == [pc |-> "reap", s |-> s, attempts |-> attempts[s]]
    <2>1. rp' = [rp EXCEPT ![p] = k] /\ k.pc = "reap"
        BY <1>11 DEF ListLapsed
    <2> HIDE DEF k
    <2>2. OtherSweeps(p) /\ ~Stopping(p)'
        BY <1>2, <2>1 DEF Stopping
    <2> QED
        BY <1>11, <2>2 DEF ListLapsed, SweepsAside, holdVars
<1>12. ASSUME NEW s \in Sessions, ClaimOrphan(p, s) PROVE FindsOrphan(p, s)
    <2> DEFINE k == [pc |-> "refundOrphan", s |-> s, attempts |-> 0]
    <2>1. rp' = [rp EXCEPT ![p] = k] /\ k.pc = "refundOrphan"
        BY <1>12 DEF ClaimOrphan
    <2> HIDE DEF k
    <2>2. OtherSweeps(p) /\ rp'[p].pc = "refundOrphan"
        BY <1>2, <2>1
    <2> QED
        BY <1>12, <2>2 DEF ClaimOrphan, SetStatus, FindsOrphan
<1> QED
    BY <1>6, <1>7, <1>8, <1>9, <1>10, <1>11, <1>12 DEF ReaperStep

LEMMA StoryStepHolds ==
    ASSUME Orderly, TypeOK, HoldInv, LeaseInv, StoryInv, [Next]_vars
    PROVE  StoryInv'
<1>1. ASSUME NEW s \in Sessions,
             \/ HandoffStep(s) \/ CancelStep(s) \/ Lapse(s) \/ Age(s) \/ LoseJob(s)
             \/ \E n \in JobIds : Stall(s, n) \/ Forget(s, n)
      PROVE  StoryInv'
    <2>1. StoryStep
        BY <1>1, OutsideStory
    <2> QED
        BY <2>1, OutsideTells, WorkerTells, SweepTells DEF StoryStep
<1>2. ASSUME NEW w \in Workers,
             \/ WorkerStep(w) \/ Renew(w) \/ CrashWorker(w)
             \/ \E s \in Sessions : TakeDirect(w, s) \/ \E n \in JobIds : TakeJob(w, s, n)
      PROVE  StoryInv'
    BY <1>2, WorkerStory, WorkerTells
<1>3. ASSUME NEW p \in Reapers,
             \/ ReaperStep(p) \/ CrashReaper(p)
             \/ \E s \in Sessions : ListLapsed(p, s) \/ ClaimOrphan(p, s)
      PROVE  StoryInv'
    BY <1>3, SweepStory, SweepTells
<1>4. CASE UNCHANGED vars
    BY <1>4, OutsideTells DEF vars, Elapses, holdVars
<1> QED
    BY <1>1, <1>2, <1>3, <1>4 DEF Next

LEMMA StoryAtFirst == Init => StoryInv
<1> SUFFICES ASSUME Init PROVE StoryInv
    OBVIOUS
<1>1. \A w \in Workers : wk[w].pc = "idle"
    BY DEF Init, IdleWorker
<1>2. \A p \in Reapers : rp[p].pc = "idle"
    BY DEF Init, IdleReaper
<1>3. \A s \in Sessions : told[s] = {}
    BY DEF Init
<1>4. OpenIsUntold /\ AllAgreed
    BY <1>3 DEF OpenIsUntold, AllAgreed, Agreed
<1>5. OneSpeaker /\ AllPlaced
    BY <1>1 DEF OneSpeaker, AllPlaced, Placed, Speaking, Finishing, LeasedPcs
<1>6. OneStopper
    BY <1>2 DEF OneStopper, Stopping
<1> QED
    BY <1>4, <1>5, <1>6 DEF StoryInv

\* What the person is told of a session agrees with its row and its hold: one
\* account of each run, a result only of a run that completed and was charged,
\* "I couldn't finish" only of one that failed and was settled, "your credits
\* were returned" only of a hold that was, however many jobs, workers, sweeps
\* and resumptions meet on the session, as long as the seven faults of Orderly
\* stay away.
THEOREM TellsOneStory == ASSUME Orderly PROVE Spec => []OneStory
<1>0. Calm
    BY DEF Orderly
<1>1. Init => TypeOK /\ LeaseInv /\ HoldInv /\ StoryInv
    BY InitTyped, LeaseInit, HoldAtFirst, StoryAtFirst
<1>2. TypeOK /\ LeaseInv /\ HoldInv /\ StoryInv /\ [Next]_vars
          => TypeOK' /\ LeaseInv' /\ HoldInv' /\ StoryInv'
    BY <1>0, HoldAndLeaseStep, StoryStepHolds
<1>3. StoryInv => OneStory
    <2> SUFFICES ASSUME StoryInv, NEW s \in Sessions
                 PROVE  Agreed(s) /\ Cardinality(told[s]) <= 1
        BY DEF Agreed, OneStory
    <2>1. Agreed(s)
        BY DEF StoryInv, AllAgreed
    <2>2. PICK news : told[s] \subseteq {news}
        BY <2>1 DEF Agreed
    <2>3. told[s] = {} \/ told[s] = {news}
        BY <2>2
    <2>4. Cardinality({}) = 0
        BY FS_EmptySet, Zenon
    <2>5. Cardinality({news}) = 1
        BY FS_Singleton, Zenon
    <2>6. Cardinality(told[s]) = 0 \/ Cardinality(told[s]) = 1
        BY <2>3, <2>4, <2>5
    <2> QED
        BY <2>1, <2>6
<1> QED
    BY <1>1, <1>2, <1>3, PTL DEF Spec

-----------------------------------------------------------------------------
(* The hold of a session implements SettleOnce.                            *)

\* The kinds of step: nothing happens to a hold, one is taken, one is settled.
HoldsStay ==
    /\ UNCHANGED <<charges, refunds>>
    /\ \A s \in Sessions : Unheld(s)' <=> Unheld(s)

HoldTaken(s) ==
    /\ handoff[s] = "idle" /\ paid[s] = 0
    /\ handoff' = [handoff EXCEPT ![s] = "reserved"]
    /\ UNCHANGED <<charges, refunds>>

HoldPaid(s) ==
    /\ ~Unheld(s) /\ paid[s] = 0
    /\ GiveBack(s) \/ ChargeHold(s)
    /\ \A r \in Sessions : Unheld(r)' <=> Unheld(r)

\* A handoff takes the hold, and may give it back.
LEMMA HandoffHolds ==
    ASSUME Calm, TypeOK, HoldInv, NEW s \in Sessions, HandoffStep(s)
    PROVE  HoldsStay \/ HoldTaken(s) \/ HoldPaid(s)
<1> USE DEF Unheld, ToHandoff, moneyVars
<1>1. handoff \in [Sessions -> HandoffPcs]
    BY DEF TypeOK, HoldsTyped
<1>2. handoff[s] # "done" => paid[s] = 0
    BY DEF HoldInv, HandingRow
<1>3. CASE Reserve(s)
    BY <1>1, <1>2, <1>3 DEF Reserve, HoldsStay, HoldTaken
<1>4. CASE RefundHandoff(s)
    BY <1>1, <1>2, <1>4 DEF RefundHandoff, HoldPaid
<1>5. CASE \/ CreateRow(s) \/ CreateThrows(s) \/ Enqueue(s) \/ CountersThrow(s)
           \/ CancelUnsettled(s) \/ CrashHandoff(s)
    BY <1>1, <1>5
       DEF CreateRow, CreateThrows, Enqueue, CountersThrow, CancelUnsettled, CrashHandoff,
           HoldsStay
<1> QED
    BY <1>3, <1>4, <1>5 DEF HandoffStep

\* The queue, the clock and the cancel route leave it alone,
LEMMA OutsideHolds ==
    ASSUME NEW s \in Sessions,
           \/ CancelStep(s) \/ Lapse(s) \/ Age(s) \/ LoseJob(s)
           \/ \E n \in JobIds : Stall(s, n) \/ Forget(s, n)
    PROVE  HoldsStay
BY DEF CancelStep, ReadCancel, CancelJob, WriteCancel, Lapse, Age, LoseJob, Stall, Forget,
       moneyVars, HoldsStay, Unheld

\* a worker pays for the session it drives,
LEMMA WorkerHolds ==
    ASSUME TypeOK, HoldInv, NEW w \in Workers,
           \/ WorkerStep(w) \/ Renew(w) \/ CrashWorker(w)
           \/ \E s \in Sessions : TakeDirect(w, s) \/ \E n \in JobIds : TakeJob(w, s, n)
    PROVE  HoldsStay \/ \E s \in Sessions : HoldPaid(s)
<1> DEFINE s == wk[w].s
<1>1. CASE RefundAbandoned(w) \/ Charge(w) \/ Refund(w)
    <2>1. wk[w].pc \in LeasedPcs \cap UnpaidPcs
        BY <1>1 DEF RefundAbandoned, Charge, Refund, LeasedPcs, UnpaidPcs
    <2>2. s \in Sessions
        BY <2>1 DEF TypeOK, ProcessesTyped, LeasedPcs
    <2>3. handoff[s] = "done" /\ paid[s] = 0
        BY <2>1 DEF HoldInv, HandingWorkers, DriverHold, LeasedPcs
    <2>4. (GiveBack(s) \/ ChargeHold(s)) /\ UNCHANGED handoff
        BY <1>1 DEF RefundAbandoned, Charge, Refund
    <2> QED
        BY <2>2, <2>3, <2>4 DEF HoldPaid, Unheld
<1>2. CASE \/ Claim(w) \/ ClaimThrows(w) \/ Abandon(w) \/ Escape(w) \/ AgentGone(w)
           \/ Enter(w) \/ Head(w) \/ Step(w) \/ Complete(w) \/ NoModel(w) \/ Break(w)
    BY <1>2
       DEF Claim, ClaimThrows, Abandon, Escape, AgentGone, Enter, Head, Step, Complete,
           NoModel, Break, moneyVars, HoldsStay, Unheld
<1>3. CASE \/ Save(w) \/ SaveFails(w) \/ Catch(w) \/ SaveFailed(w) \/ Leave(w)
           \/ Release(w) \/ Report(w) \/ ReportThrows(w) \/ Renew(w) \/ CrashWorker(w)
    BY <1>3
       DEF Save, SaveFails, Catch, SaveFailed, Leave, Release, Report, ReportThrows, Renew,
           CrashWorker, moneyVars, HoldsStay, Unheld
<1>4. CASE \E r \in Sessions : TakeDirect(w, r) \/ \E n \in JobIds : TakeJob(w, r, n)
    BY <1>4 DEF TakeDirect, TakeJob, moneyVars, HoldsStay, Unheld
<1> QED
    BY <1>1, <1>2, <1>3, <1>4 DEF WorkerStep

\* and a sweep for the one it failed.
LEMMA SweepHolds ==
    ASSUME TypeOK, HoldInv, NEW p \in Reapers,
           \/ ReaperStep(p) \/ CrashReaper(p)
           \/ \E s \in Sessions : ListLapsed(p, s) \/ ClaimOrphan(p, s)
    PROVE  HoldsStay \/ \E s \in Sessions : HoldPaid(s)
<1> DEFINE s == rp[p].s
<1>1. CASE RefundExhausted(p) \/ RefundOrphan(p)
    <2>1. Sweeping(p)
        BY <1>1 DEF RefundExhausted, RefundOrphan, Sweeping
    <2>2. s \in Sessions
        BY <2>1 DEF TypeOK, ProcessesTyped, Sweeping
    <2>3. handoff[s] = "done" /\ paid[s] = 0
        BY <2>1 DEF HoldInv, HandingReapers, SweepHold, Sweeping
    <2>4. GiveBack(s) /\ UNCHANGED handoff
        BY <1>1 DEF RefundExhausted, RefundOrphan
    <2> QED
        BY <2>2, <2>3, <2>4 DEF HoldPaid, Unheld
<1>2. CASE \/ Resume(p) \/ FailExhausted(p) \/ TellStopped(p) \/ CrashReaper(p)
           \/ \E r \in Sessions : ListLapsed(p, r) \/ ClaimOrphan(p, r)
    BY <1>2
       DEF Resume, FailExhausted, TellStopped, CrashReaper, ListLapsed, ClaimOrphan,
           moneyVars, HoldsStay, Unheld
<1> QED
    BY <1>1, <1>2 DEF ReaperStep

\* So does every step one of the three.
LEMMA EveryStepHolds ==
    ASSUME Calm, TypeOK, HoldInv, [Next]_vars
    PROVE  HoldsStay \/ \E s \in Sessions : HoldTaken(s) \/ HoldPaid(s)
<1>1. CASE UNCHANGED vars
    BY <1>1 DEF vars, moneyVars, HoldsStay, Unheld
<1>2. CASE Next
    BY <1>2, HandoffHolds, OutsideHolds, WorkerHolds, SweepHolds DEF Next
<1> QED
    BY <1>1, <1>2

\* What a hold that was settled no more than once has come to.
LEMMA OutcomeOf ==
    ASSUME NEW s \in Sessions
    PROVE  /\ charges[s] = 0 /\ refunds[s] = 0 =>
                  /\ Unheld(s) => HoldOutcome[s] = "none"
                  /\ ~Unheld(s) => HoldOutcome[s] = "held"
           /\ charges[s] = 1 /\ refunds[s] = 0 => HoldOutcome[s] = "charged"
           /\ charges[s] = 0 /\ refunds[s] = 1 => HoldOutcome[s] = "returned"
BY DEF HoldOutcome

\* A hold nothing happens to stays what it has come to.
LEMMA OutcomeStays ==
    ASSUME NEW s \in Sessions,
           charges'[s] = charges[s], refunds'[s] = refunds[s], Unheld(s)' <=> Unheld(s)
    PROVE  HoldOutcome'[s] = HoldOutcome[s]
BY DEF HoldOutcome

\* A change of one hold is a step of the abstract one.
LEMMA OutcomeMoves ==
    ASSUME NEW s \in Sessions,
           \A r \in Sessions \ {s} : HoldOutcome'[r] = HoldOutcome[r],
           \/ HoldOutcome[s] = "none" /\ HoldOutcome'[s] = "held"
           \/ HoldOutcome[s] = "held" /\ HoldOutcome'[s] \in {"charged", "returned"}
    PROVE  Hold!SettleNext
<1>1. /\ HoldOutcome = [r \in Sessions |-> HoldOutcome[r]]
      /\ HoldOutcome' = [r \in Sessions |-> HoldOutcome'[r]]
    BY DEF HoldOutcome
<1>2. HoldOutcome' = [HoldOutcome EXCEPT ![s] = HoldOutcome'[s]]
    BY <1>1
<1> QED
    BY <1>2 DEF Hold!SettleNext, Hold!Take, Hold!Charge, Hold!GiveBack

LEMMA HoldImplements ==
    ASSUME Calm, TypeOK, TypeOK', HoldInv, [Next]_vars
    PROVE  [Hold!SettleNext]_HoldOutcome
<1> USE DEF moneyVars
<1>0. /\ charges \in [Sessions -> Nat] /\ refunds \in [Sessions -> Nat]
      /\ handoff \in [Sessions -> HandoffPcs]
    BY DEF TypeOK, HoldsTyped
<1>1. CASE HoldsStay
    <2>1. \A s \in Sessions : HoldOutcome'[s] = HoldOutcome[s]
        BY <1>1, OutcomeStays DEF HoldsStay
    <2> QED
        BY <2>1 DEF HoldOutcome
<1>2. ASSUME NEW s \in Sessions, HoldTaken(s) PROVE Hold!SettleNext
    <2>1. \A r \in Sessions \ {s} : HoldOutcome'[r] = HoldOutcome[r]
        BY <1>0, <1>2, OutcomeStays DEF HoldTaken, Unheld
    <2>2. charges[s] = 0 /\ refunds[s] = 0
        BY <1>2, UnpaidZero DEF HoldTaken
    <2>3. HoldOutcome[s] = "none"
        BY <1>2, <2>2, OutcomeOf DEF HoldTaken, Unheld
    <2>4. HoldOutcome'[s] = "held"
        BY <1>0, <1>2, <2>2 DEF HoldTaken, Unheld, HoldOutcome
    <2> QED
        BY <2>1, <2>3, <2>4, OutcomeMoves
<1>3. ASSUME NEW s \in Sessions, HoldPaid(s) PROVE [Hold!SettleNext]_HoldOutcome
    <2>1. charges[s] = 0 /\ refunds[s] = 0
        BY <1>3, UnpaidZero DEF HoldPaid
    <2>2. \A r \in Sessions \ {s} : HoldOutcome'[r] = HoldOutcome[r]
        BY <1>0, <1>3, OutcomeStays DEF HoldPaid, GiveBack, ChargeHold
    <2>3. HoldOutcome[s] = "held"
        BY <1>3, <2>1, OutcomeOf DEF HoldPaid
    <2>4. CASE UNCHANGED <<charges, refunds>>
        <3>1. HoldOutcome'[s] = HoldOutcome[s]
            BY <1>3, <2>4, OutcomeStays DEF HoldPaid
        <3>2. \A r \in Sessions : HoldOutcome'[r] = HoldOutcome[r]
            BY <2>2, <3>1
        <3> QED
            BY <3>2 DEF HoldOutcome
    <2>5. CASE \/ charges'[s] = 1 /\ refunds'[s] = 0
               \/ charges'[s] = 0 /\ refunds'[s] = 1
        <3>1. HoldOutcome'[s] \in {"charged", "returned"}
            BY <2>5 DEF HoldOutcome
        <3> QED
            BY <2>2, <2>3, <3>1, OutcomeMoves
    <2> QED
        BY <1>0, <1>3, <2>1, <2>4, <2>5 DEF HoldPaid, GiveBack, ChargeHold
<1> QED
    BY <1>1, <1>2, <1>3, EveryStepHolds

\* The component implements the abstract promise of a hold: what handoff,
\* workers and sweeps do to it is to take it, and then to charge it or to give
\* it back (session-handoff.ts, runner.ts, run-reaper.ts), under the provisos
\* of SettlesAtMostOnce.
THEOREM ImplementsSettleOnce == ASSUME Calm PROVE Spec => HoldSettlesOnce
<1>1. Init => TypeOK /\ LeaseInv /\ HoldInv
    BY InitTyped, LeaseInit, HoldAtFirst
<1>2. TypeOK /\ LeaseInv /\ HoldInv /\ [Next]_vars => TypeOK' /\ LeaseInv' /\ HoldInv'
    BY HoldAndLeaseStep
<1>3. Init => Hold!SettleInit
    BY DEF Init, Hold!SettleInit, HoldOutcome, Unheld
<1>4. TypeOK /\ TypeOK' /\ HoldInv /\ [Next]_vars => [Hold!SettleNext]_HoldOutcome
    BY HoldImplements
<1> QED
    BY <1>1, <1>2, <1>3, <1>4, PTL DEF Spec, HoldSettlesOnce, Hold!SettleSpec
=============================================================================
