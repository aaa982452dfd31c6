--------------------------- MODULE AgentRunProofs ---------------------------
(***************************************************************************)
(* Who drives a background session, for any number of sessions, workers,   *)
(* sweeps, attempts and stalls: at most one worker while leases are kept   *)
(* in time; and, when they are not, workers that the attempt number tells  *)
(* apart, the latest of which holds the lease.                             *)
(***************************************************************************)
EXTENDS AgentRun, TLAPS

-----------------------------------------------------------------------------
(* Types.                                                                  *)

LEMMA InitTyped == Init => TypeOK
<1> SUFFICES ASSUME Init PROVE TypeOK
  OBVIOUS
<1>1. RowsTyped
  BY DEF Init, RowsTyped
<1>2. HoldsTyped
  BY DEF Init, HoldsTyped, HandoffPcs
<1>3. QueueTyped
  BY DEF Init, QueueTyped, NoJob, JobType
<1>4. ProcessesTyped
  <2>1. IdleWorker \in WorkerType
    BY DEF IdleWorker, WorkerType, WorkerPcs
  <2>2. IdleReaper \in [pc : ReaperPcs, s : Sessions \cup {NoSession}, attempts : Nat]
    BY DEF IdleReaper, ReaperPcs
  <2>3. IdleWorker.pc = "idle" /\ IdleReaper.pc = "idle"
    BY DEF IdleWorker, IdleReaper
  <2>4. QED
    BY <2>1, <2>2, <2>3 DEF Init, ProcessesTyped
<1>5. QED
  BY <1>1, <1>2, <1>3, <1>4 DEF TypeOK

\* The worker a step replaces: it keeps its type if its new record does.
LEMMA WorkerReplaced ==
    ASSUME TypeOK, NEW w \in Workers, NEW new \in WorkerType,
           wk' = [wk EXCEPT ![w] = new], UNCHANGED rp,
           new.pc # "idle" => new.s \in Sessions,
           new.pc \in {"charge", "save"} => new.final \in Terminal
    PROVE  ProcessesTyped'
BY DEF TypeOK, ProcessesTyped

LEMMA WorkerIdles ==
    ASSUME TypeOK, NEW w \in Workers, wk' = [wk EXCEPT ![w] = IdleWorker], UNCHANGED rp
    PROVE  ProcessesTyped'
<1>1. IdleWorker \in WorkerType /\ IdleWorker.pc = "idle"
  BY DEF IdleWorker, WorkerType, WorkerPcs
<1>2. QED
  BY <1>1, WorkerReplaced

\* A worker under way moves on, keeping everything but where it is and how it
\* ends.
LEMMA WorkerGoes ==
    ASSUME TypeOK, NEW w \in Workers, wk[w].pc # "idle", UNCHANGED rp,
           NEW pc \in WorkerPcs,
           pc = "save" => wk[w].pc = "charge",
           pc # "charge",
           Goto(w, pc)
    PROVE  ProcessesTyped'
<1> DEFINE new == [wk[w] EXCEPT !.pc = pc]
<1>1. wk[w] \in WorkerType /\ wk[w].s \in Sessions
  BY DEF TypeOK, ProcessesTyped
<1>2. wk[w].pc = "charge" => wk[w].final \in Terminal
  BY DEF TypeOK, ProcessesTyped
<1>3. new \in WorkerType
  BY <1>1 DEF WorkerType
<1>4. new.pc = pc /\ new.s = wk[w].s /\ new.final = wk[w].final
  BY <1>1 DEF WorkerType
<1>5. wk' = [wk EXCEPT ![w] = new]
  BY DEF Goto
<1> HIDE DEF new
<1>6. QED
  BY <1>1, <1>2, <1>3, <1>4, <1>5, WorkerReplaced

LEMMA WorkerEnds ==
    ASSUME TypeOK, NEW w \in Workers, wk[w].pc # "idle", UNCHANGED rp,
           NEW pc \in WorkerPcs, NEW final \in Terminal, Ends(w, pc, final)
    PROVE  ProcessesTyped'
<1> DEFINE new == [wk[w] EXCEPT !.pc = pc, !.final = final]
<1>1. wk[w] \in WorkerType /\ wk[w].s \in Sessions
  BY DEF TypeOK, ProcessesTyped
<1>3. new \in WorkerType
  BY <1>1 DEF WorkerType
<1>4. new.s = wk[w].s /\ new.final = final
  BY <1>1 DEF WorkerType
<1>5. wk' = [wk EXCEPT ![w] = new]
  BY DEF Ends
<1> HIDE DEF new
<1>6. QED
  BY <1>1, <1>3, <1>4, <1>5, WorkerReplaced

LEMMA WorkerLeaves ==
    ASSUME TypeOK, NEW w \in Workers, wk[w].pc # "idle", UNCHANGED rp,
           NEW outcome \in {"ran", "skipped", "threw"}, Leaves(w, outcome)
    PROVE  ProcessesTyped'
<1> DEFINE new == [wk[w] EXCEPT !.pc = "release", !.outcome = outcome]
<1>1. wk[w] \in WorkerType /\ wk[w].s \in Sessions
  BY DEF TypeOK, ProcessesTyped
<1>3. new \in WorkerType
  BY <1>1 DEF WorkerType, WorkerPcs
<1>4. new.s = wk[w].s /\ new.pc = "release"
  BY <1>1 DEF WorkerType
<1>5. wk' = [wk EXCEPT ![w] = new]
  BY DEF Leaves
<1> HIDE DEF new
<1>6. QED
  BY <1>1, <1>3, <1>4, <1>5, WorkerReplaced


LEMMA WorkerClaims ==
    ASSUME TypeOK, AgentRunAssumption, NEW w \in Workers, wk[w].pc # "idle", UNCHANGED rp,
           NEW pc \in {"enter", "abandon"}, NEW n \in Nat,
           wk' = [wk EXCEPT ![w].pc = pc, ![w].attempt = n]
    PROVE  ProcessesTyped'
<1> DEFINE new == [wk[w] EXCEPT !.pc = pc, !.attempt = n]
<1>1. wk[w] \in WorkerType /\ wk[w].s \in Sessions
  BY DEF TypeOK, ProcessesTyped
<1>3. new \in WorkerType
  BY <1>1 DEF WorkerType, WorkerPcs, LeasedPcs
<1>4. new.s = wk[w].s /\ new.pc = pc
  BY <1>1 DEF WorkerType
<1>5. wk' = [wk EXCEPT ![w] = new]
  OBVIOUS
<1> HIDE DEF new
<1>6. QED
  BY <1>1, <1>3, <1>4, <1>5, WorkerReplaced

LEMMA WorkerLoses ==
    ASSUME TypeOK, NEW w \in Workers, wk[w].pc # "idle", UNCHANGED rp,
           wk' = [wk EXCEPT ![w].lost = TRUE]
    PROVE  ProcessesTyped'
<1> DEFINE new == [wk[w] EXCEPT !.lost = TRUE]
<1>1. wk[w] \in WorkerType /\ wk[w].s \in Sessions
  BY DEF TypeOK, ProcessesTyped
<1>2. wk[w].pc \in {"charge", "save"} => wk[w].final \in Terminal
  BY DEF TypeOK, ProcessesTyped
<1>3. new \in WorkerType
  BY <1>1 DEF WorkerType
<1>4. new.s = wk[w].s /\ new.pc = wk[w].pc /\ new.final = wk[w].final
  BY <1>1 DEF WorkerType
<1>5. wk' = [wk EXCEPT ![w] = new]
  OBVIOUS
<1> HIDE DEF new
<1>6. QED
  BY <1>1, <1>2, <1>3, <1>4, <1>5, WorkerReplaced

LEMMA WorkerBegins ==
    ASSUME TypeOK, NEW w \in Workers, UNCHANGED rp, NEW s \in Sessions,
           NEW n \in JobIds \cup {Direct}, NEW last \in BOOLEAN, Begin(w, s, n, last)
    PROVE  ProcessesTyped'
<1> DEFINE new == [pc |-> "claim", s |-> s, job |-> n, last |-> last,
                   attempt |-> 0, lost |-> FALSE, final |-> "none",
                   outcome |-> "none"]
<1>1. "claim" \in WorkerPcs
  BY DEF WorkerPcs
<1>2. new \in WorkerType
  BY <1>1 DEF WorkerType
<1>3. new.pc = "claim" /\ new.s = s
  OBVIOUS
<1>4. wk' = [wk EXCEPT ![w] = new]
  BY DEF Begin
<1> HIDE DEF new
<1>5. QED
  BY <1>2, <1>3, <1>4, WorkerReplaced

LEMMA ReaperReplaced ==
    ASSUME TypeOK, UNCHANGED wk, NEW p \in Reapers,
           NEW pc \in ReaperPcs, NEW s \in Sessions \cup {NoSession}, NEW n \in Nat,
           pc # "idle" => s \in Sessions, pc = "reap" => n > 0,
           rp' = [rp EXCEPT ![p] = [pc |-> pc, s |-> s, attempts |-> n]]
    PROVE  ProcessesTyped'
BY DEF TypeOK, ProcessesTyped

LEMMA ReaperIdles ==
    ASSUME TypeOK, UNCHANGED wk, NEW p \in Reapers, rp' = [rp EXCEPT ![p] = IdleReaper]
    PROVE  ProcessesTyped'
BY DEF TypeOK, ProcessesTyped, IdleReaper, ReaperPcs

LEMMA ReaperGoes ==
    ASSUME TypeOK, UNCHANGED wk, NEW p \in Reapers, rp[p].pc # "idle",
           NEW pc \in ReaperPcs \ {"reap"}, ToReaper(p, pc)
    PROVE  ProcessesTyped'
<1>1. rp[p] \in [pc : ReaperPcs, s : Sessions \cup {NoSession}, attempts : Nat]
  BY DEF TypeOK, ProcessesTyped
<1>2. rp[p].s \in Sessions /\ rp[p].attempts \in Nat
  BY <1>1 DEF TypeOK, ProcessesTyped
<1>3. [rp[p] EXCEPT !.pc = pc] = [pc |-> pc, s |-> rp[p].s, attempts |-> rp[p].attempts]
  BY <1>1
<1>4. rp' = [rp EXCEPT ![p] = [pc |-> pc, s |-> rp[p].s, attempts |-> rp[p].attempts]]
  BY <1>3 DEF ToReaper
<1>5. QED
  BY <1>2, <1>4, ReaperReplaced

LEMMA RowsTypedStep ==
    ASSUME AgentRunAssumption, TypeOK, Next
    PROVE  RowsTyped'
<1>1. RowsTyped
  BY DEF TypeOK
<1>2. ASSUME UNCHANGED rowVars PROVE RowsTyped'
  BY <1>1, <1>2 DEF RowsTyped, rowVars
<1>3. ASSUME NEW s \in Sessions, NEW to \in {"queued"} \cup Terminal, SetStatus(s, to)
      PROVE  RowsTyped'
  BY <1>1, <1>3 DEF RowsTyped, SetStatus, leaseVars, Open, Terminal
<1>4. ASSUME NEW s \in Sessions, NEW w \in Workers, DropLease(s, w)
      PROVE  RowsTyped'
  BY <1>1, <1>2, <1>4 DEF RowsTyped, DropLease, NoLease
<1>5. CASE \E s \in Sessions : HandoffStep(s)
  <2> PICK s \in Sessions : HandoffStep(s)
    BY <1>5
  <2>1. CASE CreateRow(s)
    BY <2>1, <1>3 DEF CreateRow, Open
  <2>2. CASE CancelUnsettled(s)
    BY <2>2, <1>2, <1>3 DEF CancelUnsettled, Terminal
  <2>3. CASE Reserve(s) \/ CreateThrows(s) \/ Enqueue(s) \/ CountersThrow(s)
    BY <2>3, <1>2 DEF Reserve, CreateThrows, Enqueue, CountersThrow
  <2>4. CASE RefundHandoff(s) \/ CrashHandoff(s)
    BY <2>4, <1>2 DEF RefundHandoff, CrashHandoff
  <2>5. QED
    BY <2>1, <2>2, <2>3, <2>4 DEF HandoffStep
<1>6. CASE \E s \in Sessions : CancelStep(s)
  BY <1>6, <1>2, <1>3 DEF CancelStep, ReadCancel, CancelJob, WriteCancel, Terminal
<1>7. CASE \E s \in Sessions : Lapse(s) \/ Age(s)
  BY <1>7, <1>1 DEF Lapse, Age, leaseVars, RowsTyped
<1>8. CASE \E s \in Sessions : LoseJob(s) \/ \E n \in JobIds : Stall(s, n) \/ Forget(s, n)
  BY <1>8, <1>2 DEF LoseJob, Stall, Forget
<1>9. CASE \E w \in Workers : WorkerStep(w)
  <2> PICK w \in Workers : WorkerStep(w)
    BY <1>9
  <2>0. wk[w].pc # "idle" => wk[w].s \in Sessions
    BY DEF TypeOK, ProcessesTyped
  <2>1. CASE Claim(w)
    <3>1. wk[w].s \in Sessions
      BY <2>0, <2>1 DEF Claim
    <3>2. CASE TakeRow(wk[w].s, w)
      <4> DEFINE n == attempts[wk[w].s] + 1
      <4>1. n \in Nat /\ n > 0
        BY <3>1, <1>1 DEF RowsTyped
      <4>2. attempts' = [attempts EXCEPT ![wk[w].s] = n]
        BY <3>2 DEF TakeRow
      <4> HIDE DEF n
      <4>3. QED
        BY <3>1, <3>2, <4>1, <4>2, <1>1 DEF TakeRow, RowsTyped, Open
    <3>3. QED
      BY <2>1, <3>2, <1>2 DEF Claim
  <2>2. CASE ClaimThrows(w) \/ RefundAbandoned(w) \/ Escape(w) \/ Enter(w) \/ Head(w)
             \/ Step(w) \/ Complete(w)
    BY <2>2, <1>2 DEF ClaimThrows, RefundAbandoned, Escape, Enter, Head, Step, Complete
  <2>3. CASE Break(w) \/ Charge(w) \/ SaveFails(w) \/ Catch(w) \/ Refund(w) \/ Leave(w)
             \/ Report(w) \/ ReportThrows(w)
    BY <2>3, <1>2 DEF Break, Charge, SaveFails, Catch, Refund, Leave, Report, ReportThrows
  <2>4. CASE Abandon(w) \/ AgentGone(w) \/ NoModel(w) \/ SaveFailed(w)
    BY <2>0, <2>4, <1>2, <1>3 DEF Abandon, AgentGone, NoModel, SaveFailed, Terminal
  <2>5. CASE Save(w)
    <3>1. wk[w].s \in Sessions /\ wk[w].final \in Terminal
      BY <2>0, <2>5 DEF Save, TypeOK, ProcessesTyped
    <3>2. QED
      BY <3>1, <2>5, <1>3 DEF Save
  <2>6. CASE Release(w)
    BY <2>0, <2>6, <1>4 DEF Release
  <2>7. QED
    BY <2>1, <2>2, <2>3, <2>4, <2>5, <2>6 DEF WorkerStep
<1>10. CASE \E w \in Workers : Renew(w)
  BY <1>10, <1>1, <1>2 DEF Renew, RowsTyped, LeasedPcs
<1>11. CASE \E w \in Workers : CrashWorker(w) \/ \E s \in Sessions :
                TakeDirect(w, s) \/ \E n \in JobIds : TakeJob(w, s, n)
  BY <1>11, <1>2 DEF CrashWorker, TakeDirect, TakeJob
<1>12. CASE \E p \in Reapers : ReaperStep(p)
  <2> PICK p \in Reapers : ReaperStep(p)
    BY <1>12
  <2>1. CASE FailExhausted(p)
    BY <2>1, <1>1, <1>2 DEF FailExhausted, NoLease, RowsTyped, Terminal
  <2>2. CASE Resume(p) \/ RefundExhausted(p) \/ TellStopped(p) \/ RefundOrphan(p)
    BY <2>2, <1>2 DEF Resume, RefundExhausted, TellStopped, RefundOrphan
  <2>3. QED
    BY <2>1, <2>2 DEF ReaperStep
<1>13. CASE \E p \in Reapers : CrashReaper(p) \/ \E s \in Sessions : ListLapsed(p, s)
  BY <1>13, <1>2 DEF CrashReaper, ListLapsed
<1>14. CASE \E p \in Reapers, s \in Sessions : ClaimOrphan(p, s)
  BY <1>14, <1>3 DEF ClaimOrphan, Terminal
<1>15. QED
  BY <1>5, <1>6, <1>7, <1>8, <1>9, <1>10, <1>11, <1>12, <1>13, <1>14 DEF Next

LEMMA HoldsTypedStep ==
    ASSUME AgentRunAssumption, TypeOK, Next
    PROVE  HoldsTyped'
<1>1. HoldsTyped
  BY DEF TypeOK
<1>2. ASSUME UNCHANGED <<handoff, cancel, charges, refunds, told>> PROVE HoldsTyped'
  BY <1>1, <1>2 DEF HoldsTyped
<1>3. ASSUME NEW s \in Sessions, GiveBack(s), UNCHANGED <<cancel, told>>,
             UNCHANGED handoff \/ ToHandoff(s, "done")
      PROVE  HoldsTyped'
  BY <1>1, <1>3 DEF HoldsTyped, GiveBack, ToHandoff, moneyVars, HandoffPcs
<1>4. ASSUME NEW s \in Sessions, NEW pc \in HandoffPcs, ToHandoff(s, pc),
             UNCHANGED <<cancel, charges, refunds, told>>
      PROVE  HoldsTyped'
  BY <1>1, <1>4 DEF HoldsTyped, ToHandoff
<1>5. ASSUME NEW s \in Sessions, NEW news \in SUBSET {"result", "sorry", "stopped", "error"},
             Tell(s, news), UNCHANGED <<handoff, cancel, charges, refunds>>
      PROVE  HoldsTyped'
  <2> DEFINE all == told[s] \cup news
  <2>1. all \in SUBSET {"result", "sorry", "stopped", "error"}
    BY <1>1 DEF HoldsTyped
  <2>2. told' = [told EXCEPT ![s] = all]
    BY <1>5 DEF Tell
  <2> HIDE DEF all
  <2>3. QED
    BY <1>1, <1>5, <2>1, <2>2 DEF HoldsTyped
<1>6. CASE \E s \in Sessions : HandoffStep(s)
  <2> PICK s \in Sessions : HandoffStep(s)
    BY <1>6
  <2>1. CASE Reserve(s) \/ CreateRow(s) \/ CreateThrows(s) \/ Enqueue(s)
    BY <2>1, <1>4 DEF Reserve, CreateRow, CreateThrows, Enqueue, moneyVars, HandoffPcs
  <2>2. CASE CountersThrow(s) \/ CancelUnsettled(s) \/ CrashHandoff(s)
    BY <2>2, <1>4 DEF CountersThrow, CancelUnsettled, CrashHandoff, moneyVars, HandoffPcs
  <2>3. CASE RefundHandoff(s)
    BY <2>3, <1>3 DEF RefundHandoff
  <2>4. QED
    BY <2>1, <2>2, <2>3 DEF HandoffStep
<1>7. CASE \E s \in Sessions : CancelStep(s)
  BY <1>7, <1>1 DEF CancelStep, ReadCancel, CancelJob, WriteCancel, ToCancel, moneyVars,
                    HoldsTyped
<1>8. CASE \E s \in Sessions : \/ Lapse(s) \/ Age(s) \/ LoseJob(s)
                               \/ \E n \in JobIds : Stall(s, n) \/ Forget(s, n)
  BY <1>8, <1>2 DEF Lapse, Age, LoseJob, Stall, Forget, moneyVars
<1>9. CASE \E w \in Workers : WorkerStep(w)
  <2> PICK w \in Workers : WorkerStep(w)
    BY <1>9
  <2>0. wk[w].pc # "idle" => wk[w].s \in Sessions
    BY DEF TypeOK, ProcessesTyped
  <2>1. CASE Throw(w) /\ UNCHANGED <<handoff, cancel, moneyVars>> /\ wk[w].pc # "idle"
    BY <2>0, <2>1, <1>5 DEF Throw, moneyVars
  <2>2. CASE Claim(w) \/ Abandon(w) \/ Escape(w) \/ AgentGone(w)
    BY <2>2, <1>2 DEF Claim, Abandon, Escape, AgentGone, moneyVars
  <2>3. CASE Enter(w) \/ Head(w) \/ Step(w) \/ Complete(w) \/ NoModel(w) \/ Break(w)
    BY <2>3, <1>2 DEF Enter, Head, Step, Complete, NoModel, Break, moneyVars
  <2>4. CASE Save(w) \/ SaveFails(w) \/ Catch(w) \/ SaveFailed(w) \/ Leave(w)
    BY <2>4, <1>2 DEF Save, SaveFails, Catch, SaveFailed, Leave, moneyVars
  <2>5. CASE RefundAbandoned(w) \/ Refund(w)
    BY <2>0, <2>5, <1>3 DEF RefundAbandoned, Refund
  <2>6. CASE Charge(w)
    <3>1. wk[w].s \in Sessions
      BY <2>0, <2>6 DEF Charge
    <3>2. QED
      BY <2>6, <3>1, <1>1 DEF Charge, ChargeHold, HoldsTyped, moneyVars
  <2>7. CASE Release(w)
    BY <2>1, <2>7, <1>2 DEF Release, moneyVars
  <2>8. CASE Report(w)
    BY <2>0, <2>8, <1>5 DEF Report, moneyVars
  <2>9. CASE ClaimThrows(w) \/ ReportThrows(w)
    BY <2>1, <2>9 DEF ClaimThrows, ReportThrows
  <2>10. QED
    BY <2>2, <2>3, <2>4, <2>5, <2>6, <2>7, <2>8, <2>9 DEF WorkerStep
<1>10. CASE \E w \in Workers : Renew(w) \/ CrashWorker(w) \/ \E s \in Sessions :
                TakeDirect(w, s) \/ \E n \in JobIds : TakeJob(w, s, n)
  BY <1>10, <1>2 DEF Renew, CrashWorker, TakeDirect, TakeJob, moneyVars
<1>11. CASE \E p \in Reapers : ReaperStep(p)
  <2> PICK p \in Reapers : ReaperStep(p)
    BY <1>11
  <2>0. rp[p].pc # "idle" => rp[p].s \in Sessions
    BY DEF TypeOK, ProcessesTyped
  <2>1. CASE RefundExhausted(p) \/ RefundOrphan(p)
    BY <2>0, <2>1, <1>3 DEF RefundExhausted, RefundOrphan
  <2>2. CASE Resume(p) \/ FailExhausted(p)
    BY <2>2, <1>2 DEF Resume, FailExhausted, moneyVars
  <2>3. CASE TellStopped(p)
    BY <2>0, <2>3, <1>5 DEF TellStopped, moneyVars
  <2>4. QED
    BY <2>1, <2>2, <2>3 DEF ReaperStep
<1>12. CASE \E p \in Reapers : CrashReaper(p) \/ \E s \in Sessions :
                ListLapsed(p, s) \/ ClaimOrphan(p, s)
  BY <1>12, <1>2 DEF CrashReaper, ListLapsed, ClaimOrphan, moneyVars
<1>13. QED
  BY <1>6, <1>7, <1>8, <1>9, <1>10, <1>11, <1>12 DEF Next

\* A job that takes a new record of the type.
LEMMA JobReplaced ==
    ASSUME QueueTyped, NEW s \in Sessions, NEW n \in JobIds, NEW j \in JobType,
           job' = [job EXCEPT ![s][n] = j]
    PROVE  job' \in [Sessions -> [JobIds -> JobType]]
BY DEF QueueTyped

LEMMA JobsTyped ==
    /\ NoJob \in JobType
    /\ NewJob \in JobType
    /\ KeptJob \in JobType
BY DEF NoJob, NewJob, KeptJob, JobType

LEMMA HandTyped ==
    ASSUME AgentRunAssumption, TypeOK, NEW s \in Sessions, NEW n \in JobIds, Hand(s, n)
    PROVE  QueueTyped'
<1>1. QueueTyped
  BY DEF TypeOK
<1>2. ASSUME Add(s, n) PROVE job' \in [Sessions -> [JobIds -> JobType]]
  <2>1. job' = job \/ job' = [job EXCEPT ![s][n] = NewJob]
    BY <1>2 DEF Add
  <2>2. QED
    BY <1>1, <2>1, JobsTyped, JobReplaced DEF QueueTyped
<1>3. QED
  BY <1>1, <1>2 DEF Hand, QueueTyped

LEMMA FinishTyped ==
    ASSUME AgentRunAssumption, TypeOK, NEW w \in Workers, wk[w].s \in Sessions,
           NEW next, wk[w].job \in JobIds => next \in JobType, Finish(w, next)
    PROVE  job' \in [Sessions -> [JobIds -> JobType]]
<1>1. QueueTyped
  BY DEF TypeOK
<1>2. job' = job \/ (/\ wk[w].job \in JobIds
                     /\ job' = [job EXCEPT ![wk[w].s][wk[w].job] = next])
  BY DEF Finish
<1>3. QED
  BY <1>1, <1>2, JobReplaced DEF QueueTyped

LEMMA AttemptFailedTyped ==
    ASSUME AgentRunAssumption, TypeOK, NEW w \in Workers, wk[w].s \in Sessions,
           wk[w].job \in JobIds
    PROVE  AttemptFailed(w) \in JobType
<1>1. MyJob(w) \in JobType
  BY DEF MyJob, TypeOK, QueueTyped
<1>2. MyJob(w).made + 1 \in Nat /\ MyJob(w).stalls \in Nat
  BY <1>1 DEF JobType
<1>3. QED
  BY <1>2, JobsTyped DEF AttemptFailed, JobType

LEMMA QueueTypedStep ==
    ASSUME AgentRunAssumption, TypeOK, Next
    PROVE  QueueTyped'
<1>1. QueueTyped
  BY DEF TypeOK
<1>2. ASSUME UNCHANGED queueVars PROVE QueueTyped'
  BY <1>1, <1>2 DEF QueueTyped, queueVars
<1>3. ASSUME NEW s \in Sessions, NEW n \in JobIds, NEW j \in JobType,
             job' = [job EXCEPT ![s][n] = j], UNCHANGED direct
      PROVE  QueueTyped'
  BY <1>1, <1>3, JobReplaced DEF QueueTyped
<1>4. 0 \in JobIds
  BY DEF JobIds, AgentRunAssumption
<1>5. CASE \E s \in Sessions : HandoffStep(s)
  <2> PICK s \in Sessions : HandoffStep(s)
    BY <1>5
  <2>1. CASE Enqueue(s)
    BY <2>1, <1>4, HandTyped DEF Enqueue
  <2>2. CASE Reserve(s) \/ CreateRow(s) \/ CreateThrows(s) \/ CountersThrow(s)
    BY <2>2, <1>2 DEF Reserve, CreateRow, CreateThrows, CountersThrow
  <2>3. CASE CancelUnsettled(s) \/ RefundHandoff(s) \/ CrashHandoff(s)
    BY <2>3, <1>2 DEF CancelUnsettled, RefundHandoff, CrashHandoff
  <2>4. QED
    BY <2>1, <2>2, <2>3 DEF HandoffStep
<1>6. CASE \E s \in Sessions : CancelStep(s)
  <2>1. CASE \E s \in Sessions : CancelJob(s)
    BY <2>1, <1>1, <1>2, <1>3, <1>4, JobsTyped DEF CancelJob, queueVars
  <2>2. CASE \E s \in Sessions : ReadCancel(s) \/ WriteCancel(s)
    BY <2>2, <1>2 DEF ReadCancel, WriteCancel
  <2>3. QED
    BY <1>6, <2>1, <2>2 DEF CancelStep
<1>7. CASE \E s \in Sessions : Lapse(s) \/ Age(s)
  BY <1>7, <1>2 DEF Lapse, Age
<1>8. CASE \E s \in Sessions : LoseJob(s)
  BY <1>8, <1>1, <1>3, JobsTyped DEF LoseJob, QueueTyped
<1>9. CASE \E s \in Sessions, n \in JobIds : Stall(s, n)
  <2> PICK s \in Sessions, n \in JobIds : Stall(s, n)
    BY <1>9
  <2> DEFINE j == IF job[s][n].stalls < MaxStalls
                  THEN [state |-> "waiting", made |-> job[s][n].made,
                        stalls |-> job[s][n].stalls + 1, by |-> NoWorker]
                  ELSE KeptJob
  <2>1. job[s][n] \in JobType
    BY <1>1 DEF QueueTyped
  <2>2. job[s][n].made \in Nat /\ job[s][n].stalls + 1 \in Nat
    BY <2>1 DEF JobType
  <2>3. j \in JobType
    BY <2>2, JobsTyped DEF JobType
  <2>4. job' = [job EXCEPT ![s][n] = j] /\ UNCHANGED direct
    BY <1>1 DEF Stall, QueueTyped
  <2> HIDE DEF j
  <2>5. QED
    BY <2>3, <2>4, <1>3
<1>10. CASE \E s \in Sessions, n \in JobIds : Forget(s, n)
  BY <1>10, <1>3, JobsTyped DEF Forget
<1>11. CASE \E w \in Workers : WorkerStep(w)
  <2> PICK w \in Workers : WorkerStep(w)
    BY <1>11
  <2>0. wk[w].pc # "idle" => wk[w].s \in Sessions
    BY DEF TypeOK, ProcessesTyped
  <2>1. ASSUME Return(w), wk[w].pc # "idle" PROVE QueueTyped'
    <3>1. job' \in [Sessions -> [JobIds -> JobType]]
      BY <2>0, <2>1, JobsTyped, FinishTyped DEF Return
    <3>2. QED
      BY <3>1, <2>1, <1>1 DEF Return, QueueTyped
  <2>2. ASSUME Throw(w), wk[w].pc # "idle" PROVE QueueTyped'
    <3>1. wk[w].job \in JobIds => AttemptFailed(w) \in JobType
      BY <2>0, <2>2, AttemptFailedTyped
    <3>2. job' \in [Sessions -> [JobIds -> JobType]]
      BY <2>0, <2>2, <3>1, FinishTyped DEF Throw
    <3>3. QED
      BY <3>2, <2>2, <1>1 DEF Throw, QueueTyped
  <2>3. CASE Claim(w) \/ ClaimThrows(w)
    BY <2>1, <2>2, <2>3, <1>2 DEF Claim, ClaimThrows
  <2>4. CASE Release(w) \/ Report(w) \/ ReportThrows(w)
    BY <2>1, <2>2, <2>4, <1>2 DEF Release, Report, ReportThrows
  <2>5. CASE Abandon(w) \/ RefundAbandoned(w) \/ Escape(w) \/ AgentGone(w) \/ Enter(w)
             \/ Head(w) \/ Step(w) \/ Complete(w)
    BY <2>5, <1>2 DEF Abandon, RefundAbandoned, Escape, AgentGone, Enter, Head, Step, Complete
  <2>6. CASE NoModel(w) \/ Break(w) \/ Charge(w) \/ Save(w) \/ SaveFails(w) \/ Catch(w)
             \/ Refund(w) \/ SaveFailed(w) \/ Leave(w)
    BY <2>6, <1>2 DEF NoModel, Break, Charge, Save, SaveFails, Catch, Refund, SaveFailed, Leave
  <2>7. QED
    BY <2>3, <2>4, <2>5, <2>6 DEF WorkerStep
<1>12. CASE \E w \in Workers : Renew(w) \/ CrashWorker(w)
  BY <1>12, <1>2 DEF Renew, CrashWorker
<1>13. CASE \E w \in Workers, s \in Sessions : TakeDirect(w, s)
  BY <1>13, <1>1 DEF TakeDirect, QueueTyped
<1>14. CASE \E w \in Workers, s \in Sessions, n \in JobIds : TakeJob(w, s, n)
  <2> PICK w \in Workers, s \in Sessions, n \in JobIds : TakeJob(w, s, n)
    BY <1>14
  <2> DEFINE j == [job[s][n] EXCEPT !.state = "active", !.by = w]
  <2>1. job[s][n] \in JobType
    BY <1>1 DEF QueueTyped
  <2>2. j \in JobType
    BY <2>1 DEF JobType
  <2>3. job' = [job EXCEPT ![s][n] = j] /\ UNCHANGED direct
    BY <1>1 DEF TakeJob, QueueTyped
  <2> HIDE DEF j
  <2>4. QED
    BY <2>2, <2>3, <1>3
<1>15. CASE \E p \in Reapers : ReaperStep(p)
  <2> PICK p \in Reapers : ReaperStep(p)
    BY <1>15
  <2>1. CASE Resume(p)
    <3>1. rp[p].s \in Sessions /\ rp[p].attempts \in Nat /\ rp[p].attempts < MaxAttempts
      BY <2>1 DEF Resume, TypeOK, ProcessesTyped
    <3>2. rp[p].attempts \in JobIds
      BY <3>1 DEF JobIds, AgentRunAssumption
    <3>3. QED
      BY <2>1, <3>1, <3>2, HandTyped DEF Resume
  <2>2. CASE FailExhausted(p) \/ RefundExhausted(p) \/ TellStopped(p) \/ RefundOrphan(p)
    BY <2>2, <1>2 DEF FailExhausted, RefundExhausted, TellStopped, RefundOrphan
  <2>3. QED
    BY <2>1, <2>2 DEF ReaperStep
<1>16. CASE \E p \in Reapers : CrashReaper(p) \/ \E s \in Sessions :
                ListLapsed(p, s) \/ ClaimOrphan(p, s)
  BY <1>16, <1>2 DEF CrashReaper, ListLapsed, ClaimOrphan
<1>17. QED
  BY <1>5, <1>6, <1>7, <1>8, <1>9, <1>10, <1>11, <1>12, <1>13, <1>14, <1>15, <1>16 DEF Next

LEMMA ProcessesTypedStep ==
    ASSUME AgentRunAssumption, TypeOK, Next
    PROVE  ProcessesTyped'
<1>1. ProcessesTyped
  BY DEF TypeOK
<1>2. ASSUME UNCHANGED <<wk, rp>> PROVE ProcessesTyped'
  BY <1>1, <1>2 DEF ProcessesTyped
<1>3. CASE \E s \in Sessions : HandoffStep(s) \/ CancelStep(s)
  <2> PICK s \in Sessions : HandoffStep(s) \/ CancelStep(s)
    BY <1>3
  <2>1. CASE Reserve(s) \/ CreateRow(s) \/ CreateThrows(s) \/ Enqueue(s) \/ CountersThrow(s)
    BY <2>1, <1>2 DEF Reserve, CreateRow, CreateThrows, Enqueue, CountersThrow
  <2>2. CASE CancelUnsettled(s) \/ RefundHandoff(s) \/ CrashHandoff(s) \/ CancelStep(s)
    BY <2>2, <1>2 DEF CancelUnsettled, RefundHandoff, CrashHandoff, CancelStep,
                      ReadCancel, CancelJob, WriteCancel
  <2>3. QED
    BY <2>1, <2>2 DEF HandoffStep
<1>4. CASE \E s \in Sessions : \/ Lapse(s) \/ Age(s) \/ LoseJob(s)
                               \/ \E n \in JobIds : Stall(s, n) \/ Forget(s, n)
  BY <1>4, <1>2 DEF Lapse, Age, LoseJob, Stall, Forget
<1>5. CASE \E w \in Workers : WorkerStep(w)
  <2> PICK w \in Workers : WorkerStep(w)
    BY <1>5
  <2>1. CASE Claim(w)
    <3>1. attempts[wk[w].s] + 1 \in Nat
      BY <2>1 DEF Claim, TypeOK, RowsTyped, ProcessesTyped
    <3>2. CASE ~Claimable(wk[w].s) /\ Return(w)
      BY <2>1, <3>2, WorkerIdles DEF Claim, Return
    <3>3. CASE attempts[wk[w].s] < MaxAttempts /\ Claimable(wk[w].s)
      BY <2>1, <3>1, <3>3, WorkerClaims DEF Claim
    <3>4. CASE ~(attempts[wk[w].s] < MaxAttempts) /\ Claimable(wk[w].s)
      BY <2>1, <3>1, <3>4, WorkerClaims DEF Claim
    <3>5. QED
      BY <2>1, <3>2, <3>3, <3>4 DEF Claim
  <2>2. CASE ClaimThrows(w) \/ Report(w) \/ ReportThrows(w)
    BY <2>2, WorkerIdles DEF ClaimThrows, Report, ReportThrows, Return, Throw
  <2>3. CASE Abandon(w) \/ AgentGone(w) \/ SaveFailed(w)
    BY <2>3, WorkerEnds DEF Abandon, AgentGone, SaveFailed, WorkerPcs, LeasedPcs, Terminal
  <2>4. CASE RefundAbandoned(w) \/ Escape(w)
    BY <2>4, WorkerLeaves DEF RefundAbandoned, Escape
  <2>5. CASE Enter(w)
    BY <2>5, WorkerEnds, WorkerGoes DEF Enter, WorkerPcs, LeasedPcs, Terminal
  <2>6. CASE Head(w)
    BY <2>6, WorkerEnds, WorkerGoes, WorkerLeaves DEF Head, WorkerPcs, LeasedPcs, Terminal
  <2>7. CASE Complete(w)
    BY <2>7, WorkerEnds DEF Complete, WorkerPcs, LeasedPcs, Terminal
  <2>8. CASE Step(w) \/ NoModel(w) \/ Break(w) \/ Charge(w) \/ Save(w)
    BY <2>8, WorkerGoes DEF Step, NoModel, Break, Charge, Save, WorkerPcs, LeasedPcs
  <2>9. CASE SaveFails(w) \/ Refund(w)
    BY <2>9, WorkerGoes DEF SaveFails, Refund, WorkerPcs, LeasedPcs
  <2>10. CASE Catch(w)
    BY <2>10, WorkerGoes, WorkerLeaves DEF Catch, WorkerPcs, LeasedPcs
  <2>11. CASE Leave(w)
    BY <2>11, WorkerLeaves DEF Leave
  <2>12. CASE Release(w)
    BY <2>12, WorkerGoes, WorkerIdles DEF Release, Return, Throw, WorkerPcs
  <2>13. QED
    BY <2>1, <2>2, <2>3, <2>4, <2>5, <2>6, <2>7, <2>8, <2>9, <2>10, <2>11, <2>12
       DEF WorkerStep
<1>6. CASE \E w \in Workers : Renew(w)
  BY <1>6, <1>2, WorkerLoses DEF Renew, LeasedPcs
<1>7. CASE \E w \in Workers : CrashWorker(w)
  BY <1>7, WorkerIdles DEF CrashWorker
<1>8. CASE \E w \in Workers, s \in Sessions : TakeDirect(w, s)
  BY <1>8, WorkerBegins DEF TakeDirect
<1>9. CASE \E w \in Workers, s \in Sessions, n \in JobIds : TakeJob(w, s, n)
  <2> PICK w \in Workers, s \in Sessions, n \in JobIds : TakeJob(w, s, n)
    BY <1>9
  <2> DEFINE last == job[s][n].made >= QueueAttempts - 1
  <2>1. last \in BOOLEAN
    OBVIOUS
  <2>2. Begin(w, s, n, last) /\ UNCHANGED rp
    BY DEF TakeJob
  <2> HIDE DEF last
  <2>3. QED
    BY <2>1, <2>2, WorkerBegins
<1>10. CASE \E p \in Reapers : ReaperStep(p)
  <2> PICK p \in Reapers : ReaperStep(p)
    BY <1>10
  <2>1. CASE Resume(p) \/ TellStopped(p) \/ RefundOrphan(p)
    BY <2>1, ReaperIdles DEF Resume, TellStopped, RefundOrphan
  <2>2. CASE FailExhausted(p) \/ RefundExhausted(p)
    BY <2>2, ReaperIdles, ReaperGoes DEF FailExhausted, RefundExhausted, ReaperPcs
  <2>3. QED
    BY <2>1, <2>2 DEF ReaperStep
<1>11. CASE \E p \in Reapers : CrashReaper(p)
  BY <1>11, ReaperIdles DEF CrashReaper
<1>12. CASE \E p \in Reapers, s \in Sessions : ListLapsed(p, s)
  <2> PICK p \in Reapers, s \in Sessions : ListLapsed(p, s)
    BY <1>12
  <2>1. attempts[s] \in Nat /\ attempts[s] > 0
    BY DEF ListLapsed, Lapsed, TypeOK, RowsTyped
  <2>2. QED
    BY <2>1, ReaperReplaced DEF ListLapsed, ReaperPcs
<1>13. CASE \E p \in Reapers, s \in Sessions : ClaimOrphan(p, s)
  BY <1>13, ReaperReplaced DEF ClaimOrphan, ReaperPcs
<1>14. QED
  BY <1>3, <1>4, <1>5, <1>6, <1>7, <1>8, <1>9, <1>10, <1>11, <1>12, <1>13 DEF Next

LEMMA TypeStep == AgentRunAssumption /\ TypeOK /\ [Next]_vars => TypeOK'
<1> SUFFICES ASSUME AgentRunAssumption, TypeOK, [Next]_vars PROVE TypeOK'
  OBVIOUS
<1>1. CASE Next
  BY <1>1, RowsTypedStep, HoldsTypedStep, QueueTypedStep, ProcessesTypedStep DEF TypeOK
<1>2. CASE UNCHANGED vars
  BY <1>2 DEF vars, TypeOK, RowsTyped, HoldsTyped, QueueTyped, JobIds, ProcessesTyped
<1>3. QED
  BY <1>1, <1>2

\* Every reachable state is well typed: among the rest, whoever is under way has
\* a session, and whoever saves a final status has decided on one.
THEOREM TypeCorrect == Spec => []TypeOK
<1>1. Init => TypeOK
  BY InitTyped
<1>2. TypeOK /\ [Next]_vars => TypeOK'
  BY TypeStep, AgentRunAssumption
<1>3. QED
  BY <1>1, <1>2, PTL DEF Spec

-----------------------------------------------------------------------------
(* What a step does to the leases: it leaves them alone and nobody new      *)
(* drives, or it is one of the five statements that write a lease.          *)

AbandonPcs == {"abandon", "refundAbandoned"}

\* Whoever drives after the step drove the same attempt before it.
WorkersOn ==
    \A w \in Workers :
        wk'[w].pc \in LeasedPcs =>
            /\ wk[w].pc \in LeasedPcs
            /\ wk'[w].s = wk[w].s
            /\ wk'[w].attempt = wk[w].attempt
            /\ wk'[w].pc \in AbandonPcs <=> wk[w].pc \in AbandonPcs

QuietStep == UNCHANGED leaseVars /\ WorkersOn

ClaimStep(w) ==
    /\ wk[w].pc = "claim"
    /\ Claimable(wk[w].s)
    /\ TakeRow(wk[w].s, w)
    /\ wk' = [wk EXCEPT ![w].pc = IF attempts[wk[w].s] < MaxAttempts THEN "enter"
                                  ELSE "abandon",
                        ![w].attempt = attempts[wk[w].s] + 1]

RenewStep(w) ==
    /\ wk[w].pc \in LeasedPcs
    /\ owner[wk[w].s] = w
    /\ lease' = [lease EXCEPT ![wk[w].s] = "live"]
    /\ UNCHANGED <<owner, attempts, wk>>

LapseStep(s) ==
    /\ ~OwnerAlive(s) \/ "late" \in Faults
    /\ lease' = [lease EXCEPT ![s] = "lapsed"]
    /\ UNCHANGED <<owner, attempts, wk>>

DropStep(w) ==
    /\ wk[w].pc = "release"
    /\ owner[wk[w].s] = w
    /\ NoLease(wk[w].s)
    /\ UNCHANGED attempts
    /\ WorkersOn

FailStep(s) ==
    /\ lease[s] = "lapsed"
    /\ NoLease(s)
    /\ UNCHANGED <<attempts, wk>>

\* Of a worker that is replaced by one that does not drive.
LEMMA WorkerRests ==
    ASSUME TypeOK, NEW w \in Workers, NEW new, new.pc \notin LeasedPcs,
           wk' = [wk EXCEPT ![w] = new]
    PROVE  WorkersOn
BY DEF TypeOK, ProcessesTyped, WorkersOn

\* Of a worker that drives on.
LEMMA WorkerDrivesOn ==
    ASSUME TypeOK, NEW w \in Workers, NEW new, wk[w].pc \in LeasedPcs,
           new.s = wk[w].s, new.attempt = wk[w].attempt,
           new.pc \in AbandonPcs <=> wk[w].pc \in AbandonPcs,
           wk' = [wk EXCEPT ![w] = new]
    PROVE  WorkersOn
BY DEF TypeOK, ProcessesTyped, WorkersOn

LEMMA GoesOn ==
    ASSUME TypeOK, NEW w \in Workers, NEW pc, wk[w].pc \in LeasedPcs \ AbandonPcs,
           pc \notin AbandonPcs, Goto(w, pc)
    PROVE  WorkersOn
<1> DEFINE new == [wk[w] EXCEPT !.pc = pc]
<1>1. wk[w] \in WorkerType
  BY DEF TypeOK, ProcessesTyped
<1>2. new.s = wk[w].s /\ new.attempt = wk[w].attempt /\ new.pc = pc
  BY <1>1 DEF WorkerType
<1>3. wk' = [wk EXCEPT ![w] = new]
  BY DEF Goto
<1> HIDE DEF new
<1>4. QED
  BY <1>2, <1>3, WorkerDrivesOn

LEMMA EndsOn ==
    ASSUME TypeOK, NEW w \in Workers, NEW pc, NEW final, wk[w].pc \in LeasedPcs,
           pc \in AbandonPcs <=> wk[w].pc \in AbandonPcs, Ends(w, pc, final)
    PROVE  WorkersOn
<1> DEFINE new == [wk[w] EXCEPT !.pc = pc, !.final = final]
<1>1. wk[w] \in WorkerType
  BY DEF TypeOK, ProcessesTyped
<1>2. new.s = wk[w].s /\ new.attempt = wk[w].attempt /\ new.pc = pc
  BY <1>1 DEF WorkerType
<1>3. wk' = [wk EXCEPT ![w] = new]
  BY DEF Ends
<1> HIDE DEF new
<1>4. QED
  BY <1>2, <1>3, WorkerDrivesOn

LEMMA LeavesOff ==
    ASSUME TypeOK, NEW w \in Workers, NEW outcome, Leaves(w, outcome)
    PROVE  WorkersOn
<1> DEFINE new == [wk[w] EXCEPT !.pc = "release", !.outcome = outcome]
<1>1. wk[w] \in WorkerType
  BY DEF TypeOK, ProcessesTyped
<1>2. new.pc \notin LeasedPcs
  BY <1>1 DEF WorkerType, LeasedPcs
<1>3. wk' = [wk EXCEPT ![w] = new]
  BY DEF Leaves
<1> HIDE DEF new
<1>4. QED
  BY <1>2, <1>3, WorkerRests

LEMMA IdlesOff ==
    ASSUME TypeOK, NEW w \in Workers, wk' = [wk EXCEPT ![w] = IdleWorker]
    PROVE  WorkersOn
<1>1. IdleWorker.pc \notin LeasedPcs
  BY DEF IdleWorker, LeasedPcs
<1>2. QED
  BY <1>1, WorkerRests

LEMMA ReportsOff ==
    ASSUME TypeOK, NEW w \in Workers, Goto(w, "report")
    PROVE  WorkersOn
<1> DEFINE new == [wk[w] EXCEPT !.pc = "report"]
<1>1. wk[w] \in WorkerType
  BY DEF TypeOK, ProcessesTyped
<1>2. new.pc \notin LeasedPcs
  BY <1>1 DEF WorkerType, LeasedPcs
<1>3. wk' = [wk EXCEPT ![w] = new]
  BY DEF Goto
<1> HIDE DEF new
<1>4. QED
  BY <1>2, <1>3, WorkerRests

LEMMA BeginsOff ==
    ASSUME TypeOK, NEW w \in Workers, NEW s, NEW n, NEW last, Begin(w, s, n, last)
    PROVE  WorkersOn
<1> DEFINE new == [pc |-> "claim", s |-> s, job |-> n, last |-> last,
                   attempt |-> 0, lost |-> FALSE, final |-> "none",
                   outcome |-> "none"]
<1>1. new.pc \notin LeasedPcs
  BY DEF LeasedPcs
<1>2. wk' = [wk EXCEPT ![w] = new]
  BY DEF Begin
<1> HIDE DEF new
<1>3. QED
  BY <1>1, <1>2, WorkerRests

LEMMA LosesOn ==
    ASSUME TypeOK, NEW w \in Workers, wk[w].pc \in LeasedPcs,
           wk' = [wk EXCEPT ![w].lost = TRUE]
    PROVE  WorkersOn
<1> DEFINE new == [wk[w] EXCEPT !.lost = TRUE]
<1>1. wk[w] \in WorkerType
  BY DEF TypeOK, ProcessesTyped
<1>2. new.s = wk[w].s /\ new.attempt = wk[w].attempt /\ new.pc = wk[w].pc
  BY <1>1 DEF WorkerType
<1>3. wk' = [wk EXCEPT ![w] = new]
  OBVIOUS
<1> HIDE DEF new
<1>4. QED
  BY <1>2, <1>3, WorkerDrivesOn

LEMMA WorkerLeaseSteps ==
    ASSUME TypeOK, NEW w \in Workers, WorkerStep(w)
    PROVE  QuietStep \/ ClaimStep(w) \/ DropStep(w)
<1>1. ASSUME UNCHANGED leaseVars, WorkersOn PROVE QuietStep
  BY <1>1 DEF QuietStep
<1>2. CASE Claim(w)
  <2>1. CASE ClaimStep(w)
    BY <2>1
  <2>2. CASE ~Claimable(wk[w].s) /\ Return(w) /\ UNCHANGED rowVars
    BY <2>2, <1>1, IdlesOff DEF Return, rowVars, leaseVars
  <2>3. QED
    BY <1>2, <2>1, <2>2 DEF Claim, ClaimStep
<1>3. CASE ClaimThrows(w) \/ Report(w) \/ ReportThrows(w)
  BY <1>3, <1>1, IdlesOff DEF ClaimThrows, Report, ReportThrows, Return, Throw, rowVars,
                              leaseVars
<1>4. CASE Abandon(w) \/ AgentGone(w) \/ SaveFailed(w)
  BY <1>4, <1>1, EndsOn DEF Abandon, AgentGone, SaveFailed, SetStatus, LeasedPcs,
                            AbandonPcs
<1>5. CASE RefundAbandoned(w) \/ Escape(w) \/ Leave(w)
  BY <1>5, <1>1, LeavesOff DEF RefundAbandoned, Escape, Leave, rowVars, leaseVars
<1>6. CASE Enter(w) \/ Complete(w)
  BY <1>6, <1>1, EndsOn, GoesOn DEF Enter, Complete, rowVars, leaseVars, LeasedPcs,
                                    AbandonPcs
<1>7. CASE Head(w) \/ Catch(w)
  BY <1>7, <1>1, EndsOn, GoesOn, LeavesOff DEF Head, Catch, rowVars, leaseVars, LeasedPcs,
                                               AbandonPcs
<1>8. CASE Step(w) \/ NoModel(w) \/ Break(w) \/ Charge(w) \/ Save(w)
  BY <1>8, <1>1, GoesOn DEF Step, NoModel, Break, Charge, Save, SetStatus, rowVars,
                            leaseVars, LeasedPcs, AbandonPcs
<1>9. CASE SaveFails(w) \/ Refund(w)
  BY <1>9, <1>1, GoesOn DEF SaveFails, Refund, rowVars, leaseVars, LeasedPcs, AbandonPcs
<1>10. CASE Release(w)
  <2>1. WorkersOn
    BY <1>10, ReportsOff, IdlesOff DEF Release, Return, Throw
  <2>2. QED
    BY <1>10, <2>1, <1>1 DEF Release, DropLease, DropStep, rowVars, leaseVars
<1>11. QED
  BY <1>2, <1>3, <1>4, <1>5, <1>6, <1>7, <1>8, <1>9, <1>10 DEF WorkerStep

LEMMA LeaseSteps ==
    ASSUME TypeOK, Next
    PROVE  \/ QuietStep
           \/ \E w \in Workers : ClaimStep(w) \/ RenewStep(w) \/ DropStep(w)
           \/ \E s \in Sessions : LapseStep(s) \/ FailStep(s)
<1>1. ASSUME UNCHANGED <<leaseVars, wk>> PROVE QuietStep
  BY <1>1 DEF QuietStep, WorkersOn
<1>2. ASSUME UNCHANGED leaseVars, WorkersOn PROVE QuietStep
  BY <1>2 DEF QuietStep
<1>3. CASE \E s \in Sessions : HandoffStep(s) \/ CancelStep(s)
  <2> PICK s \in Sessions : HandoffStep(s) \/ CancelStep(s)
    BY <1>3
  <2>1. CASE Reserve(s) \/ CreateRow(s) \/ CreateThrows(s) \/ Enqueue(s) \/ CountersThrow(s)
    BY <2>1, <1>1 DEF Reserve, CreateRow, CreateThrows, Enqueue, CountersThrow, SetStatus,
                      rowVars, leaseVars
  <2>2. CASE CancelUnsettled(s) \/ RefundHandoff(s) \/ CrashHandoff(s) \/ CancelStep(s)
    BY <2>2, <1>1 DEF CancelUnsettled, RefundHandoff, CrashHandoff, CancelStep, SetStatus,
                      ReadCancel, CancelJob, WriteCancel, rowVars, leaseVars
  <2>3. QED
    BY <2>1, <2>2 DEF HandoffStep
<1>4. CASE \E s \in Sessions : Lapse(s)
  BY <1>4 DEF Lapse, LapseStep
<1>5. CASE \E s \in Sessions : \/ Age(s) \/ LoseJob(s)
                               \/ \E n \in JobIds : Stall(s, n) \/ Forget(s, n)
  BY <1>5, <1>1 DEF Age, LoseJob, Stall, Forget, rowVars, leaseVars
<1>6. CASE \E w \in Workers : WorkerStep(w)
  BY <1>6, WorkerLeaseSteps
<1>7. CASE \E w \in Workers : Renew(w)
  <2> PICK w \in Workers : Renew(w)
    BY <1>7
  <2>1. CASE owner[wk[w].s] = w /\ status[wk[w].s] = "running"
    BY <2>1 DEF Renew, RenewStep
  <2>2. CASE ~(owner[wk[w].s] = w /\ status[wk[w].s] = "running")
    BY <2>2, <1>2, LosesOn DEF Renew, leaseVars
  <2>3. QED
    BY <2>1, <2>2
<1>8. CASE \E w \in Workers : CrashWorker(w)
  BY <1>8, <1>2, IdlesOff DEF CrashWorker, rowVars, leaseVars
<1>9. CASE \E w \in Workers, s \in Sessions :
              TakeDirect(w, s) \/ \E n \in JobIds : TakeJob(w, s, n)
  BY <1>9, <1>2, BeginsOff DEF TakeDirect, TakeJob, rowVars, leaseVars
<1>10. CASE \E p \in Reapers : ReaperStep(p)
  <2> PICK p \in Reapers : ReaperStep(p)
    BY <1>10
  <2>1. CASE FailExhausted(p)
    <3>1. rp[p].s \in Sessions
      BY <2>1 DEF FailExhausted, TypeOK, ProcessesTyped
    <3>2. QED
      BY <2>1, <3>1, <1>1 DEF FailExhausted, FailStep, Exhausted, Lapsed, rowVars, leaseVars
  <2>2. CASE Resume(p) \/ RefundExhausted(p) \/ TellStopped(p) \/ RefundOrphan(p)
    BY <2>2, <1>1 DEF Resume, RefundExhausted, TellStopped, RefundOrphan, rowVars, leaseVars
  <2>3. QED
    BY <2>1, <2>2 DEF ReaperStep
<1>11. CASE \E p \in Reapers : CrashReaper(p) \/ \E s \in Sessions :
                ListLapsed(p, s) \/ ClaimOrphan(p, s)
  BY <1>11, <1>1 DEF CrashReaper, ListLapsed, ClaimOrphan, SetStatus, rowVars, leaseVars
<1>12. QED
  BY <1>3, <1>4, <1>5, <1>6, <1>7, <1>8, <1>9, <1>10, <1>11 DEF Next

-----------------------------------------------------------------------------
(* One driver, while leases are kept in time.                              *)

\* Whoever drives a session holds its lease, and the lease is live.
LeaseInv ==
    \A w \in Workers :
        wk[w].pc \in LeasedPcs => owner[wk[w].s] = w /\ lease[wk[w].s] = "live"

LEMMA LeaseInit == Init => LeaseInv
BY DEF Init, LeaseInv, IdleWorker, LeasedPcs

LEMMA LeaseStep ==
    ASSUME AgentRunAssumption, "late" \notin Faults, TypeOK, LeaseInv, Next
    PROVE  LeaseInv'
<1>0. NoWorker \notin Workers
  BY DEF AgentRunAssumption
<1>1. \A w \in Workers : wk[w].pc # "idle" => wk[w].s \in Sessions
  BY DEF TypeOK, ProcessesTyped
<1>2. RowsTyped
  BY DEF TypeOK
<1>3. CASE QuietStep
  BY <1>3 DEF QuietStep, WorkersOn, leaseVars, LeaseInv
<1>4. CASE \E w \in Workers : ClaimStep(w)
  <2> PICK w \in Workers : ClaimStep(w)
    BY <1>4
  <2>1. wk[w].s \in Sessions
    BY <1>1 DEF ClaimStep
  <2>2. lease[wk[w].s] # "live"
    BY DEF ClaimStep, Claimable
  <2>3. wk'[w].s = wk[w].s
    BY DEF ClaimStep, TypeOK, ProcessesTyped, WorkerType
  <2>4. \A v \in Workers : v # w => wk'[v] = wk[v]
    BY DEF ClaimStep, TypeOK, ProcessesTyped
  <2>5. owner'[wk[w].s] = w /\ lease'[wk[w].s] = "live"
    BY <2>1, <1>2 DEF ClaimStep, TakeRow, RowsTyped
  <2>6. \A s \in Sessions : s # wk[w].s => owner'[s] = owner[s] /\ lease'[s] = lease[s]
    BY <1>2 DEF ClaimStep, TakeRow, RowsTyped
  <2>7. ASSUME NEW v \in Workers, wk'[v].pc \in LeasedPcs
        PROVE  owner'[wk'[v].s] = v /\ lease'[wk'[v].s] = "live"
    <3>1. CASE v = w
      BY <3>1, <2>3, <2>5
    <3>2. CASE v # w
      <4>1. wk[v].pc \in LeasedPcs /\ wk'[v].s = wk[v].s
        BY <2>7, <3>2, <2>4
      <4>2. owner[wk[v].s] = v /\ lease[wk[v].s] = "live" /\ wk[v].s \in Sessions
        BY <4>1, <1>1 DEF LeaseInv, LeasedPcs
      <4>3. QED
        BY <4>1, <4>2, <2>2, <2>6
    <3>3. QED
      BY <3>1, <3>2
  <2>8. QED
    BY <2>7 DEF LeaseInv
<1>5. CASE \E w \in Workers : RenewStep(w)
  BY <1>5, <1>2 DEF RenewStep, RowsTyped, LeaseInv
<1>6. CASE \E w \in Workers : DropStep(w)
  <2> PICK w \in Workers : DropStep(w)
    BY <1>6
  <2>1. ASSUME NEW v \in Workers, wk'[v].pc \in LeasedPcs
        PROVE  owner'[wk'[v].s] = v /\ lease'[wk'[v].s] = "live"
    <3>1. wk[v].pc \in LeasedPcs /\ wk'[v].s = wk[v].s
      BY <2>1 DEF DropStep, WorkersOn
    <3>2. owner[wk[v].s] = v /\ lease[wk[v].s] = "live"
      BY <3>1 DEF LeaseInv
    <3>3. v # w
      BY <3>1 DEF DropStep, LeasedPcs
    <3>4. wk[v].s # wk[w].s
      BY <3>2, <3>3 DEF DropStep
    <3>5. QED
      BY <3>1, <3>2, <3>4, <1>2 DEF DropStep, NoLease, RowsTyped
  <2>2. QED
    BY <2>1 DEF LeaseInv
<1>7. CASE \E s \in Sessions : LapseStep(s)
  <2> PICK s \in Sessions : LapseStep(s)
    BY <1>7
  <2>1. \A w \in Workers : wk[w].pc \in LeasedPcs => wk[w].s # s
    BY DEF LapseStep, OwnerAlive, Drives, LeaseInv
  <2>2. QED
    BY <2>1, <1>2 DEF LapseStep, LeaseInv, RowsTyped
<1>8. CASE \E s \in Sessions : FailStep(s)
  BY <1>8, <1>2 DEF FailStep, NoLease, LeaseInv, RowsTyped
<1>9. QED
  BY <1>3, <1>4, <1>5, <1>6, <1>7, <1>8, LeaseSteps

\* As long as no lease of a living worker lapses, no session ever has two
\* workers on it: not after a redelivery, not after a resumption, not after a
\* sweep that gave the run up.
THEOREM OneDriverAlways == ASSUME "late" \notin Faults PROVE Spec => []OneDriver
<1>1. Init => TypeOK /\ LeaseInv
  BY InitTyped, LeaseInit
<1>2. TypeOK /\ LeaseInv /\ [Next]_vars => TypeOK' /\ LeaseInv'
  <2> SUFFICES ASSUME TypeOK, LeaseInv, [Next]_vars PROVE TypeOK' /\ LeaseInv'
    OBVIOUS
  <2>1. TypeOK'
    BY TypeStep, AgentRunAssumption
  <2>2. CASE Next
    BY <2>1, <2>2, LeaseStep, AgentRunAssumption
  <2>3. CASE UNCHANGED vars
    BY <2>1, <2>3 DEF vars, LeaseInv
  <2>4. QED
    BY <2>2, <2>3
<1>3. LeaseInv => OneDriver
  BY DEF LeaseInv, OneDriver, Drives
<1>4. QED
  BY <1>1, <1>2, <1>3, PTL DEF Spec

-----------------------------------------------------------------------------
(* And when they are not: the attempt numbers.                             *)

\* A driver's attempt was handed out; the owner's is the latest; no two drivers
\* of a session have the same; and only an attempt within bounds is executed.
AttemptOf(w) ==
    /\ wk[w].attempt <= attempts[wk[w].s]
    /\ owner[wk[w].s] = w => wk[w].attempt = attempts[wk[w].s]
    /\ wk[w].pc \in AbandonPcs => wk[w].attempt > MaxAttempts
    /\ wk[w].pc \notin AbandonPcs => wk[w].attempt <= MaxAttempts

AttemptInv ==
    /\ \A w \in Workers : wk[w].pc \in LeasedPcs => AttemptOf(w)
    /\ \A v, w \in Workers :
           v # w /\ wk[v].pc \in LeasedPcs /\ wk[w].pc \in LeasedPcs /\ wk[v].s = wk[w].s =>
               wk[v].attempt # wk[w].attempt

LEMMA AttemptInit == Init => AttemptInv
BY DEF Init, AttemptInv, IdleWorker, LeasedPcs

\* Steps that number no attempt and name no new owner.
LEMMA AttemptKept ==
    ASSUME TypeOK, AttemptInv, WorkersOn, UNCHANGED attempts,
           \A s \in Sessions : owner'[s] = owner[s] \/ owner'[s] \notin Workers
    PROVE  AttemptInv'
<1>1. \A w \in Workers : wk[w].pc \in LeasedPcs => wk[w].s \in Sessions
  BY DEF TypeOK, ProcessesTyped, LeasedPcs
<1>2. ASSUME NEW w \in Workers, wk'[w].pc \in LeasedPcs PROVE AttemptOf(w)'
  <2>1. /\ wk[w].pc \in LeasedPcs
        /\ wk'[w].s = wk[w].s
        /\ wk'[w].attempt = wk[w].attempt
        /\ wk'[w].pc \in AbandonPcs <=> wk[w].pc \in AbandonPcs
    BY <1>2 DEF WorkersOn
  <2>2. AttemptOf(w) /\ wk[w].s \in Sessions
    BY <1>1, <2>1 DEF AttemptInv
  <2>3. owner'[wk[w].s] = w => owner[wk[w].s] = w
    BY <2>2
  <2>4. QED
    BY <2>1, <2>2, <2>3 DEF AttemptOf
<1>3. ASSUME NEW v \in Workers, NEW w \in Workers, v # w,
             wk'[v].pc \in LeasedPcs, wk'[w].pc \in LeasedPcs, wk'[v].s = wk'[w].s
      PROVE  wk'[v].attempt # wk'[w].attempt
  BY <1>3 DEF WorkersOn, AttemptInv
<1>4. QED
  BY <1>2, <1>3 DEF AttemptInv

LEMMA AttemptStep ==
    ASSUME AgentRunAssumption, TypeOK, AttemptInv, Next
    PROVE  AttemptInv'
<1>0. NoWorker \notin Workers /\ MaxAttempts \in Nat
  BY DEF AgentRunAssumption
<1>1. \A w \in Workers : wk[w].pc # "idle" => wk[w].s \in Sessions
  BY DEF TypeOK, ProcessesTyped
<1>2. RowsTyped
  BY DEF TypeOK
<1>3. ASSUME UNCHANGED wk PROVE WorkersOn
  BY <1>3 DEF WorkersOn
<1>4. CASE QuietStep
  BY <1>4, AttemptKept DEF QuietStep, leaseVars
<1>5. CASE \E w \in Workers : ClaimStep(w)
  <2> PICK w \in Workers : ClaimStep(w)
    BY <1>5
  <2> DEFINE s == wk[w].s
             n == attempts[wk[w].s]
  <2>1. s \in Sessions /\ n \in Nat
    BY <1>1, <1>2 DEF ClaimStep, RowsTyped
  <2>2. /\ wk'[w].s = s
        /\ wk'[w].attempt = n + 1
        /\ wk'[w].pc = IF n < MaxAttempts THEN "enter" ELSE "abandon"
    BY DEF ClaimStep, TypeOK, ProcessesTyped, WorkerType
  <2>3. \A v \in Workers : v # w => wk'[v] = wk[v]
    BY DEF ClaimStep, TypeOK, ProcessesTyped
  <2>4. attempts'[s] = n + 1 /\ owner'[s] = w
    BY <2>1, <1>2 DEF ClaimStep, TakeRow, RowsTyped
  <2>5. \A r \in Sessions : r # s => owner'[r] = owner[r] /\ attempts'[r] = attempts[r]
    BY <1>2 DEF ClaimStep, TakeRow, RowsTyped
  <2>6. \A v \in Workers : wk[v].attempt \in Nat
    BY DEF TypeOK, ProcessesTyped, WorkerType
  <2>7. \A v \in Workers : wk[v].pc \in LeasedPcs => AttemptOf(v) /\ wk[v].s \in Sessions
    BY <1>1 DEF AttemptInv, LeasedPcs
  <2>8. \A v \in Workers : wk[v].pc \in LeasedPcs /\ wk[v].s = s => wk[v].attempt <= n
    BY <2>7 DEF AttemptOf
  <2> HIDE DEF s, n
  <2>9. AttemptOf(w)'
    <3>1. CASE n < MaxAttempts
      <4>1. wk'[w].pc = "enter" /\ n + 1 <= MaxAttempts /\ n + 1 <= n + 1
        BY <3>1, <2>1, <2>2, <1>0
      <4>2. QED
        BY <4>1, <2>2, <2>4 DEF AttemptOf, AbandonPcs
    <3>2. CASE ~(n < MaxAttempts)
      <4>1. wk'[w].pc = "abandon" /\ n + 1 > MaxAttempts /\ n + 1 <= n + 1
        BY <3>2, <2>1, <2>2, <1>0
      <4>2. QED
        BY <4>1, <2>2, <2>4 DEF AttemptOf, AbandonPcs
    <3>3. QED
      BY <3>1, <3>2
  <2>10. ASSUME NEW v \in Workers, v # w, wk'[v].pc \in LeasedPcs PROVE AttemptOf(v)'
    <3>1. wk'[v] = wk[v] /\ wk[v].pc \in LeasedPcs
      BY <2>3, <2>10
    <3>2. AttemptOf(v) /\ wk[v].s \in Sessions /\ wk[v].attempt \in Nat
      BY <3>1, <2>6, <2>7
    <3>3. CASE wk[v].s = s
      <4>1. wk[v].attempt <= n
        BY <2>8, <3>1, <3>3
      <4>2. wk[v].attempt <= n + 1
        BY <4>1, <3>2, <2>1
      <4>3. QED
        BY <4>2, <3>1, <3>2, <3>3, <2>4, <2>10 DEF AttemptOf
    <3>4. CASE wk[v].s # s
      BY <3>1, <3>2, <3>4, <2>5 DEF AttemptOf
    <3>5. QED
      BY <3>3, <3>4
  <2>11. ASSUME NEW v \in Workers, v # w, wk'[v].pc \in LeasedPcs, wk'[v].s = wk'[w].s
         PROVE  wk'[v].attempt # wk'[w].attempt
    <3>1. wk'[v] = wk[v] /\ wk[v].pc \in LeasedPcs /\ wk[v].s = s
      BY <2>2, <2>3, <2>11
    <3>2. wk[v].attempt \in Nat /\ wk[v].attempt <= n
      BY <3>1, <2>6, <2>8
    <3>3. wk[v].attempt # n + 1
      BY <3>2, <2>1
    <3>4. QED
      BY <3>1, <3>3, <2>2
  <2>12. ASSUME NEW u \in Workers, NEW v \in Workers, u # v,
               wk'[u].pc \in LeasedPcs, wk'[v].pc \in LeasedPcs, wk'[u].s = wk'[v].s
        PROVE  wk'[u].attempt # wk'[v].attempt
    <3>1. CASE u = w \/ v = w
      BY <2>11, <2>12, <3>1
    <3>2. CASE u # w /\ v # w
      <4>1. wk'[u] = wk[u] /\ wk'[v] = wk[v]
        BY <2>3, <3>2
      <4>2. QED
        BY <2>12, <4>1 DEF AttemptInv
    <3>3. QED
      BY <3>1, <3>2
  <2>13. QED
    BY <2>9, <2>10, <2>12 DEF AttemptInv
<1>6. CASE \E w \in Workers : RenewStep(w)
  BY <1>6, <1>3, AttemptKept DEF RenewStep
<1>7. CASE \E w \in Workers : DropStep(w)
  BY <1>7, <1>0, <1>2, AttemptKept DEF DropStep, NoLease, RowsTyped
<1>8. CASE \E s \in Sessions : LapseStep(s)
  BY <1>8, <1>3, AttemptKept DEF LapseStep
<1>9. CASE \E s \in Sessions : FailStep(s)
  BY <1>9, <1>0, <1>2, <1>3, AttemptKept DEF FailStep, NoLease, RowsTyped
<1>10. QED
  BY <1>4, <1>5, <1>6, <1>7, <1>8, <1>9, LeaseSteps

\* Whatever lapses, the attempt numbers tell two drivers of a session apart, the
\* owner of the lease is the latest of them, and none is executed beyond
\* MaxAttempts: a worker that is told it lost the run has a later claim to blame.
THEOREM LatestClaimAlwaysOwns == Spec => []LatestClaimOwns
<1>1. Init => TypeOK /\ AttemptInv
  BY InitTyped, AttemptInit
<1>2. TypeOK /\ AttemptInv /\ [Next]_vars => TypeOK' /\ AttemptInv'
  <2> SUFFICES ASSUME TypeOK, AttemptInv, [Next]_vars PROVE TypeOK' /\ AttemptInv'
    OBVIOUS
  <2>1. TypeOK'
    BY TypeStep, AgentRunAssumption
  <2>2. CASE Next
    BY <2>1, <2>2, AttemptStep, AgentRunAssumption
  <2>3. CASE UNCHANGED vars
    BY <2>1, <2>3 DEF vars, AttemptInv, AttemptOf
  <2>4. QED
    BY <2>2, <2>3
<1>3. AttemptInv => LatestClaimOwns
  BY DEF AttemptInv, AttemptOf, LatestClaimOwns, Drives, AbandonPcs, LeasedPcs
<1>4. QED
  BY <1>1, <1>2, <1>3, PTL DEF Spec

-----------------------------------------------------------------------------
(* No revival.                                                             *)

Early == {"idle", "reserved"}

\* A session still in an early handoff has no row; whoever works on one, or
\* cancels it, has seen its row.
RowInv ==
    /\ \A s \in Sessions : handoff[s] \in Early => status[s] = "none"
    /\ \A w \in Workers : wk[w].pc \notin {"idle", "claim"} => status[wk[w].s] # "none"
    /\ \A s \in Sessions : cancel[s] # "no" => status[s] # "none"

\* What a step may do to the status of a session.
StatusMoves ==
    \A s \in Sessions :
        /\ status[s] # "none" => status'[s] # "none"
        /\ status[s] \in Terminal => status'[s] \in Terminal
        /\ handoff'[s] \in Early =>
               handoff[s] \in Early /\ (status'[s] = status[s] \/ status[s] # "none")

\* Who is on a session after a step was on it before, or has just claimed it.
WorkersStay ==
    \A w \in Workers :
        wk'[w].pc \notin {"idle", "claim"} =>
            \/ wk[w].pc \notin {"idle", "claim"} /\ wk'[w].s = wk[w].s
            \/ wk'[w].s \in Sessions /\ status'[wk'[w].s] = "running"

CancelsStay ==
    \A s \in Sessions : cancel'[s] # "no" => cancel[s] # "no" \/ status[s] \in Open

LEMMA StatusKept ==
    ASSUME UNCHANGED <<status, handoff>>
    PROVE  StatusMoves
BY DEF StatusMoves

LEMMA StatusSet ==
    ASSUME TypeOK, NEW s \in Sessions, NEW to \in Terminal, status[s] # "none",
           SetStatus(s, to), UNCHANGED handoff
    PROVE  StatusMoves
<1>1. \A r \in Sessions : status'[r] = IF r = s THEN to ELSE status[r]
  BY DEF SetStatus, TypeOK, RowsTyped
<1>2. to # "none"
  BY DEF Terminal
<1>3. QED
  BY <1>1, <1>2 DEF StatusMoves

LEMMA WorkerStays ==
    ASSUME TypeOK, NEW w \in Workers, NEW new, wk' = [wk EXCEPT ![w] = new],
           \/ new.pc \in {"idle", "claim"}
           \/ wk[w].pc \notin {"idle", "claim"} /\ new.s = wk[w].s
           \/ new.s \in Sessions /\ status'[new.s] = "running"
    PROVE  WorkersStay
BY DEF TypeOK, ProcessesTyped, WorkersStay

LEMMA GoesStays ==
    ASSUME TypeOK, NEW w \in Workers, NEW pc, wk[w].pc \notin {"idle", "claim"}, Goto(w, pc)
    PROVE  WorkersStay
<1> DEFINE new == [wk[w] EXCEPT !.pc = pc]
<1>1. wk[w] \in WorkerType
  BY DEF TypeOK, ProcessesTyped
<1>2. new.s = wk[w].s
  BY <1>1 DEF WorkerType
<1>3. wk' = [wk EXCEPT ![w] = new]
  BY DEF Goto
<1> HIDE DEF new
<1>4. QED
  BY <1>2, <1>3, WorkerStays

LEMMA EndsStays ==
    ASSUME TypeOK, NEW w \in Workers, NEW pc, NEW final, wk[w].pc \notin {"idle", "claim"},
           Ends(w, pc, final)
    PROVE  WorkersStay
<1> DEFINE new == [wk[w] EXCEPT !.pc = pc, !.final = final]
<1>1. wk[w] \in WorkerType
  BY DEF TypeOK, ProcessesTyped
<1>2. new.s = wk[w].s
  BY <1>1 DEF WorkerType
<1>3. wk' = [wk EXCEPT ![w] = new]
  BY DEF Ends
<1> HIDE DEF new
<1>4. QED
  BY <1>2, <1>3, WorkerStays

LEMMA LeavesStays ==
    ASSUME TypeOK, NEW w \in Workers, NEW outcome, wk[w].pc \notin {"idle", "claim"},
           Leaves(w, outcome)
    PROVE  WorkersStay
<1> DEFINE new == [wk[w] EXCEPT !.pc = "release", !.outcome = outcome]
<1>1. wk[w] \in WorkerType
  BY DEF TypeOK, ProcessesTyped
<1>2. new.s = wk[w].s
  BY <1>1 DEF WorkerType
<1>3. wk' = [wk EXCEPT ![w] = new]
  BY DEF Leaves
<1> HIDE DEF new
<1>4. QED
  BY <1>2, <1>3, WorkerStays

LEMMA IdlesStays ==
    ASSUME TypeOK, NEW w \in Workers, wk' = [wk EXCEPT ![w] = IdleWorker]
    PROVE  WorkersStay
<1>1. IdleWorker.pc = "idle"
  BY DEF IdleWorker
<1>2. QED
  BY <1>1, WorkerStays

LEMMA BeginsStays ==
    ASSUME TypeOK, NEW w \in Workers, NEW s, NEW n, NEW last, Begin(w, s, n, last)
    PROVE  WorkersStay
<1> DEFINE new == [pc |-> "claim", s |-> s, job |-> n, last |-> last,
                   attempt |-> 0, lost |-> FALSE, final |-> "none",
                   outcome |-> "none"]
<1>1. new.pc = "claim"
  OBVIOUS
<1>2. wk' = [wk EXCEPT ![w] = new]
  BY DEF Begin
<1> HIDE DEF new
<1>3. QED
  BY <1>1, <1>2, WorkerStays

LEMMA LosesStays ==
    ASSUME TypeOK, NEW w \in Workers, wk[w].pc \in LeasedPcs,
           wk' = [wk EXCEPT ![w].lost = TRUE]
    PROVE  WorkersStay
<1> DEFINE new == [wk[w] EXCEPT !.lost = TRUE]
<1>1. wk[w] \in WorkerType
  BY DEF TypeOK, ProcessesTyped
<1>2. new.s = wk[w].s /\ new.pc = wk[w].pc
  BY <1>1 DEF WorkerType
<1>3. wk' = [wk EXCEPT ![w] = new]
  OBVIOUS
<1>4. wk[w].pc \notin {"idle", "claim"}
  BY DEF LeasedPcs
<1> HIDE DEF new
<1>5. QED
  BY <1>2, <1>3, <1>4, WorkerStays

LEMMA WorkerStepStays ==
    ASSUME TypeOK, NEW w \in Workers, WorkerStep(w)
    PROVE  WorkersStay
<1>1. CASE Claim(w)
  <2>1. CASE ~Claimable(wk[w].s) /\ Return(w)
    BY <2>1, IdlesStays DEF Return
  <2>2. CASE ClaimStep(w)
    <3> DEFINE new == [wk[w] EXCEPT !.pc = IF attempts[wk[w].s] < MaxAttempts THEN "enter"
                                           ELSE "abandon",
                                    !.attempt = attempts[wk[w].s] + 1]
    <3>1. wk[w] \in WorkerType /\ wk[w].s \in Sessions
      BY <2>2 DEF ClaimStep, TypeOK, ProcessesTyped
    <3>2. new.s = wk[w].s
      BY <3>1 DEF WorkerType
    <3>3. wk' = [wk EXCEPT ![w] = new]
      BY <2>2 DEF ClaimStep
    <3>4. status'[wk[w].s] = "running"
      BY <2>2, <3>1 DEF ClaimStep, TakeRow, TypeOK, RowsTyped
    <3> HIDE DEF new
    <3>5. QED
      BY <3>1, <3>2, <3>3, <3>4, WorkerStays
  <2>3. QED
    BY <1>1, <2>1, <2>2 DEF Claim, ClaimStep
<1>2. CASE ClaimThrows(w) \/ Report(w) \/ ReportThrows(w)
  BY <1>2, IdlesStays DEF ClaimThrows, Report, ReportThrows, Return, Throw
<1>3. CASE Abandon(w) \/ AgentGone(w) \/ SaveFailed(w)
  BY <1>3, EndsStays DEF Abandon, AgentGone, SaveFailed
<1>4. CASE RefundAbandoned(w) \/ Escape(w) \/ Leave(w)
  BY <1>4, LeavesStays DEF RefundAbandoned, Escape, Leave
<1>5. CASE Enter(w) \/ Complete(w)
  BY <1>5, EndsStays, GoesStays DEF Enter, Complete
<1>6. CASE Head(w) \/ Catch(w)
  BY <1>6, EndsStays, GoesStays, LeavesStays DEF Head, Catch
<1>7. CASE Step(w) \/ NoModel(w) \/ Break(w) \/ Charge(w) \/ Save(w)
  BY <1>7, GoesStays DEF Step, NoModel, Break, Charge, Save
<1>8. CASE SaveFails(w) \/ Refund(w)
  BY <1>8, GoesStays DEF SaveFails, Refund
<1>9. CASE Release(w)
  BY <1>9, GoesStays, IdlesStays DEF Release, Return, Throw
<1>10. QED
  BY <1>1, <1>2, <1>3, <1>4, <1>5, <1>6, <1>7, <1>8, <1>9 DEF WorkerStep

LEMMA StepWorkersStay ==
    ASSUME TypeOK, Next
    PROVE  WorkersStay
<1>1. ASSUME UNCHANGED wk PROVE WorkersStay
  BY <1>1 DEF WorkersStay
<1>2. CASE \E s \in Sessions : HandoffStep(s)
  <2> PICK s \in Sessions : HandoffStep(s)
    BY <1>2
  <2>1. CASE Reserve(s) \/ CreateRow(s) \/ CreateThrows(s) \/ Enqueue(s) \/ CountersThrow(s)
    BY <2>1, <1>1 DEF Reserve, CreateRow, CreateThrows, Enqueue, CountersThrow
  <2>2. CASE CancelUnsettled(s) \/ RefundHandoff(s) \/ CrashHandoff(s)
    BY <2>2, <1>1 DEF CancelUnsettled, RefundHandoff, CrashHandoff
  <2>3. QED
    BY <2>1, <2>2 DEF HandoffStep
<1>3. CASE \E s \in Sessions : \/ CancelStep(s) \/ Lapse(s) \/ Age(s) \/ LoseJob(s)
                               \/ \E n \in JobIds : Stall(s, n) \/ Forget(s, n)
  BY <1>3, <1>1 DEF CancelStep, ReadCancel, CancelJob, WriteCancel, Lapse, Age, LoseJob,
                    Stall, Forget
<1>4. CASE \E w \in Workers : WorkerStep(w)
  BY <1>4, WorkerStepStays
<1>5. CASE \E w \in Workers : Renew(w) \/ CrashWorker(w)
  BY <1>5, <1>1, LosesStays, IdlesStays DEF Renew, CrashWorker
<1>6. CASE \E w \in Workers, s \in Sessions :
              TakeDirect(w, s) \/ \E n \in JobIds : TakeJob(w, s, n)
  BY <1>6, BeginsStays DEF TakeDirect, TakeJob
<1>7. CASE \E p \in Reapers : \/ ReaperStep(p) \/ CrashReaper(p)
                              \/ \E s \in Sessions : ListLapsed(p, s) \/ ClaimOrphan(p, s)
  BY <1>7, <1>1 DEF ReaperStep, Resume, FailExhausted, RefundExhausted, TellStopped,
                    RefundOrphan, CrashReaper, ListLapsed, ClaimOrphan
<1>8. QED
  BY <1>2, <1>3, <1>4, <1>5, <1>6, <1>7 DEF Next

LEMMA StepCancelsStay ==
    ASSUME TypeOK, Next
    PROVE  CancelsStay
<1>1. ASSUME UNCHANGED cancel PROVE CancelsStay
  BY <1>1 DEF CancelsStay
<1>2. CASE \E s \in Sessions : CancelStep(s)
  BY <1>2 DEF CancelStep, ReadCancel, CancelJob, WriteCancel, ToCancel, CancelsStay,
              TypeOK, HoldsTyped
<1>3. CASE \E s \in Sessions : HandoffStep(s)
  <2> PICK s \in Sessions : HandoffStep(s)
    BY <1>3
  <2>1. CASE Reserve(s) \/ CreateRow(s) \/ CreateThrows(s) \/ Enqueue(s) \/ CountersThrow(s)
    BY <2>1, <1>1 DEF Reserve, CreateRow, CreateThrows, Enqueue, CountersThrow
  <2>2. CASE CancelUnsettled(s) \/ RefundHandoff(s) \/ CrashHandoff(s)
    BY <2>2, <1>1 DEF CancelUnsettled, RefundHandoff, CrashHandoff
  <2>3. QED
    BY <2>1, <2>2 DEF HandoffStep
<1>4. CASE \E s \in Sessions : \/ Lapse(s) \/ Age(s) \/ LoseJob(s)
                               \/ \E n \in JobIds : Stall(s, n) \/ Forget(s, n)
  BY <1>4, <1>1 DEF Lapse, Age, LoseJob, Stall, Forget
<1>5. CASE \E w \in Workers : WorkerStep(w)
  <2> PICK w \in Workers : WorkerStep(w)
    BY <1>5
  <2>1. CASE \/ Claim(w) \/ ClaimThrows(w) \/ Abandon(w) \/ RefundAbandoned(w) \/ Escape(w)
             \/ AgentGone(w) \/ Enter(w) \/ Head(w)
    BY <2>1, <1>1 DEF Claim, ClaimThrows, Abandon, RefundAbandoned, Escape, AgentGone,
                      Enter, Head
  <2>2. CASE \/ Step(w) \/ Complete(w) \/ NoModel(w) \/ Break(w) \/ Charge(w) \/ Save(w)
             \/ SaveFails(w) \/ Catch(w)
    BY <2>2, <1>1 DEF Step, Complete, NoModel, Break, Charge, Save, SaveFails, Catch
  <2>3. CASE Refund(w) \/ SaveFailed(w) \/ Leave(w) \/ Release(w) \/ Report(w) \/ ReportThrows(w)
    BY <2>3, <1>1 DEF Refund, SaveFailed, Leave, Release, Report, ReportThrows
  <2>4. QED
    BY <2>1, <2>2, <2>3 DEF WorkerStep
<1>6. CASE \E w \in Workers : \/ Renew(w) \/ CrashWorker(w)
                              \/ \E s \in Sessions :
                                    TakeDirect(w, s) \/ \E n \in JobIds : TakeJob(w, s, n)
  BY <1>6, <1>1 DEF Renew, CrashWorker, TakeDirect, TakeJob
<1>7. CASE \E p \in Reapers : \/ ReaperStep(p) \/ CrashReaper(p)
                              \/ \E s \in Sessions : ListLapsed(p, s) \/ ClaimOrphan(p, s)
  BY <1>7, <1>1 DEF ReaperStep, Resume, FailExhausted, RefundExhausted, TellStopped,
                    RefundOrphan, CrashReaper, ListLapsed, ClaimOrphan
<1>8. QED
  BY <1>2, <1>3, <1>4, <1>5, <1>6, <1>7 DEF Next

LEMMA StepStatusMoves ==
    ASSUME TypeOK, RowInv, Next
    PROVE  StatusMoves
<1>1. ASSUME UNCHANGED rowVars, UNCHANGED handoff PROVE StatusMoves
  BY <1>1, StatusKept DEF rowVars
<1>2. ASSUME UNCHANGED status, NEW s \in Sessions, NEW pc,
             ToHandoff(s, pc), pc \in Early => handoff[s] \in Early
      PROVE  StatusMoves
  BY <1>2 DEF StatusMoves, ToHandoff, TypeOK, HoldsTyped
<1>3. CASE \E s \in Sessions : HandoffStep(s)
  <2> PICK s \in Sessions : HandoffStep(s)
    BY <1>3
  <2>1. CASE Reserve(s)
    BY <2>1, <1>2 DEF Reserve, rowVars, Early
  <2>2. CASE CreateRow(s)
    <3>1. status[s] = "none"
      BY <2>2 DEF CreateRow, RowInv, Early
    <3>2. \A r \in Sessions : status'[r] = IF r = s THEN "queued" ELSE status[r]
      BY <2>2 DEF CreateRow, SetStatus, TypeOK, RowsTyped
    <3>3. \A r \in Sessions : handoff'[r] = IF r = s THEN "created" ELSE handoff[r]
      BY <2>2 DEF CreateRow, ToHandoff, TypeOK, HoldsTyped
    <3>4. QED
      BY <3>1, <3>2, <3>3 DEF StatusMoves, Early, Terminal
  <2>3. CASE CreateThrows(s) \/ Enqueue(s) \/ CountersThrow(s) \/ RefundHandoff(s)
    BY <2>3, <1>2 DEF CreateThrows, Enqueue, CountersThrow, RefundHandoff, rowVars, Early
  <2>4. CASE CrashHandoff(s)
    BY <2>4, <1>2 DEF CrashHandoff, rowVars, Early
  <2>5. CASE CancelUnsettled(s)
    <3>1. CASE UNCHANGED rowVars /\ ToHandoff(s, "done")
      BY <3>1, <1>2 DEF rowVars, Early
    <3>2. CASE /\ status[s] \in Open \cup {"cancelled"}
               /\ SetStatus(s, "cancelled")
               /\ ToHandoff(s, "refunding")
      <4>1. status[s] # "none"
        BY <3>2 DEF Open
      <4>2. \A r \in Sessions : status'[r] = IF r = s THEN "cancelled" ELSE status[r]
        BY <3>2 DEF SetStatus, TypeOK, RowsTyped
      <4>3. \A r \in Sessions : handoff'[r] = IF r = s THEN "refunding" ELSE handoff[r]
        BY <3>2 DEF ToHandoff, TypeOK, HoldsTyped
      <4>4. QED
        BY <4>1, <4>2, <4>3 DEF StatusMoves, Early, Terminal
    <3>3. QED
      BY <2>5, <3>1, <3>2 DEF CancelUnsettled
  <2>6. QED
    BY <2>1, <2>2, <2>3, <2>4, <2>5 DEF HandoffStep
<1>4. CASE \E s \in Sessions : CancelStep(s)
  <2> PICK s \in Sessions : CancelStep(s)
    BY <1>4
  <2>1. CASE ReadCancel(s) \/ CancelJob(s)
    BY <2>1, <1>1 DEF ReadCancel, CancelJob
  <2>2. CASE WriteCancel(s)
    <3>1. status[s] # "none"
      BY <2>2 DEF WriteCancel, RowInv
    <3>2. QED
      BY <2>2, <3>1, StatusSet DEF WriteCancel, Terminal
  <2>3. QED
    BY <2>1, <2>2 DEF CancelStep
<1>5. CASE \E s \in Sessions : Lapse(s) \/ Age(s)
  BY <1>5, StatusKept DEF Lapse, Age
<1>6. CASE \E s \in Sessions : LoseJob(s) \/ \E n \in JobIds : Stall(s, n) \/ Forget(s, n)
  BY <1>6, <1>1 DEF LoseJob, Stall, Forget
<1>7. CASE \E w \in Workers : WorkerStep(w)
  <2> PICK w \in Workers : WorkerStep(w)
    BY <1>7
  <2>0. /\ wk[w].pc # "idle" => wk[w].s \in Sessions
        /\ wk[w].pc \notin {"idle", "claim"} => status[wk[w].s] # "none"
    BY DEF TypeOK, ProcessesTyped, RowInv
  <2>1. CASE Claim(w)
    <3>1. wk[w].s \in Sessions /\ UNCHANGED handoff
      BY <2>0, <2>1 DEF Claim
    <3>2. CASE Claimable(wk[w].s) /\ TakeRow(wk[w].s, w)
      <4>1. status[wk[w].s] \in Open
        BY <3>2 DEF Claimable
      <4>2. \A r \in Sessions : status'[r] = IF r = wk[w].s THEN "running" ELSE status[r]
        BY <3>1, <3>2 DEF TakeRow, TypeOK, RowsTyped
      <4>3. QED
        BY <3>1, <4>1, <4>2 DEF StatusMoves, Open, Terminal
    <3>3. CASE UNCHANGED rowVars
      BY <3>1, <3>3, <1>1
    <3>4. QED
      BY <2>1, <3>2, <3>3 DEF Claim
  <2>2. CASE \/ ClaimThrows(w) \/ RefundAbandoned(w) \/ Escape(w) \/ Enter(w) \/ Head(w)
             \/ Step(w) \/ Complete(w)
    BY <2>2, <1>1 DEF ClaimThrows, RefundAbandoned, Escape, Enter, Head, Step, Complete
  <2>3. CASE Break(w) \/ Charge(w) \/ SaveFails(w) \/ Catch(w) \/ Refund(w) \/ Leave(w)
             \/ Report(w) \/ ReportThrows(w)
    BY <2>3, <1>1 DEF Break, Charge, SaveFails, Catch, Refund, Leave, Report, ReportThrows
  <2>4. CASE Abandon(w) \/ AgentGone(w) \/ SaveFailed(w)
    BY <2>0, <2>4, StatusSet DEF Abandon, AgentGone, SaveFailed, Terminal
  <2>5. CASE NoModel(w)
    BY <2>0, <2>5, <1>1, StatusSet DEF NoModel, Terminal
  <2>6. CASE Save(w)
    <3>1. wk[w].final \in Terminal
      BY <2>6 DEF Save, TypeOK, ProcessesTyped
    <3>2. QED
      BY <2>0, <2>6, <3>1, StatusSet DEF Save
  <2>7. CASE Release(w)
    BY <2>7, StatusKept DEF Release, DropLease, rowVars
  <2>8. QED
    BY <2>1, <2>2, <2>3, <2>4, <2>5, <2>6, <2>7 DEF WorkerStep
<1>8. CASE \E w \in Workers : Renew(w)
  BY <1>8, StatusKept DEF Renew
<1>9. CASE \E w \in Workers : \/ CrashWorker(w)
                              \/ \E s \in Sessions :
                                    TakeDirect(w, s) \/ \E n \in JobIds : TakeJob(w, s, n)
  BY <1>9, <1>1 DEF CrashWorker, TakeDirect, TakeJob
<1>10. CASE \E p \in Reapers : ReaperStep(p)
  <2> PICK p \in Reapers : ReaperStep(p)
    BY <1>10
  <2>1. CASE FailExhausted(p)
    <3>1. CASE UNCHANGED rowVars
      BY <2>1, <3>1, <1>1 DEF FailExhausted
    <3>2. CASE Exhausted(rp[p].s) /\ status' = [status EXCEPT ![rp[p].s] = "failed"]
      <4>1. \A r \in Sessions : status'[r] = IF r = rp[p].s THEN "failed" ELSE status[r]
        BY <3>2 DEF TypeOK, RowsTyped
      <4>2. status[rp[p].s] = "running" /\ UNCHANGED handoff
        BY <2>1, <3>2 DEF FailExhausted, Exhausted, Lapsed
      <4>3. QED
        BY <4>1, <4>2 DEF StatusMoves, Terminal
    <3>3. QED
      BY <2>1, <3>1, <3>2 DEF FailExhausted
  <2>2. CASE Resume(p) \/ RefundExhausted(p) \/ TellStopped(p) \/ RefundOrphan(p)
    BY <2>2, <1>1 DEF Resume, RefundExhausted, TellStopped, RefundOrphan
  <2>3. QED
    BY <2>1, <2>2 DEF ReaperStep
<1>11. CASE \E p \in Reapers : CrashReaper(p) \/ \E s \in Sessions : ListLapsed(p, s)
  BY <1>11, <1>1 DEF CrashReaper, ListLapsed
<1>12. CASE \E p \in Reapers, s \in Sessions : ClaimOrphan(p, s)
  BY <1>12, StatusSet DEF ClaimOrphan, Terminal
<1>13. QED
  BY <1>3, <1>4, <1>5, <1>6, <1>7, <1>8, <1>9, <1>10, <1>11, <1>12 DEF Next

LEMMA RowInit == Init => RowInv
BY DEF Init, RowInv, IdleWorker

LEMMA RowStep ==
    ASSUME TypeOK, TypeOK', RowInv, Next
    PROVE  RowInv' /\ StatusMoves
<1>1. StatusMoves
  BY StepStatusMoves
<1>2. \A s \in Sessions : handoff'[s] \in Early => status'[s] = "none"
  BY <1>1 DEF StatusMoves, RowInv
<1>3. ASSUME NEW w \in Workers, wk'[w].pc \notin {"idle", "claim"}
      PROVE  status'[wk'[w].s] # "none"
  <2>1. \/ wk[w].pc \notin {"idle", "claim"} /\ wk'[w].s = wk[w].s
        \/ status'[wk'[w].s] = "running"
    BY <1>3, StepWorkersStay DEF WorkersStay
  <2>2. CASE wk[w].pc \notin {"idle", "claim"} /\ wk'[w].s = wk[w].s
    <3>1. wk[w].s \in Sessions /\ status[wk[w].s] # "none"
      BY <2>2 DEF RowInv, TypeOK, ProcessesTyped
    <3>2. QED
      BY <2>2, <3>1, <1>1 DEF StatusMoves
  <2>3. QED
    BY <2>1, <2>2
<1>4. \A s \in Sessions : cancel'[s] # "no" => status'[s] # "none"
  BY <1>1, StepCancelsStay DEF CancelsStay, StatusMoves, RowInv, Open
<1>5. QED
  BY <1>1, <1>2, <1>3, <1>4 DEF RowInv

\* A session that has ended never runs again: the claim is the only statement
\* that sets "running", and nothing else leaves a terminal status.
THEOREM NeverRevived == Spec => NoRevival
<1>1. Init => TypeOK /\ RowInv
  BY InitTyped, RowInit
<1>2. TypeOK /\ RowInv /\ [Next]_vars => TypeOK' /\ RowInv'
  <2> SUFFICES ASSUME TypeOK, RowInv, [Next]_vars PROVE TypeOK' /\ RowInv'
    OBVIOUS
  <2>1. TypeOK'
    BY TypeStep, AgentRunAssumption
  <2>2. CASE Next
    BY <2>1, <2>2, RowStep
  <2>3. CASE UNCHANGED vars
    BY <2>1, <2>3 DEF vars, RowInv
  <2>4. QED
    BY <2>2, <2>3
<1>3. TypeOK /\ TypeOK' /\ RowInv /\ [Next]_vars =>
        [\A s \in Sessions : status[s] \in Terminal => status'[s] \in Terminal]_vars
  BY RowStep DEF StatusMoves
<1>4. QED
  BY <1>1, <1>2, <1>3, PTL DEF Spec, NoRevival

=============================================================================
