------------------------- MODULE AliaTaskRunProofs -------------------------
(***************************************************************************)
(* For any number of dispatches, workers, sweeps, attempts and stalls: the *)
(* hold of an Alia run is settled at most once and implements SettleOnce,  *)
(* provided the reply to a commit is not lost; an occurrence runs at most  *)
(* once and the person is told one story of it, whatever faults happen.    *)
(***************************************************************************)
EXTENDS AliaTaskRun, FiniteSetTheorems, TLAPS

Unclaimed == {"idle", "denied", "reserved", "unclaimed"}

WorkerPays(w, r)  == wk[w].run = r /\ wk[w].pc \in SettlingPcs
ReaperPays(p, r)  == rp[p].run = r /\ rp[p].pc = "refund"

\* A dispatch that has not claimed has no row.
UnclaimedHasNoRow ==
    \A r \in Runs :
        dispatch[r] \in Unclaimed => status[r] = "none"

\* Until a dispatch gives its hold back or a run is closed, nothing has moved
\* the credits, ...
UnsettledBefore ==
    \A r \in Runs :
        dispatch[r] \in Unclaimed \/ status[r] \in Open
            => charges[r] = 0 /\ refunds[r] = 0

\* ... only who closed a run pays for it, and has not paid yet, ...
PayerClosed ==
    /\ \A w \in Workers, r \in Runs :
        WorkerPays(w, r) => status[r] \in Terminal /\ charges[r] = 0 /\ refunds[r] = 0
    /\ \A p \in Reapers, r \in Runs :
        ReaperPays(p, r) => status[r] \in Terminal /\ charges[r] = 0 /\ refunds[r] = 0

\* ... and no two of them pay for the same run.
OnePayer ==
    /\ \A w, v \in Workers, r \in Runs : WorkerPays(w, r) /\ WorkerPays(v, r) => w = v
    /\ \A p, q \in Reapers, r \in Runs : ReaperPays(p, r) /\ ReaperPays(q, r) => p = q
    /\ \A w \in Workers, p \in Reapers, r \in Runs : ~(WorkerPays(w, r) /\ ReaperPays(p, r))

SettleInv ==
    /\ UnclaimedHasNoRow
    /\ UnsettledBefore
    /\ PayerClosed
    /\ OnePayer
    /\ SettledAtMostOnce

-----------------------------------------------------------------------------
(* Types.                                                                  *)

LEMMA InitTyped == Init => TypeOK
<1> SUFFICES ASSUME Init PROVE TypeOK
  OBVIOUS
<1>1. RunsTyped
  BY DEF Init, RunsTyped, DispatchPcs
<1>2. MoneyTyped /\ QueueTyped
  BY DEF Init, MoneyTyped, QueueTyped, NoJob
<1>3. ProcessesTyped
  BY DEF Init, ProcessesTyped, WorkerPcs, ReaperPcs, IdleWorker, IdleReaper
<1>4. QED
  BY <1>1, <1>2, <1>3 DEF TypeOK

\* What each step does to the rows, ...
LEMMA RunsTypedStep == TypeOK /\ [Next]_vars => RunsTyped'
<1> SUFFICES ASSUME TypeOK, [Next]_vars PROVE RunsTyped'
  OBVIOUS
<1> USE DEF TypeOK, RunsTyped, rowVars, Open, Terminal
<1>1. ASSUME NEW r \in Runs, DispatcherStep(r) \/ CrashDispatch(r) PROVE RunsTyped'
  BY <1>1 DEF DispatcherStep, Reserve, Claim, ClaimThrows, InsertRow, RefundUnclaimed,
              Enqueue, CrashDispatch, DispatchPcs
<1>2. ASSUME NEW r \in Runs, Lapse(r) \/ RemoveDefinition(r) \/ Stall(r) \/ LoseJob(r)
      PROVE  RunsTyped'
  BY <1>2 DEF Lapse, RemoveDefinition, Stall, LoseJob
<1>3. ASSUME NEW w \in Workers, NEW r \in Runs, TakeJob(w, r) \/ TakeDirect(w, r)
      PROVE  RunsTyped'
  BY <1>3 DEF TakeJob, TakeDirect
<1>4. ASSUME NEW w \in Workers, MarkAction(w) \/ CrashWorker(w) PROVE RunsTyped'
  <2>1. CASE MarkAction(w)
    <3>1. UNCHANGED <<dispatch, status, stale, known>>
      BY <2>1 DEF MarkAction
    <3>2. action' \in [Runs -> {"planned", "running", "succeeded", "failed", "cancelled"}]
      BY <2>1 DEF MarkAction
    <3>3. QED
      BY <3>1, <3>2
  <2>2. QED
    BY <1>4, <2>1 DEF CrashWorker
<1>5. ASSUME NEW w \in Workers, WorkerStep(w) PROVE RunsTyped'
  <2>1. ASSUME NEW r \in Runs, NEW s \in Terminal, CloseRow(r, s), UNCHANGED dispatch
        PROVE  RunsTyped'
    BY <2>1 DEF CloseRow
  <2>2. ASSUME NEW r \in Runs, RenewRow(r), UNCHANGED dispatch PROVE RunsTyped'
    BY <2>2 DEF RenewRow
  <2>3. wk[w].pc # "idle" => wk[w].run \in Runs
    BY DEF ProcessesTyped
  <2>4. CASE CloseGone(w) \/ Close(w) \/ Catch(w) \/ TurnThrows(w)
    BY <2>1, <2>3, <2>4 DEF CloseGone, Close, Catch, TurnThrows
  <2>5. CASE Renew(w)
    BY <2>2, <2>3, <2>5 DEF Renew
  <2>6. QED
    BY <1>5, <2>4, <2>5 DEF WorkerStep, Load, FindDefinition, TurnAnswers, Escape, Charge,
         RefundGone, RefundUncharged, RefundFailed, Post, Tell
<1>6. ASSUME NEW p \in Reapers, ReaperStep(p) \/ CrashReaper(p) PROVE RunsTyped'
  <2>1. ASSUME NEW r \in Runs, FailAbandonedRow(r), UNCHANGED dispatch PROVE RunsTyped'
    BY <2>1 DEF FailAbandonedRow
  <2>2. rp[p].pc # "idle" => rp[p].run \in Runs
    BY DEF ProcessesTyped
  <2>3. CASE Fail(p)
    BY <2>1, <2>2, <2>3 DEF Fail
  <2>4. QED
    BY <1>6, <2>3 DEF ReaperStep, RefundAbandoned, TellInterrupted, CrashReaper
<1>7. ASSUME NEW p \in Reapers, NEW r \in Runs, List(p, r) PROVE RunsTyped'
  BY <1>7 DEF List
<1>8. CASE UNCHANGED vars
  BY <1>8 DEF vars
<1>9. QED
  BY <1>1, <1>2, <1>3, <1>4, <1>5, <1>6, <1>7, <1>8 DEF Next

\* ... to the credits and what the person was told, ...
LEMMA MoneyTypedStep == TypeOK /\ [Next]_vars => MoneyTyped'
<1> SUFFICES ASSUME TypeOK, [Next]_vars PROVE MoneyTyped'
  OBVIOUS
<1> USE DEF TypeOK, MoneyTyped, moneyVars
<1>1. ASSUME NEW r \in Runs, GiveBack(r), UNCHANGED told PROVE MoneyTyped'
  BY <1>1 DEF GiveBack
<1>2. ASSUME NEW r \in Runs, DispatcherStep(r) \/ CrashDispatch(r) PROVE MoneyTyped'
  BY <1>1, <1>2 DEF DispatcherStep, Reserve, Claim, ClaimThrows, RefundUnclaimed, Enqueue,
                    CrashDispatch
<1>3. ASSUME NEW r \in Runs, Lapse(r) \/ RemoveDefinition(r) \/ Stall(r) \/ LoseJob(r)
      PROVE  MoneyTyped'
  BY <1>3 DEF Lapse, RemoveDefinition, Stall, LoseJob
<1>4. ASSUME NEW w \in Workers, NEW r \in Runs, TakeJob(w, r) \/ TakeDirect(w, r)
      PROVE  MoneyTyped'
  BY <1>4 DEF TakeJob, TakeDirect
<1>5. ASSUME NEW w \in Workers, WorkerStep(w) \/ MarkAction(w) \/ CrashWorker(w)
      PROVE  MoneyTyped'
  <2>1. wk[w].pc # "idle" => wk[w].run \in Runs
    BY DEF ProcessesTyped
  <2>2. CASE RefundGone(w) \/ RefundUncharged(w) \/ RefundFailed(w)
    BY <1>1, <2>1, <2>2 DEF RefundGone, RefundUncharged, RefundFailed
  <2>3. CASE Charge(w)
    BY <2>3 DEF Charge
  <2>4. CASE Post(w) \/ Tell(w)
    BY <2>4 DEF Post, Tell
  <2>5. QED
    BY <1>5, <2>2, <2>3, <2>4 DEF WorkerStep, MarkAction, CrashWorker, Load, FindDefinition,
         TurnAnswers, Escape, CloseGone, Renew, Close, TurnThrows, Catch
<1>6. ASSUME NEW p \in Reapers, ReaperStep(p) \/ CrashReaper(p) PROVE MoneyTyped'
  <2>1. rp[p].pc # "idle" => rp[p].run \in Runs
    BY DEF ProcessesTyped
  <2>2. CASE RefundAbandoned(p)
    BY <1>1, <2>1, <2>2 DEF RefundAbandoned
  <2>3. CASE TellInterrupted(p)
    BY <2>3 DEF TellInterrupted
  <2>4. QED
    BY <1>6, <2>2, <2>3 DEF ReaperStep, Fail, CrashReaper
<1>7. ASSUME NEW p \in Reapers, NEW r \in Runs, List(p, r) PROVE MoneyTyped'
  BY <1>7 DEF List
<1>8. CASE UNCHANGED vars
  BY <1>8 DEF vars
<1>9. QED
  BY <1>2, <1>3, <1>4, <1>5, <1>6, <1>7, <1>8 DEF Next

\* ... to the queue, ...
LEMMA QueueTypedStep == TypeOK /\ [Next]_vars => QueueTyped'
<1> SUFFICES ASSUME TypeOK, [Next]_vars PROVE QueueTyped'
  OBVIOUS
<1> DEFINE Job == [state : {"absent", "waiting", "active", "gone"},
                   made : Nat, stalls : Nat, by : Workers \cup {NoWorker}]
<1> USE DEF TypeOK, QueueTyped, queueVars
<1>1. ASSUME NEW r \in Runs, NEW j \in Job, job' = [job EXCEPT ![r] = j], UNCHANGED direct
      PROVE  QueueTyped'
  BY <1>1
<1>2. ASSUME NEW r \in Runs, DispatcherStep(r) \/ CrashDispatch(r) PROVE QueueTyped'
  BY <1>2 DEF DispatcherStep, Reserve, Claim, ClaimThrows, RefundUnclaimed, Enqueue, CrashDispatch
<1>3. ASSUME NEW r \in Runs, Lapse(r) \/ RemoveDefinition(r) \/ Stall(r) \/ LoseJob(r)
      PROVE  QueueTyped'
  BY <1>3 DEF Lapse, RemoveDefinition, Stall, LoseJob
<1>4. ASSUME NEW w \in Workers, NEW r \in Runs, TakeJob(w, r) \/ TakeDirect(w, r)
      PROVE  QueueTyped'
  BY <1>4 DEF TakeJob, TakeDirect
<1>5. ASSUME NEW w \in Workers, WorkerStep(w) \/ MarkAction(w) \/ CrashWorker(w)
      PROVE  QueueTyped'
  <2>1. wk[w].pc # "idle" => wk[w].run \in Runs
    BY DEF ProcessesTyped
  <2>2. ASSUME NEW r \in Runs PROVE Completed(r) \in Job /\ AttemptFailed(r) \in Job
    <3>1. job[r] \in Job /\ job[r].made + 1 \in Nat
      OBVIOUS
    <3>2. Completed(r) \in Job
      BY <3>1 DEF Completed
    <3>3. AttemptFailed(r) \in Job
      BY <3>1 DEF AttemptFailed
    <3>4. QED
      BY <3>2, <3>3
  <2>3. ASSUME wk[w].run \in Runs, Return(w) \/ Throw(w) PROVE QueueTyped'
    BY <1>1, <2>2, <2>3 DEF Return, Throw, Release
  <2>4. QED
    BY <1>5, <2>1, <2>3 DEF WorkerStep, MarkAction, CrashWorker, Load, FindDefinition, TurnAnswers,
         Escape, CloseGone, Renew, Close, TurnThrows, Catch, Charge, RefundGone,
         RefundUncharged, RefundFailed, Post, Tell
<1>6. ASSUME NEW p \in Reapers, ReaperStep(p) \/ CrashReaper(p) PROVE QueueTyped'
  BY <1>6 DEF ReaperStep, Fail, RefundAbandoned, TellInterrupted, CrashReaper
<1>7. ASSUME NEW p \in Reapers, NEW r \in Runs, List(p, r) PROVE QueueTyped'
  BY <1>7 DEF List
<1>8. CASE UNCHANGED vars
  BY <1>8 DEF vars
<1>9. QED
  BY <1>2, <1>3, <1>4, <1>5, <1>6, <1>7, <1>8 DEF Next

\* ... and to the processes.
LEMMA ProcessesTypedStep == TypeOK /\ [Next]_vars => ProcessesTyped'
<1> SUFFICES ASSUME TypeOK, [Next]_vars PROVE ProcessesTyped'
  OBVIOUS
<1> USE DEF TypeOK, ProcessesTyped
<1>1. ASSUME NEW r \in Runs, \/ DispatcherStep(r) \/ CrashDispatch(r)
                            \/ Lapse(r) \/ RemoveDefinition(r) \/ Stall(r) \/ LoseJob(r)
      PROVE  ProcessesTyped'
  BY <1>1 DEF DispatcherStep, Reserve, Claim, ClaimThrows, RefundUnclaimed, Enqueue,
              CrashDispatch, Lapse, RemoveDefinition, Stall, LoseJob
<1>2. ASSUME NEW w \in Workers, UNCHANGED rp,
             \/ wk' = [wk EXCEPT ![w] = IdleWorker]
             \/ \E pc \in WorkerPcs : wk[w].pc # "idle" /\ Goto(w, pc)
      PROVE  ProcessesTyped'
  <2>1. CASE wk' = [wk EXCEPT ![w] = IdleWorker]
    BY <1>2, <2>1 DEF IdleWorker, WorkerPcs
  <2>2. CASE \E pc \in WorkerPcs : wk[w].pc # "idle" /\ Goto(w, pc)
    BY <1>2, <2>2 DEF Goto
  <2>3. QED
    BY <1>2, <2>1, <2>2
<1>3. ASSUME NEW w \in Workers, NEW r \in Runs, TakeJob(w, r) \/ TakeDirect(w, r)
      PROVE  ProcessesTyped'
  <2>1. ASSUME NEW f \in BOOLEAN, UNCHANGED rp,
               wk' = [wk EXCEPT ![w] = [pc |-> "load", run |-> r, final |-> f]]
        PROVE  ProcessesTyped'
    BY <2>1 DEF WorkerPcs
  <2>2. CASE TakeJob(w, r)
    <3> DEFINE f == job[r].made >= Attempts - 1
    <3>1. f \in BOOLEAN
      OBVIOUS
    <3>2. UNCHANGED rp /\ wk' = [wk EXCEPT ![w] = [pc |-> "load", run |-> r, final |-> f]]
      BY <2>2 DEF TakeJob
    <3> HIDE DEF f
    <3>3. QED
      BY <2>1, <3>1, <3>2
  <2>3. CASE TakeDirect(w, r)
    BY <2>1, <2>3 DEF TakeDirect
  <2>4. QED
    BY <1>3, <2>2, <2>3
<1>4. ASSUME NEW w \in Workers, WorkerStep(w) \/ MarkAction(w) \/ CrashWorker(w)
      PROVE  ProcessesTyped'
  <2>1. CASE MarkAction(w)
    BY <2>1 DEF MarkAction
  <2>2. CASE CrashWorker(w)
    BY <1>2, <2>2 DEF CrashWorker
  <2>3. CASE WorkerStep(w)
    <3>1. UNCHANGED rp
      BY <2>3 DEF WorkerStep, Load, FindDefinition, TurnAnswers, Escape, CloseGone, Renew, Close,
           TurnThrows, Catch, Charge, RefundGone, RefundUncharged, RefundFailed, Post, Tell
    <3>2. wk[w].pc # "idle"
      BY <2>3 DEF WorkerStep, Load, FindDefinition, TurnAnswers, Escape, CloseGone, Renew, Close,
           TurnThrows, Catch, Charge, RefundGone, RefundUncharged, RefundFailed, Post, Tell
    <3>3. \/ wk' = [wk EXCEPT ![w] = IdleWorker]
          \/ \E pc \in WorkerPcs : Goto(w, pc)
      BY <2>3 DEF WorkerStep, Load, FindDefinition, TurnAnswers, Escape, CloseGone, Renew, Close,
           TurnThrows, Catch, Charge, RefundGone, RefundUncharged, RefundFailed, Post, Tell,
           Return, Throw, WorkerPcs
    <3>4. QED
      BY <1>2, <3>1, <3>2, <3>3
  <2>4. QED
    BY <1>4, <2>1, <2>2, <2>3
<1>5. ASSUME NEW p \in Reapers, ReaperStep(p) \/ CrashReaper(p) PROVE ProcessesTyped'
  BY <1>5 DEF ReaperStep, Fail, RefundAbandoned, TellInterrupted, CrashReaper, IdleReaper, ReaperPcs
<1>6. ASSUME NEW p \in Reapers, NEW r \in Runs, List(p, r) PROVE ProcessesTyped'
  BY <1>6 DEF List, ReaperPcs
<1>7. CASE UNCHANGED vars
  BY <1>7 DEF vars
<1>8. QED
  BY <1>1, <1>3, <1>4, <1>5, <1>6, <1>7 DEF Next

\* Every variable of the component keeps its type.
THEOREM TypeCorrect == Spec => []TypeOK
<1>1. TypeOK /\ [Next]_vars => TypeOK'
  BY RunsTypedStep, MoneyTypedStep, QueueTypedStep, ProcessesTypedStep DEF TypeOK
<1>2. QED
  BY InitTyped, <1>1, PTL DEF Spec

-----------------------------------------------------------------------------
(* The kinds of step the settlement invariant tells apart.                 *)

\* No credits move, no run is opened or closed and nobody becomes a payer.
Neutral ==
    /\ UNCHANGED <<charges, refunds>>
    /\ \A r \in Runs : status'[r] = status[r] \/ (status[r] \in Open /\ status'[r] \in Open)
    /\ \A r \in Runs : dispatch'[r] \in Unclaimed => dispatch[r] \in Unclaimed
    /\ \A w \in Workers, r \in Runs : WorkerPays(w, r)' => WorkerPays(w, r)
    /\ \A p \in Reapers, r \in Runs : ReaperPays(p, r)' => ReaperPays(p, r)

\* A dispatch inserts its row.
Opens(r) ==
    /\ UNCHANGED <<charges, refunds, wk, rp>>
    /\ dispatch[r] \in Unclaimed
    /\ dispatch' = [dispatch EXCEPT ![r] = "claimed"]
    /\ status' = [status EXCEPT ![r] = "planned"]

\* A worker or a reaper closes a run and becomes its payer, and nobody else does.
Closes(r, s) ==
    /\ UNCHANGED <<charges, refunds, dispatch>>
    /\ status[r] \in Open
    /\ s \in Terminal
    /\ status' = [status EXCEPT ![r] = s]

WorkerCloses(w, r, s) ==
    /\ Closes(r, s)
    /\ UNCHANGED rp
    /\ \A v \in Workers, o \in Runs :
           WorkerPays(v, o)' => (v = w /\ o = r) \/ (v # w /\ WorkerPays(v, o))

ReaperCloses(p, r) ==
    /\ Closes(r, "failed")
    /\ UNCHANGED wk
    /\ \A q \in Reapers, o \in Runs :
           ReaperPays(q, o)' => (q = p /\ o = r) \/ (q # p /\ ReaperPays(q, o))

\* One settlement of a run, by whoever owed it.
Moves(r) ==
    \/ charges' = [charges EXCEPT ![r] = @ + 1] /\ UNCHANGED refunds
    \/ refunds' = [refunds EXCEPT ![r] = @ + 1] /\ UNCHANGED charges

DispatchPaid(r) ==
    /\ Moves(r)
    /\ UNCHANGED <<status, wk, rp>>
    /\ dispatch[r] = "unclaimed"
    /\ dispatch' = [dispatch EXCEPT ![r] = "done"]

WorkerPaid(w, r) ==
    /\ Moves(r)
    /\ UNCHANGED <<status, dispatch, rp>>
    /\ WorkerPays(w, r)
    /\ \A v \in Workers, o \in Runs : WorkerPays(v, o)' => v # w /\ WorkerPays(v, o)

ReaperPaid(p, r) ==
    /\ Moves(r)
    /\ UNCHANGED <<status, dispatch, wk>>
    /\ ReaperPays(p, r)
    /\ \A q \in Reapers, o \in Runs : ReaperPays(q, o)' => q # p /\ ReaperPays(q, o)

SettleStep ==
    \/ Neutral
    \/ \E r \in Runs : Opens(r) \/ DispatchPaid(r)
    \/ \E w \in Workers, r \in Runs :
           (\E s \in Terminal : WorkerCloses(w, r, s)) \/ WorkerPaid(w, r)
    \/ \E p \in Reapers, r \in Runs : ReaperCloses(p, r) \/ ReaperPaid(p, r)

\* A settlement of an unsettled run settles it once and touches no other.
LEMMA MovesOnce ==
    ASSUME TypeOK, NEW r \in Runs, Moves(r), charges[r] = 0, refunds[r] = 0
    PROVE  /\ charges'[r] + refunds'[r] = 1
           /\ \A o \in Runs \ {r} : charges'[o] = charges[o] /\ refunds'[o] = refunds[o]
<1>1. charges \in [Runs -> Nat] /\ refunds \in [Runs -> Nat]
  BY DEF TypeOK, MoneyTyped
<1>2. CASE charges' = [charges EXCEPT ![r] = @ + 1] /\ UNCHANGED refunds
  BY <1>1, <1>2
<1>3. CASE refunds' = [refunds EXCEPT ![r] = @ + 1] /\ UNCHANGED charges
  BY <1>1, <1>3
<1>4. QED
  BY <1>2, <1>3 DEF Moves

\* Each kind preserves the invariant.
LEMMA SettleStepPreserves == TypeOK /\ SettleInv /\ SettleStep => SettleInv'
<1> SUFFICES ASSUME TypeOK, SettleInv, SettleStep PROVE SettleInv'
  OBVIOUS
<1>0. dispatch \in [Runs -> DispatchPcs] /\ status \in [Runs -> {"none"} \cup Open \cup Terminal]
  BY DEF TypeOK, RunsTyped
<1> USE DEF SettleInv, UnclaimedHasNoRow, UnsettledBefore, PayerClosed, OnePayer,
        SettledAtMostOnce, Unclaimed, Open, Terminal
<1>1. CASE Neutral
  BY <1>1 DEF Neutral
<1>2. ASSUME NEW r \in Runs, Opens(r) PROVE SettleInv'
  BY <1>0, <1>2 DEF Opens, WorkerPays, ReaperPays
<1>3. ASSUME NEW r \in Runs, DispatchPaid(r) PROVE SettleInv'
  <2>1. charges[r] = 0 /\ refunds[r] = 0 /\ status[r] = "none"
    BY <1>3 DEF DispatchPaid
  <2>2. /\ charges'[r] + refunds'[r] = 1
        /\ \A o \in Runs \ {r} : charges'[o] = charges[o] /\ refunds'[o] = refunds[o]
    BY <1>3, <2>1, MovesOnce DEF DispatchPaid
  <2>3. UNCHANGED <<status, wk, rp>> /\ dispatch' = [dispatch EXCEPT ![r] = "done"]
    BY <1>3 DEF DispatchPaid
  <2>4. UnclaimedHasNoRow'
    BY <1>0, <2>3
  <2>5. UnsettledBefore'
    BY <1>0, <2>1, <2>2, <2>3
  <2>6. PayerClosed' /\ OnePayer'
    BY <2>1, <2>2, <2>3 DEF WorkerPays, ReaperPays
  <2>7. SettledAtMostOnce'
    BY <2>2
  <2>8. QED
    BY <2>4, <2>5, <2>6, <2>7
<1>4. ASSUME NEW w \in Workers, NEW r \in Runs, NEW s \in Terminal, WorkerCloses(w, r, s)
      PROVE  SettleInv'
  <2>1. \A p \in Reapers, o \in Runs : ReaperPays(p, o)' <=> ReaperPays(p, o)
    BY <1>4 DEF WorkerCloses, ReaperPays
  <2>2. QED
    BY <1>0, <1>4, <2>1 DEF WorkerCloses, Closes
<1>5. ASSUME NEW w \in Workers, NEW r \in Runs, WorkerPaid(w, r) PROVE SettleInv'
  <2>1. \A p \in Reapers, o \in Runs : ReaperPays(p, o)' <=> ReaperPays(p, o)
    BY <1>5 DEF WorkerPaid, ReaperPays
  <2>2. charges[r] = 0 /\ refunds[r] = 0 /\ status[r] \in Terminal
    BY <1>5 DEF WorkerPaid
  <2>3. /\ charges'[r] + refunds'[r] = 1
        /\ \A o \in Runs \ {r} : charges'[o] = charges[o] /\ refunds'[o] = refunds[o]
    BY <1>5, <2>2, MovesOnce DEF WorkerPaid
  <2>4. UNCHANGED <<status, dispatch>> /\ dispatch[r] \notin Unclaimed
    BY <1>5, <2>2 DEF WorkerPaid
  <2>5. UnclaimedHasNoRow' /\ UnsettledBefore'
    BY <2>2, <2>3, <2>4
  <2>6. PayerClosed' /\ OnePayer'
    BY <1>5, <2>1, <2>3, <2>4 DEF WorkerPaid
  <2>7. SettledAtMostOnce'
    BY <2>3
  <2>8. QED
    BY <2>5, <2>6, <2>7
<1>6. ASSUME NEW p \in Reapers, NEW r \in Runs, ReaperCloses(p, r) PROVE SettleInv'
  <2>1. \A w \in Workers, o \in Runs : WorkerPays(w, o)' <=> WorkerPays(w, o)
    BY <1>6 DEF ReaperCloses, WorkerPays
  <2>2. QED
    BY <1>0, <1>6, <2>1 DEF ReaperCloses, Closes
<1>7. ASSUME NEW p \in Reapers, NEW r \in Runs, ReaperPaid(p, r) PROVE SettleInv'
  <2>1. \A w \in Workers, o \in Runs : WorkerPays(w, o)' <=> WorkerPays(w, o)
    BY <1>7 DEF ReaperPaid, WorkerPays
  <2>2. charges[r] = 0 /\ refunds[r] = 0 /\ status[r] \in Terminal
    BY <1>7 DEF ReaperPaid
  <2>3. /\ charges'[r] + refunds'[r] = 1
        /\ \A o \in Runs \ {r} : charges'[o] = charges[o] /\ refunds'[o] = refunds[o]
    BY <1>7, <2>2, MovesOnce DEF ReaperPaid
  <2>4. UNCHANGED <<status, dispatch>> /\ dispatch[r] \notin Unclaimed
    BY <1>7, <2>2 DEF ReaperPaid
  <2>5. UnclaimedHasNoRow' /\ UnsettledBefore'
    BY <2>2, <2>3, <2>4
  <2>6. PayerClosed' /\ OnePayer'
    BY <1>7, <2>1, <2>3, <2>4 DEF ReaperPaid
  <2>7. SettledAtMostOnce'
    BY <2>3
  <2>8. QED
    BY <2>5, <2>6, <2>7
<1>8. QED
  BY <1>1, <1>2, <1>3, <1>4, <1>5, <1>6, <1>7 DEF SettleStep

-----------------------------------------------------------------------------
(* Every step of the component is one of these kinds.                      *)

\* A worker that goes on to a statement which settles nothing, or goes idle,
\* owes nothing afterwards; the others owe what they owed.
LEMMA WorkerOwesNothing ==
    ASSUME TypeOK, NEW w \in Workers, NEW k, k.pc \notin SettlingPcs,
           wk' = [wk EXCEPT ![w] = k]
    PROVE  \A v \in Workers, o \in Runs : WorkerPays(v, o)' => v # w /\ WorkerPays(v, o)
  BY DEF TypeOK, ProcessesTyped, WorkerPays

LEMMA GotoOwesNothing ==
    ASSUME TypeOK, NEW w \in Workers, NEW pc, pc \notin SettlingPcs, Goto(w, pc)
    PROVE  \A v \in Workers, o \in Runs : WorkerPays(v, o)' => v # w /\ WorkerPays(v, o)
  BY DEF TypeOK, ProcessesTyped, WorkerPays, Goto

\* A worker that goes on to settle owes for its own run alone.
LEMMA GotoOwesOwnRun ==
    ASSUME TypeOK, NEW w \in Workers, NEW pc, Goto(w, pc)
    PROVE  \A v \in Workers, o \in Runs :
               WorkerPays(v, o)' => (v = w /\ o = wk[w].run) \/ (v # w /\ WorkerPays(v, o))
  BY DEF TypeOK, ProcessesTyped, WorkerPays, Goto

LEMMA ReturnOwesNothing ==
    ASSUME TypeOK, NEW w \in Workers, Return(w) \/ Throw(w)
    PROVE  \A v \in Workers, o \in Runs : WorkerPays(v, o)' => v # w /\ WorkerPays(v, o)
<1>1. wk' = [wk EXCEPT ![w] = IdleWorker]
  BY DEF Return, Throw
<1>2. IdleWorker.pc \notin SettlingPcs
  BY DEF IdleWorker, SettlingPcs
<1>3. QED
  BY <1>1, <1>2, WorkerOwesNothing

\* What leaves the processes, the credits and the openness of every run alone.
LEMMA QuietStep ==
    ASSUME UNCHANGED <<charges, refunds, wk, rp>>,
           \A r \in Runs : status'[r] = status[r] \/ (status[r] \in Open /\ status'[r] \in Open),
           \A r \in Runs : dispatch'[r] \in Unclaimed => dispatch[r] \in Unclaimed
    PROVE  SettleStep
<1>1. \A w \in Workers, r \in Runs : WorkerPays(w, r)' => WorkerPays(w, r)
  BY DEF WorkerPays
<1>2. \A p \in Reapers, r \in Runs : ReaperPays(p, r)' => ReaperPays(p, r)
  BY DEF ReaperPays
<1>3. QED
  BY <1>1, <1>2 DEF Neutral, SettleStep

LEMMA DispatchMoves ==
    ASSUME TypeOK, NEW r \in Runs, NEW d, dispatch' = [dispatch EXCEPT ![r] = d],
           d \in Unclaimed => dispatch[r] \in Unclaimed,
           UNCHANGED <<status, charges, refunds, wk, rp>>
    PROVE  SettleStep
<1>1. dispatch \in [Runs -> DispatchPcs]
  BY DEF TypeOK, RunsTyped
<1>2. \A o \in Runs : dispatch'[o] \in Unclaimed => dispatch[o] \in Unclaimed
  BY <1>1
<1>3. QED
  BY <1>2, QuietStep

\* The dispatcher: a claim opens the run, a refused claim pays.
LEMMA DispatcherSettles ==
    ASSUME TypeOK, "lostReply" \notin Faults, NEW r \in Runs,
           DispatcherStep(r) \/ CrashDispatch(r)
    PROVE  SettleStep
<1> USE DEF rowVars, moneyVars
<1>1. CASE Reserve(r)
  <2>1. PICK d \in {"reserved", "denied"} : dispatch' = [dispatch EXCEPT ![r] = d]
    BY <1>1 DEF Reserve
  <2>2. dispatch[r] \in Unclaimed /\ UNCHANGED <<status, charges, refunds, wk, rp>>
    BY <1>1 DEF Reserve, Unclaimed
  <2>3. QED
    BY <2>1, <2>2, DispatchMoves
<1>2. CASE Claim(r)
  <2>1. CASE InsertRow(r) /\ dispatch' = [dispatch EXCEPT ![r] = "claimed"]
    BY <1>2, <2>1 DEF Claim, InsertRow, Opens, SettleStep, Unclaimed
  <2>2. CASE dispatch' = [dispatch EXCEPT ![r] = "unclaimed"] /\ UNCHANGED rowVars
    BY <1>2, <2>2, DispatchMoves DEF Claim, Unclaimed
  <2>3. QED
    BY <1>2, <2>1, <2>2 DEF Claim
<1>3. CASE ClaimThrows(r)
  BY <1>3, DispatchMoves DEF ClaimThrows, Unclaimed
<1>4. CASE RefundUnclaimed(r)
  <2>1. /\ UNCHANGED <<status, wk, rp>>
        /\ dispatch[r] = "unclaimed"
        /\ dispatch' = [dispatch EXCEPT ![r] = "done"]
        /\ GiveBack(r)
    BY <1>4 DEF RefundUnclaimed
  <2>2. CASE Moves(r)
    BY <2>1, <2>2 DEF DispatchPaid, SettleStep
  <2>3. CASE UNCHANGED <<charges, refunds>>
    BY <2>1, <2>3, DispatchMoves DEF Unclaimed
  <2>4. QED
    BY <2>1, <2>2, <2>3 DEF GiveBack, Moves
<1>5. CASE Enqueue(r)
  BY <1>5, DispatchMoves DEF Enqueue, Unclaimed
<1>6. CASE CrashDispatch(r)
  BY <1>6, DispatchMoves DEF CrashDispatch, Unclaimed
<1>7. QED
  BY <1>1, <1>2, <1>3, <1>4, <1>5, <1>6 DEF DispatcherStep

\* A worker: it becomes a payer by closing a run, pays, or moves on.
LEMMA WorkerSettles ==
    ASSUME TypeOK, "lostReply" \notin Faults, NEW w \in Workers, WorkerStep(w)
    PROVE  SettleStep
<1> USE DEF rowVars, moneyVars
<1> DEFINE r == wk[w].run
<1>0. UNCHANGED <<dispatch, rp>> /\ wk[w].pc # "idle" /\ r \in Runs
  BY DEF WorkerStep, Load, FindDefinition, TurnAnswers, Escape, CloseGone, Renew, Close,
     TurnThrows, Catch, Charge, RefundGone, RefundUncharged, RefundFailed, Post, Tell,
     TypeOK, ProcessesTyped
<1>1. \A p \in Reapers, o \in Runs : ReaperPays(p, o)' <=> ReaperPays(p, o)
  BY <1>0 DEF ReaperPays
<1>2. status \in [Runs -> {"none"} \cup Open \cup Terminal]
  BY DEF TypeOK, RunsTyped
<1>3. ASSUME NEW s \in Terminal, NEW pc, CloseRow(r, s), Goto(w, pc),
             UNCHANGED <<charges, refunds>>
      PROVE  SettleStep
  <2>1. Closes(r, s)
    BY <1>0, <1>3 DEF Closes, CloseRow
  <2>2. WorkerCloses(w, r, s)
    BY <1>0, <1>3, <2>1, GotoOwesOwnRun DEF WorkerCloses
  <2>3. QED
    BY <1>0, <1>3, <2>2 DEF SettleStep
<1>4. ASSUME UNCHANGED <<charges, refunds>>,
             \A o \in Runs : status'[o] = status[o] \/ (status[o] \in Open /\ status'[o] \in Open),
             \A v \in Workers, o \in Runs : WorkerPays(v, o)' => WorkerPays(v, o)
      PROVE  SettleStep
  BY <1>0, <1>1, <1>4 DEF Neutral, SettleStep
<1>5. ASSUME GiveBack(r), UNCHANGED status, wk[w].pc \in SettlingPcs,
             \A v \in Workers, o \in Runs : WorkerPays(v, o)' => v # w /\ WorkerPays(v, o)
      PROVE  SettleStep
  <2>1. CASE Moves(r)
    BY <1>0, <1>5, <2>1 DEF WorkerPaid, WorkerPays, SettleStep
  <2>2. CASE UNCHANGED <<charges, refunds>>
    BY <1>4, <1>5, <2>2
  <2>3. QED
    BY <1>5, <2>1, <2>2 DEF GiveBack, Moves
<1> HIDE DEF r
<1>6. CASE CloseGone(w)
  <2>1. CASE CloseRow(r, "failed") /\ Goto(w, "refundGone")
    BY <1>3, <1>6, <2>1 DEF CloseGone, Terminal
  <2>2. CASE Return(w) /\ UNCHANGED rowVars
    BY <1>4, <1>6, <2>2, ReturnOwesNothing DEF CloseGone
  <2>3. QED
    BY <1>6, <2>1, <2>2 DEF CloseGone, r
<1>7. CASE Close(w)
  <2>1. CASE CloseRow(r, "succeeded") /\ Goto(w, "charge")
    BY <1>3, <1>7, <2>1 DEF Close, Terminal
  <2>2. CASE Return(w) /\ UNCHANGED rowVars
    BY <1>4, <1>7, <2>2, ReturnOwesNothing DEF Close
  <2>3. QED
    BY <1>7, <2>1, <2>2 DEF Close, r
<1>8. CASE Catch(w)
  <2>1. CASE CloseRow(r, "failed") /\ Goto(w, "refundFailed")
    BY <1>3, <1>8, <2>1 DEF Catch, Terminal
  <2>2. CASE Throw(w) /\ UNCHANGED rowVars
    BY <1>4, <1>8, <2>2, ReturnOwesNothing DEF Catch
  <2>3. QED
    BY <1>8, <2>1, <2>2 DEF Catch, r
<1>9. CASE Renew(w)
  <2>1. CASE RenewRow(r) /\ Goto(w, "turn")
    <3>1. \A o \in Runs : status'[o] = status[o] \/ (status[o] \in Open /\ status'[o] \in Open)
      BY <1>0, <1>2, <2>1 DEF RenewRow, Open
    <3>2. "turn" \notin SettlingPcs
      BY DEF SettlingPcs
    <3>3. QED
      BY <1>4, <1>9, <2>1, <3>1, <3>2, GotoOwesNothing DEF Renew
  <2>2. CASE Return(w) /\ UNCHANGED rowVars
    BY <1>4, <1>9, <2>2, ReturnOwesNothing DEF Renew
  <2>3. QED
    BY <1>9, <2>1, <2>2 DEF Renew, r
<1>10. CASE Charge(w)
  <2>1. CASE charges' = [charges EXCEPT ![r] = @ + 1] /\ Goto(w, "post")
    <3>1. Moves(r) /\ WorkerPays(w, r) /\ UNCHANGED status
      BY <1>10, <2>1 DEF Charge, Moves, WorkerPays, SettlingPcs, r
    <3>2. "post" \notin SettlingPcs
      BY DEF SettlingPcs
    <3>3. WorkerPaid(w, r)
      BY <1>0, <2>1, <3>1, <3>2, GotoOwesNothing DEF WorkerPaid
    <3>4. QED
      BY <1>0, <3>3 DEF SettleStep
  <2>2. CASE UNCHANGED charges /\ Goto(w, "refundCharge")
    <3>1. WorkerPays(w, r) /\ UNCHANGED <<status, charges, refunds>>
      BY <1>10, <2>2 DEF Charge, WorkerPays, SettlingPcs, r
    <3>2. \A v \in Workers, o \in Runs : WorkerPays(v, o)' => WorkerPays(v, o)
      BY <2>2, <3>1, GotoOwesOwnRun DEF r
    <3>3. QED
      BY <1>4, <3>1, <3>2
  <2>3. QED
    BY <1>10, <2>1, <2>2 DEF Charge, r
<1>11. CASE RefundGone(w) \/ RefundUncharged(w) \/ RefundFailed(w)
  <2>1. GiveBack(r) /\ UNCHANGED status /\ wk[w].pc \in SettlingPcs
    BY <1>11 DEF RefundGone, RefundUncharged, RefundFailed, SettlingPcs, r
  <2>2. Return(w) \/ \E pc \in {"post", "tell"} : Goto(w, pc)
    BY <1>11 DEF RefundGone, RefundUncharged, RefundFailed
  <2>3. \A v \in Workers, o \in Runs : WorkerPays(v, o)' => v # w /\ WorkerPays(v, o)
    BY <2>2, ReturnOwesNothing, GotoOwesNothing DEF SettlingPcs
  <2>4. QED
    BY <1>5, <2>1, <2>3
<1>12. CASE TurnThrows(w)
  <2>1. Goto(w, "catch") /\ UNCHANGED <<status, charges, refunds>>
    BY <1>12 DEF TurnThrows
  <2>2. QED
    BY <1>4, <2>1, GotoOwesNothing DEF SettlingPcs
<1>13. CASE \/ Load(w) \/ FindDefinition(w) \/ TurnAnswers(w) \/ Escape(w)
            \/ Post(w) \/ Tell(w)
  <2>1. UNCHANGED <<status, charges, refunds>>
    BY <1>13 DEF Load, FindDefinition, TurnAnswers, Escape, Post, Tell
  <2>2. \/ Return(w) \/ Throw(w)
        \/ \E pc \in {"definition", "renew", "closeGone", "close"} : Goto(w, pc)
    BY <1>13 DEF Load, FindDefinition, TurnAnswers, Escape, Post, Tell
  <2>3. \A v \in Workers, o \in Runs : WorkerPays(v, o)' => WorkerPays(v, o)
    BY <2>2, ReturnOwesNothing, GotoOwesNothing DEF SettlingPcs
  <2>4. QED
    BY <1>4, <2>1, <2>3
<1>14. QED
  BY <1>6, <1>7, <1>8, <1>9, <1>10, <1>11, <1>12, <1>13 DEF WorkerStep

\* A reaper: it becomes a payer by failing a run, pays, or moves on.
LEMMA ReaperSettles ==
    ASSUME TypeOK, NEW p \in Reapers,
           \/ ReaperStep(p) \/ CrashReaper(p)
           \/ \E r \in Runs : List(p, r)
    PROVE  SettleStep
<1> USE DEF rowVars, moneyVars
<1> DEFINE r == rp[p].run
<1>0. UNCHANGED <<dispatch, wk>>
  BY DEF ReaperStep, Fail, RefundAbandoned, TellInterrupted, CrashReaper, List
<1>1. \A w \in Workers, o \in Runs : WorkerPays(w, o)' <=> WorkerPays(w, o)
  BY <1>0 DEF WorkerPays
<1>2. status \in [Runs -> {"none"} \cup Open \cup Terminal]
  BY DEF TypeOK, RunsTyped
<1>3. ASSUME NEW k, k.pc # "refund", rp' = [rp EXCEPT ![p] = k]
      PROVE  \A q \in Reapers, o \in Runs : ReaperPays(q, o)' => q # p /\ ReaperPays(q, o)
  BY <1>3 DEF TypeOK, ProcessesTyped, ReaperPays
<1>4. ASSUME NEW pc, pc # "refund", rp' = [rp EXCEPT ![p].pc = pc]
      PROVE  \A q \in Reapers, o \in Runs : ReaperPays(q, o)' => q # p /\ ReaperPays(q, o)
  BY <1>4 DEF TypeOK, ProcessesTyped, ReaperPays
<1>5. ASSUME UNCHANGED <<status, charges, refunds>>,
             \A q \in Reapers, o \in Runs : ReaperPays(q, o)' => ReaperPays(q, o)
      PROVE  SettleStep
  BY <1>0, <1>1, <1>5 DEF Neutral, SettleStep
<1>6. CASE Fail(p)
  <2>1. CASE FailAbandonedRow(r) /\ rp' = [rp EXCEPT ![p].pc = "refund"]
    <3>1. r \in Runs
      BY <1>6 DEF Fail, TypeOK, ProcessesTyped
    <3>2. Closes(r, "failed")
      BY <1>0, <1>6, <2>1 DEF Fail, FailAbandonedRow, Closes, Terminal
    <3>3. \A q \in Reapers, o \in Runs :
              ReaperPays(q, o)' => (q = p /\ o = r) \/ (q # p /\ ReaperPays(q, o))
      BY <2>1 DEF TypeOK, ProcessesTyped, ReaperPays
    <3>4. QED
      BY <1>0, <3>1, <3>2, <3>3 DEF ReaperCloses, SettleStep
  <2>2. CASE rp' = [rp EXCEPT ![p] = IdleReaper] /\ UNCHANGED rowVars
    BY <1>3, <1>5, <1>6, <2>2 DEF Fail, IdleReaper
  <2>3. QED
    BY <1>6, <2>1, <2>2 DEF Fail
<1>7. CASE RefundAbandoned(p)
  <2>1. /\ GiveBack(r)
        /\ r \in Runs
        /\ ReaperPays(p, r)
        /\ UNCHANGED status
        /\ rp' = [rp EXCEPT ![p].pc = "tell"]
    BY <1>7 DEF RefundAbandoned, ReaperPays, TypeOK, ProcessesTyped
  <2>2. \A q \in Reapers, o \in Runs : ReaperPays(q, o)' => q # p /\ ReaperPays(q, o)
    BY <1>4, <2>1
  <2>3. CASE Moves(r)
    BY <1>0, <2>1, <2>2, <2>3 DEF ReaperPaid, SettleStep
  <2>4. CASE UNCHANGED <<charges, refunds>>
    BY <1>5, <2>1, <2>2, <2>4
  <2>5. QED
    BY <2>1, <2>3, <2>4 DEF GiveBack, Moves
<1>8. CASE TellInterrupted(p) \/ CrashReaper(p)
  BY <1>3, <1>5, <1>8 DEF TellInterrupted, CrashReaper, IdleReaper
<1>9. CASE \E o \in Runs : List(p, o)
  <2>1. PICK o \in Runs : rp' = [rp EXCEPT ![p] = [pc |-> "fail", run |-> o]]
    BY <1>9 DEF List
  <2>2. UNCHANGED <<status, charges, refunds>>
    BY <1>9 DEF List
  <2>3. QED
    BY <1>3, <1>5, <2>1, <2>2
<1>10. QED
  BY <1>6, <1>7, <1>8, <1>9 DEF ReaperStep

LEMMA EveryStepSettles ==
    ASSUME TypeOK, "lostReply" \notin Faults, [Next]_vars
    PROVE  SettleStep
<1> USE DEF rowVars, moneyVars
<1>1. ASSUME NEW r \in Runs, DispatcherStep(r) \/ CrashDispatch(r) PROVE SettleStep
  BY <1>1, DispatcherSettles
<1>2. ASSUME NEW r \in Runs, Lapse(r) \/ RemoveDefinition(r) \/ Stall(r) \/ LoseJob(r)
      PROVE  SettleStep
  BY <1>2, QuietStep DEF Lapse, RemoveDefinition, Stall, LoseJob
<1>3. ASSUME NEW w \in Workers, WorkerStep(w) PROVE SettleStep
  BY <1>3, WorkerSettles
<1>4. ASSUME NEW w \in Workers, NEW k, k.pc \notin SettlingPcs, wk' = [wk EXCEPT ![w] = k],
             UNCHANGED <<dispatch, status, charges, refunds, rp>>
      PROVE  SettleStep
  <2>1. \A v \in Workers, o \in Runs : WorkerPays(v, o)' => WorkerPays(v, o)
    BY <1>4, WorkerOwesNothing
  <2>2. \A p \in Reapers, o \in Runs : ReaperPays(p, o)' => ReaperPays(p, o)
    BY <1>4 DEF ReaperPays
  <2>3. QED
    BY <1>4, <2>1, <2>2 DEF Neutral, SettleStep
<1>5. ASSUME NEW w \in Workers, MarkAction(w) \/ CrashWorker(w) PROVE SettleStep
  <2>1. CASE MarkAction(w)
    BY <2>1, QuietStep DEF MarkAction
  <2>2. CASE CrashWorker(w)
    BY <1>4, <2>2 DEF CrashWorker, IdleWorker, SettlingPcs
  <2>3. QED
    BY <1>5, <2>1, <2>2
<1>6. ASSUME NEW w \in Workers, NEW r \in Runs, TakeJob(w, r) \/ TakeDirect(w, r)
      PROVE  SettleStep
  <2>1. PICK f : wk' = [wk EXCEPT ![w] = [pc |-> "load", run |-> r, final |-> f]]
    BY <1>6 DEF TakeJob, TakeDirect
  <2> DEFINE k == [pc |-> "load", run |-> r, final |-> f]
  <2>2. k.pc \notin SettlingPcs /\ wk' = [wk EXCEPT ![w] = k]
    BY <2>1 DEF SettlingPcs
  <2> HIDE DEF k
  <2>3. UNCHANGED <<dispatch, status, charges, refunds, rp>>
    BY <1>6 DEF TakeJob, TakeDirect
  <2>4. QED
    BY <1>4, <2>2, <2>3
<1>7. ASSUME NEW p \in Reapers, \/ ReaperStep(p) \/ CrashReaper(p)
                                \/ \E r \in Runs : List(p, r)
      PROVE  SettleStep
  BY <1>7, ReaperSettles
<1>8. CASE UNCHANGED vars
  BY <1>8, QuietStep DEF vars
<1>9. QED
  BY <1>1, <1>2, <1>3, <1>5, <1>6, <1>7, <1>8 DEF Next

LEMMA InitSettles == Init => SettleInv
  BY DEF Init, SettleInv, UnclaimedHasNoRow, UnsettledBefore, PayerClosed, OnePayer,
         SettledAtMostOnce, Open, WorkerPays, ReaperPays, SettlingPcs, IdleWorker, IdleReaper

LEMMA SettleInvHolds == ASSUME "lostReply" \notin Faults PROVE Spec => []SettleInv
<1>1. TypeOK /\ SettleInv /\ [Next]_vars => SettleInv'
  BY EveryStepSettles, SettleStepPreserves
<1>2. QED
  BY InitSettles, TypeCorrect, <1>1, PTL DEF Spec

\* As long as no reply to a commit is lost, no hold is moved twice: however
\* many dispatches, workers, redeliveries, retries, crashes and sweeps meet on
\* a run, its credits are charged once, given back once, or neither.
THEOREM SettlesOnce == ASSUME "lostReply" \notin Faults PROVE Spec => []SettledAtMostOnce
<1>1. SettleInv => SettledAtMostOnce
  BY DEF SettleInv
<1>2. QED
  BY SettleInvHolds, <1>1, PTL

-----------------------------------------------------------------------------
(* The hold implements SettleOnce.                                         *)

\* A dispatch that has not taken its hold has moved no credits, and no other
\* step takes a hold.
DispatchAdvances ==
    \/ UNCHANGED dispatch
    \/ \E r \in Runs, d \in DispatchPcs :
           /\ dispatch' = [dispatch EXCEPT ![r] = d]
           /\ dispatch[r] # "denied"
           /\ dispatch[r] # "idle" => d \notin {"idle", "denied"}

LEMMA EveryStepAdvances == ASSUME [Next]_vars PROVE DispatchAdvances
<1>1. ASSUME NEW r \in Runs, DispatcherStep(r) PROVE DispatchAdvances
  BY <1>1 DEF DispatcherStep, Reserve, Claim, ClaimThrows, RefundUnclaimed, Enqueue,
              DispatchAdvances, DispatchPcs
<1>2. ASSUME NEW r \in Runs, CrashDispatch(r) PROVE DispatchAdvances
  BY <1>2 DEF CrashDispatch, DispatchAdvances, DispatchPcs
<1>3. ASSUME NEW r \in Runs, Lapse(r) \/ RemoveDefinition(r) \/ Stall(r) \/ LoseJob(r)
      PROVE  UNCHANGED dispatch
  BY <1>3 DEF Lapse, RemoveDefinition, Stall, LoseJob
<1>4. ASSUME NEW w \in Workers, NEW r \in Runs, TakeJob(w, r) \/ TakeDirect(w, r)
      PROVE  UNCHANGED dispatch
  BY <1>4 DEF TakeJob, TakeDirect
<1>5. ASSUME NEW w \in Workers, WorkerStep(w) \/ MarkAction(w) \/ CrashWorker(w)
      PROVE  UNCHANGED dispatch
  BY <1>5 DEF WorkerStep, MarkAction, CrashWorker, Load, FindDefinition, TurnAnswers, Escape,
     CloseGone, Renew, Close, TurnThrows, Catch, Charge, RefundGone, RefundUncharged,
     RefundFailed, Post, Tell
<1>6. ASSUME NEW p \in Reapers, \/ ReaperStep(p) \/ CrashReaper(p)
                                \/ \E r \in Runs : List(p, r)
      PROVE  UNCHANGED dispatch
  BY <1>6 DEF ReaperStep, Fail, RefundAbandoned, TellInterrupted, CrashReaper, List
<1>7. CASE UNCHANGED vars
  BY <1>7 DEF vars, DispatchAdvances
<1>8. QED
  BY <1>1, <1>2, <1>3, <1>4, <1>5, <1>6, <1>7 DEF Next, DispatchAdvances

\* A step moves the credits of one run only, once.
LEMMA EveryStepMoves ==
    ASSUME TypeOK, SettleInv, SettleStep
    PROVE  \/ UNCHANGED <<charges, refunds>>
           \/ \E r \in Runs :
                 /\ Moves(r)
                 /\ charges[r] = 0 /\ refunds[r] = 0
                 /\ dispatch[r] \notin {"idle", "denied"}
                 /\ dispatch' = dispatch \/ dispatch' = [dispatch EXCEPT ![r] = "done"]
<1> USE DEF SettleInv, UnclaimedHasNoRow, UnsettledBefore, PayerClosed, Unclaimed, Terminal
<1>1. CASE Neutral
  BY <1>1 DEF Neutral
<1>2. ASSUME NEW r \in Runs, Opens(r) PROVE UNCHANGED <<charges, refunds>>
  BY <1>2 DEF Opens
<1>3. ASSUME NEW r \in Runs, Closes(r, "failed") \/ \E s \in Terminal : Closes(r, s)
      PROVE  UNCHANGED <<charges, refunds>>
  BY <1>3 DEF Closes
<1>4. ASSUME NEW r \in Runs, DispatchPaid(r)
      PROVE  /\ Moves(r) /\ charges[r] = 0 /\ refunds[r] = 0
             /\ dispatch[r] \notin {"idle", "denied"}
             /\ dispatch' = [dispatch EXCEPT ![r] = "done"]
  BY <1>4 DEF DispatchPaid
<1>5. ASSUME NEW w \in Workers, NEW r \in Runs, WorkerPaid(w, r)
      PROVE  /\ Moves(r) /\ charges[r] = 0 /\ refunds[r] = 0
             /\ dispatch[r] \notin {"idle", "denied"} /\ UNCHANGED dispatch
  BY <1>5 DEF WorkerPaid
<1>6. ASSUME NEW p \in Reapers, NEW r \in Runs, ReaperPaid(p, r)
      PROVE  /\ Moves(r) /\ charges[r] = 0 /\ refunds[r] = 0
             /\ dispatch[r] \notin {"idle", "denied"} /\ UNCHANGED dispatch
  BY <1>6 DEF ReaperPaid
<1>7. QED
  BY <1>1, <1>2, <1>3, <1>4, <1>5, <1>6 DEF SettleStep, WorkerCloses, ReaperCloses

\* The outcome of a hold, by what moved.
LEMMA OutcomeOf ==
    ASSUME NEW r \in Runs
    PROVE  /\ charges[r] = 1 /\ refunds[r] = 0 => HoldOutcome[r] = "charged"
           /\ charges[r] = 0 /\ refunds[r] = 1 => HoldOutcome[r] = "returned"
           /\ charges[r] = 0 /\ refunds[r] = 0 =>
                  /\ dispatch[r] \in {"idle", "denied"} => HoldOutcome[r] = "none"
                  /\ dispatch[r] \notin {"idle", "denied"} => HoldOutcome[r] = "held"
  BY DEF HoldOutcome

\* The transitions of HoldOutcome, and that they are SettleOnce's.
LEMMA OutcomeStep ==
    ASSUME TypeOK, SettleInv, SettleStep, DispatchAdvances
    PROVE  [Hold!SettleNext]_HoldOutcome
<1>0. /\ dispatch \in [Runs -> DispatchPcs]
      /\ charges \in [Runs -> Nat] /\ refunds \in [Runs -> Nat]
      /\ SettleInv'
  BY SettleStepPreserves DEF TypeOK, RunsTyped, MoneyTyped
<1>1. \A o \in Runs : charges[o]' = charges[o] /\ refunds[o]' = refunds[o]
                         /\ (dispatch[o]' \in {"idle", "denied"}
                                <=> dispatch[o] \in {"idle", "denied"})
                      => HoldOutcome[o]' = HoldOutcome[o]
  BY DEF HoldOutcome
<1>2. DOMAIN HoldOutcome = Runs /\ DOMAIN HoldOutcome' = Runs
  BY DEF HoldOutcome
<1>3. /\ HoldOutcome = [o \in Runs |-> HoldOutcome[o]]
      /\ HoldOutcome' = [o \in Runs |-> HoldOutcome'[o]]
  BY DEF HoldOutcome
<1>4. ASSUME NEW r \in Runs, NEW to, HoldOutcome[r]' = to,
             \A o \in Runs \ {r} : HoldOutcome[o]' = HoldOutcome[o]
      PROVE  HoldOutcome' = [HoldOutcome EXCEPT ![r] = to]
  BY <1>2, <1>3, <1>4
<1>5. CASE UNCHANGED <<charges, refunds>> /\ UNCHANGED dispatch
  BY <1>5 DEF HoldOutcome
<1>6. ASSUME UNCHANGED <<charges, refunds>>, NEW r \in Runs, NEW d \in DispatchPcs,
             dispatch' = [dispatch EXCEPT ![r] = d],
             dispatch[r] # "denied", dispatch[r] # "idle" => d \notin {"idle", "denied"}
      PROVE  [Hold!SettleNext]_HoldOutcome
  <2>1. \A o \in Runs \ {r} : HoldOutcome[o]' = HoldOutcome[o]
    BY <1>0, <1>1, <1>6
  <2>2. CASE dispatch[r] = "idle" /\ d \notin {"idle", "denied"}
    <3>1. charges[r] = 0 /\ refunds[r] = 0
      BY <1>0, <2>2 DEF SettleInv, UnsettledBefore, Unclaimed
    <3>2. HoldOutcome[r] = "none"
      BY <2>2, <3>1, OutcomeOf
    <3>3. HoldOutcome[r]' = "held"
      BY <1>0, <1>6, <2>2, <3>1 DEF HoldOutcome
    <3>4. Hold!Take(r)
      BY <1>4, <2>1, <3>2, <3>3 DEF Hold!Take
    <3>5. QED
      BY <3>4 DEF Hold!SettleNext
  <2>3. CASE ~(dispatch[r] = "idle" /\ d \notin {"idle", "denied"})
    <3>1. dispatch[r]' \in {"idle", "denied"} <=> dispatch[r] \in {"idle", "denied"}
      BY <1>0, <1>6, <2>3
    <3>2. \A o \in Runs : HoldOutcome[o]' = HoldOutcome[o]
      BY <1>1, <1>6, <2>1, <3>1
    <3>3. QED
      BY <1>3, <3>2
  <2>4. QED
    BY <2>2, <2>3
<1>7. ASSUME NEW r \in Runs, Moves(r), charges[r] = 0, refunds[r] = 0,
             dispatch[r] \notin {"idle", "denied"},
             dispatch' = dispatch \/ dispatch' = [dispatch EXCEPT ![r] = "done"]
      PROVE  [Hold!SettleNext]_HoldOutcome
  <2>1. /\ charges'[r] + refunds'[r] = 1
        /\ \A o \in Runs \ {r} : charges'[o] = charges[o] /\ refunds'[o] = refunds[o]
    BY <1>7, MovesOnce
  <2>2. \A o \in Runs \ {r} : HoldOutcome[o]' = HoldOutcome[o]
    BY <1>0, <1>1, <1>7, <2>1
  <2>3. HoldOutcome[r] = "held"
    BY <1>7, OutcomeOf
  <2>4. CASE charges' = [charges EXCEPT ![r] = @ + 1] /\ UNCHANGED refunds
    <3>1. HoldOutcome[r]' = "charged"
      BY <1>0, <1>7, <2>4 DEF HoldOutcome
    <3>2. Hold!Charge(r)
      BY <1>4, <2>2, <2>3, <3>1 DEF Hold!Charge
    <3>3. QED
      BY <3>2 DEF Hold!SettleNext
  <2>5. CASE refunds' = [refunds EXCEPT ![r] = @ + 1] /\ UNCHANGED charges
    <3>1. HoldOutcome[r]' = "returned"
      BY <1>0, <1>7, <2>5 DEF HoldOutcome
    <3>2. Hold!GiveBack(r)
      BY <1>4, <2>2, <2>3, <3>1 DEF Hold!GiveBack
    <3>3. QED
      BY <3>2 DEF Hold!SettleNext
  <2>6. QED
    BY <1>7, <2>4, <2>5 DEF Moves
<1>8. QED
  BY <1>5, <1>6, <1>7, EveryStepMoves DEF DispatchAdvances

\* Dispatcher, workers, queue and reapers together do to a hold only what the
\* abstract specification of a hold allows: it is taken, and then charged or
\* given back, once (the claim of alia-task-run.ts:27-30 as a refinement).
THEOREM ImplementsSettleOnce ==
    ASSUME "lostReply" \notin Faults PROVE Spec => HoldSettlesOnce
<1>1. Init => Hold!SettleInit
  BY DEF Init, Hold!SettleInit, HoldOutcome
<1>2. TypeOK /\ SettleInv /\ [Next]_vars => [Hold!SettleNext]_HoldOutcome
  BY EveryStepSettles, EveryStepAdvances, OutcomeStep
<1>3. QED
  BY <1>1, <1>2, TypeCorrect, SettleInvHolds, PTL DEF Spec, HoldSettlesOnce, Hold!SettleSpec
-----------------------------------------------------------------------------
(* One row per occurrence: no hypothesis on the faults.                    *)

\* A dispatch that claimed, a job, a direct execution and a worker all belong
\* to a run that has its row.
RowInv ==
    /\ OneRunPerOccurrence
    /\ \A r \in Runs : dispatch[r] = "claimed" => status[r] # "none"
    /\ \A w \in Workers : wk[w].pc # "idle" => status[wk[w].run] # "none"

\* No step deletes a row, and only a dispatch of a free occurrence inserts one.
RowsKept == \A r \in Runs : status'[r] = "none" <=> status[r] = "none"

RowInserted ==
    \E r \in Runs : ~Taken(r) /\ status' = [status EXCEPT ![r] = "planned"]

LEMMA EveryStepKeepsRows == ASSUME TypeOK, [Next]_vars PROVE RowsKept \/ RowInserted
<1> USE DEF rowVars, RowsKept
<1>0. status \in [Runs -> {"none"} \cup Open \cup Terminal]
  BY DEF TypeOK, RunsTyped
<1>1. ASSUME NEW r \in Runs, DispatcherStep(r) \/ CrashDispatch(r)
      PROVE  RowsKept \/ RowInserted
  BY <1>1 DEF DispatcherStep, Reserve, Claim, ClaimThrows, InsertRow, RefundUnclaimed,
              Enqueue, CrashDispatch, RowInserted
<1>2. ASSUME NEW r \in Runs, Lapse(r) \/ RemoveDefinition(r) \/ Stall(r) \/ LoseJob(r)
      PROVE  RowsKept
  BY <1>2 DEF Lapse, RemoveDefinition, Stall, LoseJob
<1>3. ASSUME NEW w \in Workers, NEW r \in Runs, TakeJob(w, r) \/ TakeDirect(w, r)
      PROVE  RowsKept
  BY <1>3 DEF TakeJob, TakeDirect
<1>4. ASSUME NEW w \in Workers, WorkerStep(w) \/ MarkAction(w) \/ CrashWorker(w)
      PROVE  RowsKept
  <2>1. ASSUME NEW r, NEW s \in Terminal, CloseRow(r, s) PROVE RowsKept
    BY <1>0, <2>1 DEF CloseRow, Open, Terminal
  <2>2. ASSUME NEW r, RenewRow(r) PROVE RowsKept
    BY <1>0, <2>2 DEF RenewRow, Open
  <2>3. CASE CloseGone(w) \/ Close(w) \/ Catch(w) \/ TurnThrows(w)
    BY <2>1, <2>3 DEF CloseGone, Close, Catch, TurnThrows, Terminal
  <2>4. CASE Renew(w)
    BY <2>2, <2>4 DEF Renew
  <2>5. QED
    BY <1>4, <2>3, <2>4 DEF WorkerStep, MarkAction, CrashWorker, Load, FindDefinition,
       TurnAnswers, Escape, Charge, RefundGone, RefundUncharged, RefundFailed, Post, Tell
<1>5. ASSUME NEW p \in Reapers, \/ ReaperStep(p) \/ CrashReaper(p)
                                \/ \E r \in Runs : List(p, r)
      PROVE  RowsKept
  <2>1. ASSUME NEW r, FailAbandonedRow(r) PROVE RowsKept
    BY <1>0, <2>1 DEF FailAbandonedRow, Open
  <2>2. QED
    BY <1>5, <2>1 DEF ReaperStep, Fail, RefundAbandoned, TellInterrupted, CrashReaper, List
<1>6. CASE UNCHANGED vars
  BY <1>6 DEF vars
<1>7. QED
  BY <1>1, <1>2, <1>3, <1>4, <1>5, <1>6 DEF Next

\* A dispatch has claimed only with its row in place.
ClaimsWithRow ==
    \A r \in Runs : dispatch'[r] = "claimed" => dispatch[r] = "claimed" \/ status'[r] # "none"

\* Only a run with a row, or a job already queued, is queued.
QueuesWithRow ==
    \A r \in Runs : r \in direct' \/ job'[r].state # "absent"
                        => \/ r \in direct \/ job[r].state # "absent"
                           \/ status[r] # "none"

\* A worker keeps its run until it is idle, and takes one from the queue.
WorksOnRow ==
    \A w \in Workers : wk'[w].pc # "idle"
                        => \/ wk[w].pc # "idle" /\ wk'[w].run = wk[w].run
                           \/ wk'[w].run \in Runs /\ status[wk'[w].run] # "none"

LEMMA EveryStepClaims == ASSUME TypeOK, [Next]_vars PROVE ClaimsWithRow
<1>0. /\ dispatch \in [Runs -> DispatchPcs]
      /\ status \in [Runs -> {"none"} \cup Open \cup Terminal]
  BY DEF TypeOK, RunsTyped
<1>1. CASE UNCHANGED dispatch
  BY <1>1 DEF ClaimsWithRow
<1>2. ASSUME NEW r \in Runs, DispatcherStep(r) \/ CrashDispatch(r) PROVE ClaimsWithRow
  BY <1>0, <1>2 DEF DispatcherStep, Reserve, Claim, ClaimThrows, InsertRow, RefundUnclaimed,
                    Enqueue, CrashDispatch, ClaimsWithRow
<1>3. ASSUME NEW r \in Runs, Lapse(r) \/ RemoveDefinition(r) \/ Stall(r) \/ LoseJob(r)
      PROVE  UNCHANGED dispatch
  BY <1>3 DEF Lapse, RemoveDefinition, Stall, LoseJob
<1>4. ASSUME NEW w \in Workers, NEW r \in Runs, TakeJob(w, r) \/ TakeDirect(w, r)
      PROVE  UNCHANGED dispatch
  BY <1>4 DEF TakeJob, TakeDirect
<1>5. ASSUME NEW w \in Workers, WorkerStep(w) \/ MarkAction(w) \/ CrashWorker(w)
      PROVE  UNCHANGED dispatch
  BY <1>5 DEF WorkerStep, MarkAction, CrashWorker, Load, FindDefinition, TurnAnswers, Escape,
     CloseGone, Renew, Close, TurnThrows, Catch, Charge, RefundGone, RefundUncharged,
     RefundFailed, Post, Tell
<1>6. ASSUME NEW p \in Reapers, \/ ReaperStep(p) \/ CrashReaper(p)
                                \/ \E r \in Runs : List(p, r)
      PROVE  UNCHANGED dispatch
  BY <1>6 DEF ReaperStep, Fail, RefundAbandoned, TellInterrupted, CrashReaper, List
<1>7. QED
  BY <1>1, <1>2, <1>3, <1>4, <1>5, <1>6 DEF Next, vars

LEMMA EveryStepQueues == ASSUME TypeOK, RowInv, [Next]_vars PROVE QueuesWithRow
<1> USE DEF QueuesWithRow, queueVars
<1>0. \A w \in Workers : wk[w].pc # "idle" => wk[w].run \in Runs /\ status[wk[w].run] # "none"
  BY DEF RowInv, TypeOK, ProcessesTyped
<1>1. ASSUME NEW r \in Runs, NEW j, job' = [job EXCEPT ![r] = j] \/ job' = job,
             UNCHANGED direct, status[r] # "none" \/ job[r].state # "absent"
      PROVE  QueuesWithRow
  BY <1>1 DEF TypeOK, QueueTyped
<1>2. ASSUME NEW r \in Runs, DispatcherStep(r) \/ CrashDispatch(r) PROVE QueuesWithRow
  <2>1. CASE Enqueue(r)
    BY <2>1 DEF Enqueue, RowInv, TypeOK, QueueTyped
  <2>2. QED
    BY <1>2, <2>1 DEF DispatcherStep, Reserve, Claim, ClaimThrows, RefundUnclaimed, CrashDispatch
<1>3. ASSUME NEW r \in Runs, Lapse(r) \/ RemoveDefinition(r) \/ Stall(r) \/ LoseJob(r)
      PROVE  QueuesWithRow
  BY <1>3 DEF Lapse, RemoveDefinition, Stall, LoseJob, TypeOK, QueueTyped
<1>4. ASSUME NEW w \in Workers, NEW r \in Runs, TakeJob(w, r) \/ TakeDirect(w, r)
      PROVE  QueuesWithRow
  BY <1>4 DEF TakeJob, TakeDirect, TypeOK, QueueTyped
<1>5. ASSUME NEW w \in Workers, WorkerStep(w) \/ MarkAction(w) \/ CrashWorker(w)
      PROVE  QueuesWithRow
  <2>1. CASE UNCHANGED queueVars
    BY <2>1
  <2>2. ASSUME wk[w].pc # "idle", Return(w) \/ Throw(w) PROVE QueuesWithRow
    BY <1>0, <1>1, <2>2 DEF Return, Throw, Release
  <2>3. QED
    BY <1>5, <2>1, <2>2 DEF WorkerStep, MarkAction, CrashWorker, Load, FindDefinition,
       TurnAnswers, Escape, CloseGone, Renew, Close, TurnThrows, Catch, Charge, RefundGone,
       RefundUncharged, RefundFailed, Post, Tell
<1>6. ASSUME NEW p \in Reapers, \/ ReaperStep(p) \/ CrashReaper(p)
                                \/ \E r \in Runs : List(p, r)
      PROVE  QueuesWithRow
  BY <1>6 DEF ReaperStep, Fail, RefundAbandoned, TellInterrupted, CrashReaper, List
<1>7. CASE UNCHANGED vars
  BY <1>7 DEF vars
<1>8. QED
  BY <1>2, <1>3, <1>4, <1>5, <1>6, <1>7 DEF Next

LEMMA EveryStepWorks == ASSUME TypeOK, RowInv, [Next]_vars PROVE WorksOnRow
<1> USE DEF WorksOnRow
<1>1. CASE UNCHANGED wk
  BY <1>1
<1>2. ASSUME NEW w \in Workers, NEW r \in Runs, NEW f, status[r] # "none",
             wk' = [wk EXCEPT ![w] = [pc |-> "load", run |-> r, final |-> f]]
      PROVE  WorksOnRow
  BY <1>2 DEF TypeOK, ProcessesTyped
<1>3. ASSUME NEW w \in Workers, NEW r \in Runs, TakeJob(w, r) \/ TakeDirect(w, r)
      PROVE  WorksOnRow
  <2>1. status[r] # "none"
    BY <1>3 DEF TakeJob, TakeDirect, RowInv, OneRunPerOccurrence
  <2>2. PICK f : wk' = [wk EXCEPT ![w] = [pc |-> "load", run |-> r, final |-> f]]
    BY <1>3 DEF TakeJob, TakeDirect
  <2>3. QED
    BY <1>2, <2>1, <2>2
<1>4. ASSUME NEW w \in Workers, WorkerStep(w) \/ MarkAction(w) \/ CrashWorker(w)
      PROVE  WorksOnRow
  <2>1. CASE MarkAction(w)
    BY <2>1 DEF MarkAction
  <2>2. CASE wk' = [wk EXCEPT ![w] = IdleWorker]
    BY <2>2 DEF IdleWorker, TypeOK, ProcessesTyped
  <2>3. ASSUME NEW pc, Goto(w, pc), wk[w].pc # "idle" PROVE WorksOnRow
    BY <2>3 DEF Goto, TypeOK, ProcessesTyped
  <2>4. CASE WorkerStep(w)
    <3>1. wk[w].pc # "idle" /\ (Return(w) \/ Throw(w) \/ \E pc : Goto(w, pc))
      BY <2>4 DEF WorkerStep, Load, FindDefinition, TurnAnswers, Escape, CloseGone, Renew,
         Close, TurnThrows, Catch, Charge, RefundGone, RefundUncharged, RefundFailed, Post, Tell
    <3>2. QED
      BY <2>2, <2>3, <3>1 DEF Return, Throw
  <2>5. QED
    BY <1>4, <2>1, <2>2, <2>4 DEF CrashWorker
<1>5. ASSUME NEW r \in Runs, \/ DispatcherStep(r) \/ CrashDispatch(r)
                             \/ Lapse(r) \/ RemoveDefinition(r) \/ Stall(r) \/ LoseJob(r)
      PROVE  UNCHANGED wk
  BY <1>5 DEF DispatcherStep, Reserve, Claim, ClaimThrows, RefundUnclaimed, Enqueue,
              CrashDispatch, Lapse, RemoveDefinition, Stall, LoseJob
<1>6. ASSUME NEW p \in Reapers, \/ ReaperStep(p) \/ CrashReaper(p)
                                \/ \E r \in Runs : List(p, r)
      PROVE  UNCHANGED wk
  BY <1>6 DEF ReaperStep, Fail, RefundAbandoned, TellInterrupted, CrashReaper, List
<1>7. QED
  BY <1>1, <1>3, <1>4, <1>5, <1>6 DEF Next, vars

LEMMA RowInvHolds == Spec => []RowInv
<1>1. Init => RowInv
  BY DEF Init, RowInv, OneRunPerOccurrence, IdleWorker, NoJob
<1>2. ASSUME TypeOK, RowInv, [Next]_vars PROVE RowInv'
  <2>1. /\ status \in [Runs -> {"none"} \cup Open \cup Terminal]
        /\ \A w \in Workers : wk[w].pc # "idle" => wk[w].run \in Runs
    BY <1>2 DEF TypeOK, RunsTyped, ProcessesTyped
  <2>2. RowsKept \/ RowInserted
    BY <1>2, EveryStepKeepsRows
  <2>3. \A r \in Runs : status[r] # "none" => status'[r] # "none"
    BY <2>1, <2>2 DEF RowsKept, RowInserted
  <2>4. \A r, o \in Runs :
            KeyOf[r] = KeyOf[o] /\ status'[r] # "none" /\ status'[o] # "none" => r = o
    <3>1. CASE RowsKept
      BY <1>2, <3>1 DEF RowsKept, RowInv, OneRunPerOccurrence
    <3>2. CASE RowInserted
      BY <1>2, <2>1, <3>2 DEF RowInserted, Taken, RowInv, OneRunPerOccurrence
    <3>3. QED
      BY <2>2, <3>1, <3>2
  <2>5. \A r \in Runs : r \in direct' \/ job'[r].state # "absent" => status'[r] # "none"
    BY <1>2, <2>3, EveryStepQueues DEF QueuesWithRow, RowInv, OneRunPerOccurrence
  <2>6. \A r \in Runs : dispatch'[r] = "claimed" => status'[r] # "none"
    BY <1>2, <2>3, EveryStepClaims DEF ClaimsWithRow, RowInv
  <2>7. \A w \in Workers : wk'[w].pc # "idle" => status'[wk'[w].run] # "none"
    BY <1>2, <2>1, <2>3, EveryStepWorks DEF WorksOnRow, RowInv
  <2>8. QED
    BY <2>4, <2>5, <2>6, <2>7 DEF RowInv, OneRunPerOccurrence
<1>3. QED
  BY <1>1, <1>2, TypeCorrect, PTL DEF Spec

\* Of the dispatches that carry one idempotency key at most one has a row, and
\* only a run with a row is ever queued: one occurrence runs at most once, even
\* when replies to commits and whole processes are lost.
THEOREM OccurrencesRunOnce == Spec => []OneRunPerOccurrence
<1>1. RowInv => OneRunPerOccurrence
  BY DEF RowInv
<1>2. QED
  BY RowInvHolds, <1>1, PTL
-----------------------------------------------------------------------------
(* One story of each run: no hypothesis on the faults.                     *)

\* Who closed a run is also the one that will speak of it: a worker with the
\* answer, a worker with the failure, or a sweep.
Answers(w, r)    == wk[w].run = r /\ wk[w].pc \in {"charge", "refundCharge", "post"}
Fails(w, r)      == wk[w].run = r /\ wk[w].pc \in {"refundFailed", "tell"}
Interrupts(p, r) == rp[p].run = r /\ rp[p].pc \in {"refund", "tell"}

Untold(r) == told[r] = {} /\ charges[r] = 0

\* Nothing is said of a run that is not closed, nor before its speaker speaks; ...
UntoldBefore ==
    /\ \A r \in Runs : status[r] \notin Terminal => Untold(r)
    /\ \A w \in Workers, r \in Runs :
           /\ Answers(w, r) => status[r] = "succeeded" /\ told[r] = {}
           /\ Fails(w, r) => status[r] \in Terminal /\ Untold(r)
    /\ \A p \in Reapers, r \in Runs : Interrupts(p, r) => status[r] \in Terminal /\ Untold(r)

Speaks(w, r) == Answers(w, r) \/ Fails(w, r)

\* ... and no two of them speak of one run.
OneSpeaker ==
    /\ \A w, v \in Workers, r \in Runs : Speaks(w, r) /\ Speaks(v, r) => w = v
    /\ \A p, q \in Reapers, r \in Runs : Interrupts(p, r) /\ Interrupts(q, r) => p = q
    /\ \A w \in Workers, p \in Reapers, r \in Runs : ~(Speaks(w, r) /\ Interrupts(p, r))

\* What has been said is one thing, and agrees with the row and the credits.
SaidOnce ==
    \A r \in Runs :
        /\ \E news : told[r] \subseteq {news}
        /\ "answer" \in told[r] => status[r] = "succeeded"
        /\ told[r] \cap {"failure", "interrupted"} # {} => charges[r] = 0

StoryInv == UntoldBefore /\ OneSpeaker /\ SaidOnce

\* The kinds of step this invariant tells apart.  Nobody new becomes a speaker ...
NoNewWorker == \A w \in Workers, r \in Runs :
                   (Answers(w, r)' => Answers(w, r)) /\ (Fails(w, r)' => Fails(w, r))
NoNewSweep  == \A p \in Reapers, r \in Runs : Interrupts(p, r)' => Interrupts(p, r)

\* ... and a closed run stays as it is.
ClosedStays == \A r \in Runs : status[r] \in Terminal => status'[r] = status[r]

Silent == ClosedStays /\ NoNewWorker /\ NoNewSweep /\ UNCHANGED <<charges, told>>

\* A worker closes a run and will speak of it.
SpeakerCloses(w, r) ==
    /\ UNCHANGED <<charges, told, rp>>
    /\ \E s \in Terminal :
           /\ Closes(r, s)
           /\ \A v \in Workers, o \in Runs :
                  /\ Answers(v, o)' => (v = w /\ o = r /\ s = "succeeded") \/ Answers(v, o)
                  /\ Fails(v, o)' => (v = w /\ o = r) \/ Fails(v, o)
    /\ \A o \in Runs : ~(Answers(w, r)' /\ Fails(w, o)')

\* A sweep fails a run and will speak of it.
SweepCloses(p, r) ==
    /\ UNCHANGED <<charges, told, wk>>
    /\ Closes(r, "failed")
    /\ \A q \in Reapers, o \in Runs : Interrupts(q, o)' => (q = p /\ o = r) \/ Interrupts(q, o)

\* A worker with the answer charges the run.
AnswerCharges(w, r) ==
    /\ Answers(w, r)
    /\ charges' = [charges EXCEPT ![r] = @ + 1]
    /\ UNCHANGED <<status, told, rp>>
    /\ NoNewWorker

\* A speaker says its one thing, or nothing, and is done.
WorkerSays(w, r) ==
    /\ \/ Answers(w, r) /\ \E news \in {{}, {"answer"}} : told' = [told EXCEPT ![r] = @ \cup news]
       \/ Fails(w, r) /\ \E news \in {{}, {"failure"}} : told' = [told EXCEPT ![r] = @ \cup news]
    /\ UNCHANGED <<status, charges, rp>>
    /\ NoNewWorker
    /\ \A o \in Runs : ~Speaks(w, o)'

SweepSays(p, r) ==
    /\ Interrupts(p, r)
    /\ \E news \in {{}, {"interrupted"}} : told' = [told EXCEPT ![r] = @ \cup news]
    /\ UNCHANGED <<status, charges, wk>>
    /\ NoNewSweep
    /\ \A o \in Runs : ~Interrupts(p, o)'

StoryStep ==
    \/ Silent
    \/ \E w \in Workers, r \in Runs :
           SpeakerCloses(w, r) \/ AnswerCharges(w, r) \/ WorkerSays(w, r)
    \/ \E p \in Reapers, r \in Runs : SweepCloses(p, r) \/ SweepSays(p, r)

\* Each kind preserves the invariant.
LEMMA StoryStepPreserves == TypeOK /\ StoryInv /\ StoryStep => StoryInv'
<1> SUFFICES ASSUME TypeOK, StoryInv, StoryStep PROVE StoryInv'
  OBVIOUS
<1>0. /\ status \in [Runs -> {"none"} \cup Open \cup Terminal]
      /\ charges \in [Runs -> Nat]
      /\ told \in [Runs -> SUBSET {"answer", "failure", "interrupted"}]
  BY DEF TypeOK, RunsTyped, MoneyTyped
<1> USE DEF StoryInv, UntoldBefore, OneSpeaker, Speaks, Untold
<1>1. CASE Silent
  <2>1. UntoldBefore' /\ OneSpeaker'
    BY <1>1 DEF Silent, ClosedStays, NoNewWorker, NoNewSweep, Terminal
  <2>2. SaidOnce'
    BY <1>1 DEF SaidOnce, Silent, ClosedStays
  <2>3. QED
    BY <2>1, <2>2
<1>2. ASSUME NEW w \in Workers, NEW r \in Runs, SpeakerCloses(w, r) PROVE StoryInv'
  <2>1. PICK s \in Terminal :
            /\ Closes(r, s)
            /\ \A v \in Workers, o \in Runs :
                   /\ Answers(v, o)' => (v = w /\ o = r /\ s = "succeeded") \/ Answers(v, o)
                   /\ Fails(v, o)' => (v = w /\ o = r) \/ Fails(v, o)
    BY <1>2 DEF SpeakerCloses
  <2>2. /\ status' = [status EXCEPT ![r] = s] /\ status[r] \notin Terminal
        /\ UNCHANGED <<charges, told>>
    BY <1>2, <2>1 DEF SpeakerCloses, Closes, Open, Terminal
  <2>3. \A p \in Reapers, o \in Runs : Interrupts(p, o)' <=> Interrupts(p, o)
    BY <1>2 DEF SpeakerCloses, Interrupts
  <2>4. ~(\E v \in Workers : Speaks(v, r)) /\ ~(\E p \in Reapers : Interrupts(p, r))
    BY <2>2 DEF Terminal
  <2>5. UntoldBefore'
    BY <1>0, <2>1, <2>2, <2>3, <2>4 DEF Terminal
  <2>6. OneSpeaker'
    BY <2>1, <2>3, <2>4
  <2>7. SaidOnce'
    BY <1>0, <2>2 DEF SaidOnce
  <2>8. QED
    BY <2>5, <2>6, <2>7
<1>3. ASSUME NEW w \in Workers, NEW r \in Runs, AnswerCharges(w, r) PROVE StoryInv'
  <2>1. \A p \in Reapers, o \in Runs : Interrupts(p, o)' <=> Interrupts(p, o)
    BY <1>3 DEF AnswerCharges, Interrupts
  <2>2. /\ status[r] = "succeeded" /\ told[r] = {}
        /\ UNCHANGED <<status, told>>
        /\ \A o \in Runs \ {r} : charges'[o] = charges[o]
        /\ \A v \in Workers : ~Fails(v, r)
        /\ \A p \in Reapers : ~Interrupts(p, r)
    <3>1. \A v \in Workers : Fails(v, r) => v = w
      BY <1>3 DEF AnswerCharges
    <3>2. ~Fails(w, r)
      BY <1>3 DEF AnswerCharges, Answers, Fails
    <3>3. QED
      BY <1>0, <1>3, <3>1, <3>2 DEF AnswerCharges
  <2>3. UntoldBefore' /\ OneSpeaker'
    BY <1>3, <2>1, <2>2 DEF AnswerCharges, NoNewWorker, Terminal
  <2>4. SaidOnce'
    BY <2>2 DEF SaidOnce
  <2>5. QED
    BY <2>3, <2>4
<1>4. ASSUME NEW w \in Workers, NEW r \in Runs, WorkerSays(w, r) PROVE StoryInv'
  <2>1. \A p \in Reapers, o \in Runs : Interrupts(p, o)' <=> Interrupts(p, o)
    BY <1>4 DEF WorkerSays, Interrupts
  <2>2. /\ Speaks(w, r) /\ told[r] = {} /\ status[r] \in Terminal
        /\ UNCHANGED <<status, charges>>
        /\ \A o \in Runs \ {r} : told'[o] = told[o]
    BY <1>0, <1>4 DEF WorkerSays, Terminal
  <2>3. /\ \A v \in Workers : ~Speaks(v, r)'
        /\ \A p \in Reapers : ~Interrupts(p, r)'
    BY <1>4, <2>1, <2>2 DEF WorkerSays, NoNewWorker
  <2>4. UntoldBefore' /\ OneSpeaker'
    BY <1>4, <2>1, <2>2, <2>3 DEF WorkerSays, NoNewWorker
  <2>5. \/ told'[r] \in {{}, {"answer"}} /\ status[r] = "succeeded"
        \/ told'[r] \in {{}, {"failure"}} /\ charges[r] = 0
    BY <1>0, <1>4, <2>2 DEF WorkerSays
  <2>6. SaidOnce'
    BY <2>2, <2>5 DEF SaidOnce
  <2>7. QED
    BY <2>4, <2>6
<1>5. ASSUME NEW p \in Reapers, NEW r \in Runs, SweepCloses(p, r) PROVE StoryInv'
  <2>1. \A w \in Workers, o \in Runs :
            (Answers(w, o)' <=> Answers(w, o)) /\ (Fails(w, o)' <=> Fails(w, o))
    BY <1>5 DEF SweepCloses, Answers, Fails
  <2>2. /\ status' = [status EXCEPT ![r] = "failed"] /\ status[r] \notin Terminal
        /\ UNCHANGED <<charges, told>>
    BY <1>5 DEF SweepCloses, Closes, Open, Terminal
  <2>3. ~(\E v \in Workers : Speaks(v, r)) /\ ~(\E q \in Reapers : Interrupts(q, r))
    BY <2>2 DEF Terminal
  <2>4. UntoldBefore'
    BY <1>0, <1>5, <2>1, <2>2, <2>3 DEF SweepCloses, Terminal
  <2>5. OneSpeaker'
    BY <1>5, <2>1, <2>3 DEF SweepCloses
  <2>6. SaidOnce'
    BY <1>0, <2>2 DEF SaidOnce
  <2>7. QED
    BY <2>4, <2>5, <2>6
<1>6. ASSUME NEW p \in Reapers, NEW r \in Runs, SweepSays(p, r) PROVE StoryInv'
  <2>1. \A w \in Workers, o \in Runs :
            (Answers(w, o)' <=> Answers(w, o)) /\ (Fails(w, o)' <=> Fails(w, o))
    BY <1>6 DEF SweepSays, Answers, Fails
  <2>2. /\ Interrupts(p, r) /\ told[r] = {} /\ charges[r] = 0 /\ status[r] \in Terminal
        /\ UNCHANGED <<status, charges>>
        /\ \A o \in Runs \ {r} : told'[o] = told[o]
        /\ told'[r] \in {{}, {"interrupted"}}
    BY <1>0, <1>6 DEF SweepSays
  <2>3. /\ \A v \in Workers : ~Speaks(v, r)'
        /\ \A q \in Reapers : ~Interrupts(q, r)'
    BY <1>6, <2>1, <2>2 DEF SweepSays, NoNewSweep
  <2>4. UntoldBefore' /\ OneSpeaker'
    BY <1>6, <2>1, <2>2, <2>3 DEF SweepSays, NoNewSweep
  <2>5. SaidOnce'
    BY <2>2 DEF SaidOnce
  <2>6. QED
    BY <2>4, <2>5
<1>7. QED
  BY <1>1, <1>2, <1>3, <1>4, <1>5, <1>6 DEF StoryStep

\* Where a process is that has closed nothing yet.
StartPcs == {"idle", "load", "fail"}

\* A worker that moves on speaks of its own run at most, and only from the
\* statement it reaches; one that returns or throws speaks of none.
LEMMA GotoSpeaks ==
    ASSUME TypeOK, NEW w \in Workers, NEW pc, Goto(w, pc)
    PROVE  \A v \in Workers, o \in Runs :
               /\ Answers(v, o)' <=> \/ v = w /\ o = wk[w].run
                                        /\ pc \in {"charge", "refundCharge", "post"}
                                     \/ v # w /\ Answers(v, o)
               /\ Fails(v, o)' <=> \/ v = w /\ o = wk[w].run /\ pc \in {"refundFailed", "tell"}
                                   \/ v # w /\ Fails(v, o)
  BY DEF TypeOK, ProcessesTyped, Goto, Answers, Fails

LEMMA LeaverIsSilent ==
    ASSUME TypeOK, NEW w \in Workers, NEW k, k.pc \in StartPcs,
           wk' = [wk EXCEPT ![w] = k]
    PROVE  /\ NoNewWorker
           /\ \A o \in Runs : ~Speaks(w, o)'
  BY DEF TypeOK, ProcessesTyped, NoNewWorker, Speaks, Answers, Fails, StartPcs

LEMMA EveryStepTells == ASSUME TypeOK, [Next]_vars PROVE StoryStep
<1> USE DEF rowVars, moneyVars
<1>0. status \in [Runs -> {"none"} \cup Open \cup Terminal]
  BY DEF TypeOK, RunsTyped
<1>a. UNCHANGED wk => NoNewWorker
  BY DEF NoNewWorker, Answers, Fails
<1>b. UNCHANGED rp => NoNewSweep
  BY DEF NoNewSweep, Interrupts
<1>c. UNCHANGED status => ClosedStays
  BY DEF ClosedStays
<1>1. ASSUME NEW r \in Runs, DispatcherStep(r) \/ CrashDispatch(r) PROVE StoryStep
  <2>1. UNCHANGED <<wk, rp, told, charges>>
    BY <1>1 DEF DispatcherStep, Reserve, Claim, ClaimThrows, RefundUnclaimed, Enqueue,
                CrashDispatch, GiveBack
  <2>2. ASSUME InsertRow(r) PROVE ClosedStays
    BY <1>0, <2>2 DEF InsertRow, Taken, ClosedStays, Terminal
  <2>3. ClosedStays
    BY <1>1, <1>c, <2>2 DEF DispatcherStep, Reserve, Claim, ClaimThrows, RefundUnclaimed,
       Enqueue, CrashDispatch
  <2>4. QED
    BY <1>a, <1>b, <2>1, <2>3 DEF Silent, StoryStep
<1>2. ASSUME NEW r \in Runs, Lapse(r) \/ RemoveDefinition(r) \/ Stall(r) \/ LoseJob(r)
      PROVE  StoryStep
  BY <1>2, <1>a, <1>b, <1>c DEF Lapse, RemoveDefinition, Stall, LoseJob, Silent, StoryStep
<1>3. ASSUME NEW w \in Workers, \/ MarkAction(w) \/ CrashWorker(w)
                                \/ \E r \in Runs : TakeJob(w, r) \/ TakeDirect(w, r)
      PROVE  StoryStep
  <2>1. UNCHANGED <<status, told, charges, rp>>
    BY <1>3 DEF MarkAction, CrashWorker, TakeJob, TakeDirect
  <2>2. NoNewWorker
    <3>1. ASSUME NEW k, k.pc \in StartPcs, wk' = [wk EXCEPT ![w] = k]
          PROVE  NoNewWorker
      BY <3>1, LeaverIsSilent
    <3>2. CASE MarkAction(w)
      BY <1>a, <3>2 DEF MarkAction
    <3>3. CASE CrashWorker(w)
      <4>1. IdleWorker.pc \in StartPcs
        BY DEF IdleWorker, StartPcs
      <4>2. QED
        BY <3>1, <3>3, <4>1 DEF CrashWorker
    <3>4. ASSUME NEW r \in Runs, TakeJob(w, r) \/ TakeDirect(w, r) PROVE NoNewWorker
      <4>1. PICK f : wk' = [wk EXCEPT ![w] = [pc |-> "load", run |-> r, final |-> f]]
        BY <3>4 DEF TakeJob, TakeDirect
      <4> DEFINE k == [pc |-> "load", run |-> r, final |-> f]
      <4>2. k.pc \in StartPcs /\ wk' = [wk EXCEPT ![w] = k]
        BY <4>1 DEF StartPcs
      <4> HIDE DEF k
      <4>3. QED
        BY <3>1, <4>2
    <3>5. QED
      BY <1>3, <3>2, <3>3, <3>4
  <2>3. QED
    BY <1>b, <1>c, <2>1, <2>2 DEF Silent, StoryStep
<1>4. ASSUME NEW w \in Workers, WorkerStep(w) PROVE StoryStep
  <2> DEFINE r == wk[w].run
  <2>0. r \in Runs /\ UNCHANGED <<rp, dispatch>>
    BY <1>4 DEF WorkerStep, Load, FindDefinition, TurnAnswers, Escape, CloseGone, Renew, Close,
       TurnThrows, Catch, Charge, RefundGone, RefundUncharged, RefundFailed, Post, Tell,
       TypeOK, ProcessesTyped
  <2> HIDE DEF r
  <2>1. ASSUME Return(w) \/ Throw(w)
        PROVE  NoNewWorker /\ \A o \in Runs : ~Speaks(w, o)'
    <3>1. wk' = [wk EXCEPT ![w] = IdleWorker] /\ IdleWorker.pc \in StartPcs
      BY <2>1 DEF Return, Throw, IdleWorker, StartPcs
    <3>2. QED
      BY <3>1, LeaverIsSilent
  <2>2. ASSUME NoNewWorker, ClosedStays, UNCHANGED <<charges, told>> PROVE StoryStep
    BY <1>b, <2>0, <2>2 DEF Silent, StoryStep
  <2>3. ASSUME NEW pc \in WorkerPcs, Goto(w, pc),
               pc \in {"charge", "refundCharge", "post"} => Answers(w, r),
               pc \in {"refundFailed", "tell"} => Fails(w, r)
        PROVE  NoNewWorker
    BY <2>3, GotoSpeaks DEF NoNewWorker, r
  <2>4. CASE \/ Load(w) \/ FindDefinition(w) \/ TurnAnswers(w) \/ Escape(w)
    <3>1. UNCHANGED <<status, charges, told>>
      BY <2>4 DEF Load, FindDefinition, TurnAnswers, Escape
    <3>2. \/ Return(w) \/ Throw(w)
          \/ \E pc \in {"definition", "renew", "closeGone", "close"} : Goto(w, pc)
      BY <2>4 DEF Load, FindDefinition, TurnAnswers, Escape
    <3>3. NoNewWorker
      BY <2>1, <2>3, <3>2 DEF WorkerPcs
    <3>4. QED
      BY <1>c, <2>2, <3>1, <3>3
  <2>5. CASE CloseGone(w)
    <3>1. UNCHANGED <<charges, told>>
      BY <2>5 DEF CloseGone
    <3>2. CASE CloseRow(r, "failed") /\ Goto(w, "refundGone")
      <4>1. ClosedStays
        BY <1>0, <2>0, <3>2 DEF CloseRow, ClosedStays, Open, Terminal
      <4>2. QED
        BY <2>2, <2>3, <3>1, <3>2, <4>1 DEF WorkerPcs
    <3>3. CASE Return(w) /\ UNCHANGED rowVars
      BY <1>c, <2>1, <2>2, <3>1, <3>3
    <3>4. QED
      BY <2>5, <3>2, <3>3 DEF CloseGone, r
  <2>6. CASE Renew(w)
    <3>1. UNCHANGED <<charges, told>>
      BY <2>6 DEF Renew
    <3>2. CASE RenewRow(r) /\ Goto(w, "turn")
      <4>1. ClosedStays
        BY <1>0, <2>0, <3>2 DEF RenewRow, ClosedStays, Open, Terminal
      <4>2. QED
        BY <2>2, <2>3, <3>1, <3>2, <4>1 DEF WorkerPcs
    <3>3. CASE Return(w) /\ UNCHANGED rowVars
      BY <1>c, <2>1, <2>2, <3>1, <3>3
    <3>4. QED
      BY <2>6, <3>2, <3>3 DEF Renew, r
  <2>7. CASE TurnThrows(w)
    <3>1. UNCHANGED <<charges, told>> /\ Goto(w, "catch")
      BY <2>7 DEF TurnThrows
    <3>2. ClosedStays
      <4>1. CASE UNCHANGED rowVars
        BY <1>c, <4>1
      <4>2. CASE CloseRow(r, "succeeded")
        BY <1>0, <2>0, <4>2 DEF CloseRow, ClosedStays, Open, Terminal
      <4>3. QED
        BY <2>7, <4>1, <4>2 DEF TurnThrows, r
    <3>3. QED
      BY <2>2, <2>3, <3>1, <3>2 DEF WorkerPcs
  <2>8. ASSUME NEW s \in Terminal, NEW pc, CloseRow(r, s), Goto(w, pc),
               UNCHANGED <<charges, refunds, told>>,
               pc \in {"charge", "refundCharge", "post"} => s = "succeeded"
        PROVE  StoryStep
    <3>1. Closes(r, s)
      BY <2>0, <2>8 DEF Closes, CloseRow
    <3>2. \A v \in Workers, o \in Runs :
              /\ Answers(v, o)' => (v = w /\ o = r /\ s = "succeeded") \/ Answers(v, o)
              /\ Fails(v, o)' => (v = w /\ o = r) \/ Fails(v, o)
      BY <2>8, GotoSpeaks DEF r
    <3>3. \A o \in Runs : ~(Answers(w, r)' /\ Fails(w, o)')
      BY DEF Answers, Fails
    <3>4. SpeakerCloses(w, r)
      BY <2>0, <2>8, <3>1, <3>2, <3>3 DEF SpeakerCloses
    <3>5. QED
      BY <2>0, <3>4 DEF StoryStep
  <2>9. CASE Close(w)
    <3>1. UNCHANGED <<charges, refunds, told>>
      BY <2>9 DEF Close
    <3>2. CASE CloseRow(r, "succeeded") /\ Goto(w, "charge")
      BY <2>8, <3>1, <3>2 DEF Terminal
    <3>3. CASE Return(w) /\ UNCHANGED rowVars
      BY <1>c, <2>1, <2>2, <3>1, <3>3
    <3>4. QED
      BY <2>9, <3>2, <3>3 DEF Close, r
  <2>10. CASE Catch(w)
    <3>1. UNCHANGED <<charges, refunds, told>>
      BY <2>10 DEF Catch
    <3>2. CASE CloseRow(r, "failed") /\ Goto(w, "refundFailed")
      BY <2>8, <3>1, <3>2 DEF Terminal
    <3>3. CASE Throw(w) /\ UNCHANGED rowVars
      BY <1>c, <2>1, <2>2, <3>1, <3>3
    <3>4. QED
      BY <2>10, <3>2, <3>3 DEF Catch, r
  <2>11. CASE Charge(w)
    <3>1. Answers(w, r) /\ UNCHANGED <<status, told>>
      BY <2>11 DEF Charge, Answers, r
    <3>2. PICK pc \in {"post", "refundCharge"} : Goto(w, pc)
      BY <2>11 DEF Charge
    <3>3. NoNewWorker
      BY <2>3, <3>1, <3>2 DEF WorkerPcs
    <3>4. CASE charges' = [charges EXCEPT ![r] = @ + 1]
      BY <2>0, <3>1, <3>3, <3>4 DEF AnswerCharges, StoryStep
    <3>5. CASE UNCHANGED charges
      BY <1>c, <2>2, <3>1, <3>3, <3>5
    <3>6. QED
      BY <2>11, <3>4, <3>5 DEF Charge, r
  <2>12. CASE RefundGone(w) \/ RefundUncharged(w) \/ RefundFailed(w)
    <3>1. UNCHANGED <<status, charges, told>>
      BY <2>12 DEF RefundGone, RefundUncharged, RefundFailed, GiveBack
    <3>2. \/ Return(w)
          \/ Goto(w, "post") /\ Answers(w, r)
          \/ Goto(w, "tell") /\ Fails(w, r)
      BY <2>12 DEF RefundGone, RefundUncharged, RefundFailed, Answers, Fails, r
    <3>3. NoNewWorker
      BY <2>1, <2>3, <3>2 DEF WorkerPcs
    <3>4. QED
      BY <1>c, <2>2, <3>1, <3>3
  <2>13. CASE Post(w) \/ Tell(w)
    <3>1. UNCHANGED <<status, charges>> /\ (Return(w) \/ Throw(w))
      BY <2>13 DEF Post, Tell
    <3>2. \/ /\ Answers(w, r)
             /\ \E news \in {{}, {"answer"}} : told' = [told EXCEPT ![r] = @ \cup news]
          \/ /\ Fails(w, r)
             /\ \E news \in {{}, {"failure"}} : told' = [told EXCEPT ![r] = @ \cup news]
      BY <2>13 DEF Post, Tell, Answers, Fails, r
    <3>3. WorkerSays(w, r)
      BY <2>0, <2>1, <3>1, <3>2 DEF WorkerSays
    <3>4. QED
      BY <2>0, <3>3 DEF StoryStep
  <2>14. QED
    BY <1>4, <2>4, <2>5, <2>6, <2>7, <2>9, <2>10, <2>11, <2>12, <2>13 DEF WorkerStep
<1>5. ASSUME NEW p \in Reapers, \/ ReaperStep(p) \/ CrashReaper(p)
                                \/ \E r \in Runs : List(p, r)
      PROVE  StoryStep
  <2> DEFINE r == rp[p].run
  <2>0. UNCHANGED <<wk, dispatch>>
    BY <1>5 DEF ReaperStep, Fail, RefundAbandoned, TellInterrupted, CrashReaper, List
  <2>1. ASSUME NEW k, k.pc \in StartPcs, rp' = [rp EXCEPT ![p] = k]
        PROVE  NoNewSweep /\ \A o \in Runs : ~Interrupts(p, o)'
    BY <2>1 DEF TypeOK, ProcessesTyped, NoNewSweep, Interrupts, StartPcs
  <2>2. ASSUME rp' = [rp EXCEPT ![p] = IdleReaper]
        PROVE  NoNewSweep /\ \A o \in Runs : ~Interrupts(p, o)'
    <3>1. IdleReaper.pc \in StartPcs
      BY DEF IdleReaper, StartPcs
    <3>2. QED
      BY <2>1, <2>2, <3>1
  <2>3. ASSUME NoNewSweep, UNCHANGED <<status, charges, told>> PROVE StoryStep
    BY <1>a, <1>c, <2>0, <2>3 DEF Silent, StoryStep
  <2>4. rp[p].pc # "idle" => r \in Runs
    BY DEF TypeOK, ProcessesTyped
  <2> HIDE DEF r
  <2>5. CASE Fail(p)
    <3>1. UNCHANGED <<charges, refunds, told>> /\ r \in Runs
      BY <2>4, <2>5 DEF Fail
    <3>2. CASE FailAbandonedRow(r) /\ rp' = [rp EXCEPT ![p].pc = "refund"]
      <4>1. Closes(r, "failed")
        BY <2>0, <3>1, <3>2 DEF Closes, FailAbandonedRow, Terminal
      <4>2. \A q \in Reapers, o \in Runs :
                Interrupts(q, o)' => (q = p /\ o = r) \/ Interrupts(q, o)
        BY <3>2 DEF TypeOK, ProcessesTyped, Interrupts, r
      <4>3. QED
        BY <2>0, <3>1, <4>1, <4>2 DEF SweepCloses, StoryStep
    <3>3. CASE rp' = [rp EXCEPT ![p] = IdleReaper] /\ UNCHANGED rowVars
      BY <2>2, <2>3, <3>1, <3>3
    <3>4. QED
      BY <2>5, <3>2, <3>3 DEF Fail, r
  <2>6. CASE RefundAbandoned(p)
    <3>1. UNCHANGED <<status, charges, told>>
      BY <2>6 DEF RefundAbandoned, GiveBack
    <3>2. rp' = [rp EXCEPT ![p].pc = "tell"] /\ rp[p].pc = "refund"
      BY <2>6 DEF RefundAbandoned
    <3>3. NoNewSweep
      BY <3>2 DEF TypeOK, ProcessesTyped, NoNewSweep, Interrupts
    <3>4. QED
      BY <2>3, <3>1, <3>3
  <2>7. CASE TellInterrupted(p)
    <3>1. SweepSays(p, r)
      BY <2>0, <2>2, <2>7 DEF TellInterrupted, SweepSays, Interrupts, r
    <3>2. QED
      BY <2>4, <2>7, <3>1 DEF TellInterrupted, StoryStep
  <2>8. CASE CrashReaper(p)
    BY <2>2, <2>3, <2>8 DEF CrashReaper
  <2>9. ASSUME NEW o \in Runs, List(p, o) PROVE StoryStep
    <3>1. rp' = [rp EXCEPT ![p] = [pc |-> "fail", run |-> o]]
      BY <2>9 DEF List
    <3> DEFINE k == [pc |-> "fail", run |-> o]
    <3>2. k.pc \in StartPcs /\ rp' = [rp EXCEPT ![p] = k]
      BY <3>1 DEF StartPcs
    <3> HIDE DEF k
    <3>3. NoNewSweep
      BY <2>1, <3>2
    <3>4. QED
      BY <2>3, <2>9, <3>3 DEF List
  <2>10. QED
    BY <1>5, <2>5, <2>6, <2>7, <2>8, <2>9 DEF ReaperStep
<1>6. CASE UNCHANGED vars
  BY <1>6, <1>a, <1>b, <1>c DEF vars, Silent, StoryStep
<1>7. QED
  BY <1>1, <1>2, <1>3, <1>4, <1>5, <1>6 DEF Next

\* What the person is told of a run matches its row and its credits: one
\* account of each run, the answer only of a run recorded as succeeded, and a
\* failure or an interruption never of a run whose hold was charged, whatever
\* crashes, redeliveries, retries, lost refunds and lost replies happen.
THEOREM TellsOneStory == Spec => []OneStory
<1>1. Init => StoryInv
  BY DEF Init, StoryInv, UntoldBefore, OneSpeaker, SaidOnce, Speaks, Answers, Fails,
         Interrupts, Untold, Terminal, IdleWorker, IdleReaper
<1>2. TypeOK /\ StoryInv /\ [Next]_vars => StoryInv'
  BY EveryStepTells, StoryStepPreserves
<1>3. StoryInv => OneStory
  <2> SUFFICES ASSUME StoryInv, NEW r \in Runs PROVE Cardinality(told[r]) <= 1
    BY DEF StoryInv, SaidOnce, OneStory
  <2>1. PICK news : told[r] \subseteq {news}
    BY DEF StoryInv, SaidOnce
  <2>2. told[r] = {} \/ told[r] = {news}
    BY <2>1
  <2>3. QED
    BY <2>2, FS_EmptySet, FS_Singleton
<1>4. QED
  BY <1>1, <1>2, <1>3, TypeCorrect, PTL DEF Spec
=============================================================================
