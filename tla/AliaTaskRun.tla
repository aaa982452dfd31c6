---------------------------- MODULE AliaTaskRun ----------------------------
(***************************************************************************)
(* A scheduled task that Alia carries out herself, from the dispatch that  *)
(* holds the owner's credits to the settlement of that hold.               *)
(*                                                                         *)
(*   dispatcher  lib/automation-dispatcher.ts   one per element of Runs    *)
(*   queue       lib/alia-task-queue.ts (BullMQ on Redis, external)        *)
(*   worker      lib/alia-task-run.ts           the executions of the job  *)
(*   reaper      lib/alia-task-reaper.ts        one sweep per API process  *)
(*   rows        db/automation/automationDefinitionRepository.ts           *)
(*                                                                         *)
(* A run is named by the id its dispatch generates; two dispatches of one  *)
(* occurrence carry the same idempotency key and only one inserts its row. *)
(* One action is one database statement or transaction, or one call of the *)
(* queue, so everything the processes can do between two of them happens.  *)
(***************************************************************************)
EXTENDS Naturals, FiniteSets

CONSTANTS
    Runs,      \* run ids, one per dispatch
    Keys,      \* idempotency keys, one per occurrence
    KeyOf,     \* the key each dispatch carries
    Workers,   \* concurrent executions of runAliaTask
    Reapers,   \* processes sweeping for abandoned runs
    Attempts,  \* ATTEMPTS of the queue
    MaxStalls, \* how often the queue redelivers a job it believes stalled
    Faults,    \* the rarer faults switched on, see FaultKinds
    NoRun, NoWorker

FaultKinds == {"lostReply", "lostRefund", "crashSettling", "crashHolding"}

ASSUME RunAssumption ==
    /\ KeyOf \in [Runs -> Keys]
    /\ Attempts \in Nat \ {0}
    /\ MaxStalls \in Nat
    /\ Faults \subseteq FaultKinds
    /\ NoRun \notin Runs
    /\ NoWorker \notin Workers

VARIABLES
    dispatch,  \* where each dispatch is
    status,    \* automation_runs.status, "none" without a row
    stale,     \* the time half of the abandoned predicate holds of the row
    action,    \* status of the run's declared action step
    known,     \* the runs whose automation definition still exists
    charges, refunds,  \* how often the hold was charged, given back
    told,      \* what the person was told of the run
    job,       \* the queue's job of each run
    direct,    \* runs to be executed in-process, without the queue
    wk,        \* the workers
    rp         \* the reapers

vars == <<dispatch, status, stale, action, known, charges, refunds, told,
          job, direct, wk, rp>>

rowVars    == <<status, stale, action, known>>
moneyVars  == <<charges, refunds>>
queueVars  == <<job, direct>>

Open     == {"planned", "running"}
Terminal == {"succeeded", "failed"}

DispatchPcs == {"idle", "denied", "reserved", "unclaimed", "claimed", "done", "crashed"}
WorkerPcs   == {"idle", "load", "definition", "closeGone", "renew", "turn", "close",
                "charge", "refundCharge", "refundGone", "refundFailed", "catch",
                "post", "tell"}
ReaperPcs   == {"idle", "fail", "refund", "tell"}

IdleWorker == [pc |-> "idle", run |-> NoRun, final |-> FALSE]
IdleReaper == [pc |-> "idle", run |-> NoRun]
NoJob      == [state |-> "absent", made |-> 0, stalls |-> 0, by |-> NoWorker]

Init ==
    /\ dispatch = [r \in Runs |-> "idle"]
    /\ status   = [r \in Runs |-> "none"]
    /\ stale    = [r \in Runs |-> FALSE]
    /\ action   = [r \in Runs |-> "planned"]
    /\ known    = Runs
    /\ charges  = [r \in Runs |-> 0]
    /\ refunds  = [r \in Runs |-> 0]
    /\ told     = [r \in Runs |-> {}]
    /\ job      = [r \in Runs |-> NoJob]
    /\ direct   = {}
    /\ wk       = [w \in Workers |-> IdleWorker]
    /\ rp       = [p \in Reapers |-> IdleReaper]

-----------------------------------------------------------------------------
(* The rows.                                                               *)

\* markAliaAutomationRun(..., 'succeeded' | 'failed') when the row is open:
\* declared actions never started are cancelled with it.
CloseRow(r, s) ==
    /\ status[r] \in Open
    /\ status' = [status EXCEPT ![r] = s]
    /\ stale'  = [stale EXCEPT ![r] = FALSE]
    /\ action' = [action EXCEPT ![r] = IF @ = "planned" THEN "cancelled" ELSE @]
    /\ UNCHANGED known

\* markAliaAutomationRun(..., 'running', lease): takes or renews the lease.
RenewRow(r) ==
    /\ status[r] \in Open
    /\ status' = [status EXCEPT ![r] = "running"]
    /\ stale'  = [stale EXCEPT ![r] = FALSE]
    /\ UNCHANGED <<action, known>>

\* Slip: the sweep fails every run it listed, without the predicate.
FailListedRow(r) ==
    /\ status' = [status EXCEPT ![r] = "failed"]
    /\ UNCHANGED <<stale, action, known>>

\* failAbandonedAliaRun: the same predicate that listed the run, re-checked.
FailAbandonedRow(r) ==
    /\ status[r] \in Open
    /\ stale[r]
    /\ status' = [status EXCEPT ![r] = "failed"]
    /\ stale'  = [stale EXCEPT ![r] = FALSE]
    /\ action' = [action EXCEPT ![r] = IF @ \in Open THEN "failed" ELSE @]
    /\ UNCHANGED known

\* Time passes: the lease lapses, or the pick-up grace of a planned run ends.
Lapse(r) ==
    /\ status[r] \in Open
    /\ ~stale[r]
    /\ stale' = [stale EXCEPT ![r] = TRUE]
    /\ UNCHANGED <<dispatch, status, action, known, moneyVars, told, queueVars, wk, rp>>

\* The definition row disappears: nothing in the API deletes one, but the
\* worker checks for it and the schema cascades its deletion.
RemoveDefinition(r) ==
    /\ r \in known
    /\ status[r] \in Open
    /\ known' = known \ {r}
    /\ UNCHANGED <<dispatch, status, stale, action, moneyVars, told, queueVars, wk, rp>>

-----------------------------------------------------------------------------
(* The dispatcher: dispatchAliaTask.                                       *)

Reserve(r) ==
    /\ dispatch[r] = "idle"
    /\ \E to \in {"reserved", "denied"} : dispatch' = [dispatch EXCEPT ![r] = to]
    /\ UNCHANGED <<rowVars, moneyVars, told, queueVars, wk, rp>>

Taken(r) == \E o \in Runs : KeyOf[o] = KeyOf[r] /\ status[o] # "none"

\* Slip: no unique idempotency key.
InsertDuplicate(r) ==
    /\ status' = [status EXCEPT ![r] = "planned"]
    /\ UNCHANGED <<stale, action, known>>

InsertRow(r) ==
    /\ ~Taken(r)
    /\ status' = [status EXCEPT ![r] = "planned"]
    /\ UNCHANGED <<stale, action, known>>

Claim(r) ==
    /\ dispatch[r] = "reserved"
    /\ \/ /\ InsertRow(r)
          /\ dispatch' = [dispatch EXCEPT ![r] = "claimed"]
       \/ /\ Taken(r)                              \* on conflict do nothing
          /\ dispatch' = [dispatch EXCEPT ![r] = "unclaimed"]
          /\ UNCHANGED rowVars
    /\ UNCHANGED <<moneyVars, told, queueVars, wk, rp>>

\* claimHoldingCredits sees the transaction throw: a lost connection, or a
\* one-off task that could not be disabled.  With "lostReply" the connection
\* may also be lost after the database committed.
ClaimThrows(r) ==
    /\ dispatch[r] = "reserved"
    /\ \/ UNCHANGED rowVars
       \/ "lostReply" \in Faults /\ InsertRow(r)
    /\ dispatch' = [dispatch EXCEPT ![r] = "unclaimed"]
    /\ UNCHANGED <<moneyVars, told, queueVars, wk, rp>>

GiveBack(r) ==
    \/ refunds' = [refunds EXCEPT ![r] = @ + 1] /\ UNCHANGED charges
    \/ "lostRefund" \in Faults /\ UNCHANGED moneyVars   \* safeRefund swallows it

\* safeRefund after a duplicate or a failed claim.
RefundUnclaimed(r) ==
    /\ dispatch[r] = "unclaimed"
    /\ GiveBack(r)
    /\ dispatch' = [dispatch EXCEPT ![r] = "done"]
    /\ UNCHANGED <<rowVars, told, queueVars, wk, rp>>

\* enqueueAliaTask: on the queue (deduplicated by run id), or in-process when
\* Redis refuses, or both when Redis took the job and its answer was lost.
Enqueue(r) ==
    /\ dispatch[r] = "claimed"
    /\ dispatch' = [dispatch EXCEPT ![r] = "done"]
    /\ \E queued, inProcess \in BOOLEAN :
        /\ queued \/ inProcess
        /\ job' = IF queued THEN [job EXCEPT ![r].state = "waiting"] ELSE job
        /\ direct' = IF inProcess THEN direct \cup {r} ELSE direct
    /\ UNCHANGED <<rowVars, moneyVars, told, wk, rp>>

CrashDispatch(r) ==
    /\ \/ dispatch[r] = "claimed"
       \/ "crashHolding" \in Faults /\ dispatch[r] \in {"reserved", "unclaimed"}
    /\ dispatch' = [dispatch EXCEPT ![r] = "crashed"]
    /\ UNCHANGED <<rowVars, moneyVars, told, queueVars, wk, rp>>

DispatcherStep(r) ==
    Reserve(r) \/ Claim(r) \/ ClaimThrows(r) \/ RefundUnclaimed(r) \/ Enqueue(r)

-----------------------------------------------------------------------------
(* The queue.                                                              *)

\* A job whose lock was not renewed is redelivered, whether its worker died or
\* was only slow; one stalled too often is failed.
Stall(r) ==
    /\ job[r].state = "active"
    /\ LET again == job[r].stalls < MaxStalls
       IN  job' = [job EXCEPT ![r].by = NoWorker,
                              ![r].state  = IF again THEN "waiting" ELSE "gone",
                              ![r].stalls = IF again THEN @ + 1 ELSE @]
    /\ UNCHANGED <<dispatch, rowVars, moneyVars, told, direct, wk, rp>>

\* The job is lost before a worker takes it (Redis, or the process for a
\* direct execution).
LoseJob(r) ==
    /\ \/ /\ job[r].state = "waiting"
          /\ job' = [job EXCEPT ![r].state = "gone"]
          /\ UNCHANGED direct
       \/ /\ r \in direct
          /\ direct' = direct \ {r}
          /\ UNCHANGED job
    /\ UNCHANGED <<dispatch, rowVars, moneyVars, told, wk, rp>>

Release(r, w, next) ==
    job' = IF job[r].by = w THEN [job EXCEPT ![r] = next] ELSE job

Completed(r) == [job[r] EXCEPT !.state = "gone", !.by = NoWorker]

\* A thrown failure uses up an attempt.
AttemptFailed(r) ==
    [job[r] EXCEPT !.by = NoWorker, !.made = @ + 1,
        !.state = IF job[r].made + 1 < Attempts THEN "waiting" ELSE "gone"]

-----------------------------------------------------------------------------
(* The worker: runAliaTask, one execution of a job.                        *)

Goto(w, pc) == wk' = [wk EXCEPT ![w].pc = pc]

\* Slip: a worker that returns forgets its run but not where it was.
ReturnHalfway(w) ==
    /\ Release(wk[w].run, w, Completed(wk[w].run))
    /\ wk' = [wk EXCEPT ![w].run = NoRun]
    /\ UNCHANGED direct

\* A returned result completes the job; a throw fails the attempt.
Return(w) ==
    /\ Release(wk[w].run, w, Completed(wk[w].run))
    /\ wk' = [wk EXCEPT ![w] = IdleWorker]
    /\ UNCHANGED direct

Throw(w) ==
    /\ Release(wk[w].run, w, AttemptFailed(wk[w].run))
    /\ wk' = [wk EXCEPT ![w] = IdleWorker]
    /\ UNCHANGED direct

TakeJob(w, r) ==
    /\ wk[w].pc = "idle"
    /\ job[r].state = "waiting"
    /\ job' = [job EXCEPT ![r].state = "active", ![r].by = w]
    /\ wk' = [wk EXCEPT ![w] = [pc |-> "load", run |-> r,
                                final |-> job[r].made >= Attempts - 1]]
    /\ UNCHANGED <<dispatch, rowVars, moneyVars, told, direct, rp>>

TakeDirect(w, r) ==
    /\ wk[w].pc = "idle"
    /\ r \in direct
    /\ direct' = direct \ {r}
    /\ wk' = [wk EXCEPT ![w] = [pc |-> "load", run |-> r, final |-> TRUE]]
    /\ UNCHANGED <<dispatch, rowVars, moneyVars, told, job, rp>>

\* Only an open run is driven; a terminal one is skipped.
Load(w) ==
    /\ wk[w].pc = "load"
    /\ IF status[wk[w].run] \in Open
       THEN Goto(w, "definition") /\ UNCHANGED queueVars
       ELSE Return(w)
    /\ UNCHANGED <<dispatch, rowVars, moneyVars, told, rp>>

FindDefinition(w) ==
    /\ wk[w].pc = "definition"
    /\ Goto(w, IF wk[w].run \in known THEN "renew" ELSE "closeGone")
    /\ UNCHANGED <<dispatch, rowVars, moneyVars, told, queueVars, rp>>

\* Settle a run whose definition is gone, if it is still open.
CloseGone(w) ==
    /\ wk[w].pc = "closeGone"
    /\ \/ /\ CloseRow(wk[w].run, "failed")
          /\ Goto(w, "refundGone")
          /\ UNCHANGED queueVars
       \/ /\ status[wk[w].run] \notin Open
          /\ Return(w)
          /\ UNCHANGED rowVars
    /\ UNCHANGED <<dispatch, moneyVars, told, rp>>

\* Takes the lease, or renews it on a retry; a run the reaper closed is skipped.
Renew(w) ==
    /\ wk[w].pc = "renew"
    /\ \/ /\ RenewRow(wk[w].run)
          /\ Goto(w, "turn")
          /\ UNCHANGED queueVars
       \/ /\ status[wk[w].run] \notin Open
          /\ Return(w)
          /\ UNCHANGED rowVars
    /\ UNCHANGED <<dispatch, moneyVars, told, rp>>

\* onOxyStepStatus during the turn: the step is addressed by id, whatever
\* became of the run meanwhile.
MarkAction(w) ==
    /\ wk[w].pc = "turn"
    /\ \E s \in {"running", "succeeded", "failed"} :
           action' = [action EXCEPT ![wk[w].run] = s]
    /\ UNCHANGED <<dispatch, status, stale, known, moneyVars, told, queueVars, wk, rp>>

TurnAnswers(w) ==
    /\ wk[w].pc = "turn"
    /\ Goto(w, "close")
    /\ UNCHANGED <<dispatch, rowVars, moneyVars, told, queueVars, rp>>

\* Slip: the answer of a run reaped meanwhile is delivered all the same.
CloseDelivers(w) ==
    /\ wk[w].pc = "close"
    /\ \/ CloseRow(wk[w].run, "succeeded") /\ Goto(w, "charge")
       \/ status[wk[w].run] \notin Open /\ Goto(w, "post") /\ UNCHANGED rowVars
    /\ UNCHANGED <<dispatch, moneyVars, told, queueVars, rp>>

\* The run is closed first and conditionally; a run reaped meanwhile drops
\* the result.
Close(w) ==
    /\ wk[w].pc = "close"
    /\ \/ /\ CloseRow(wk[w].run, "succeeded")
          /\ Goto(w, "charge")
          /\ UNCHANGED queueVars
       \/ /\ status[wk[w].run] \notin Open
          /\ Return(w)
          /\ UNCHANGED rowVars
    /\ UNCHANGED <<dispatch, moneyVars, told, rp>>

\* Slip: a failure after the charge is taken for one before it.
ChargeThenRefund(w) ==
    /\ wk[w].pc = "charge"
    /\ charges' = [charges EXCEPT ![wk[w].run] = @ + 1]
    /\ \E pc \in {"post", "refundCharge"} : Goto(w, pc)
    /\ UNCHANGED <<dispatch, rowVars, refunds, told, queueVars, rp>>

\* finalizeCredits; a settlement that fails is refunded instead.
Charge(w) ==
    /\ wk[w].pc = "charge"
    /\ \/ /\ charges' = [charges EXCEPT ![wk[w].run] = @ + 1]
          /\ Goto(w, "post")
       \/ /\ UNCHANGED charges
          /\ Goto(w, "refundCharge")
    /\ UNCHANGED <<dispatch, rowVars, refunds, told, queueVars, rp>>

\* An empty reply, a timeout, a tool or database error inside the try block.
\* With "lostReply" the closing transaction may have committed all the same.
TurnThrows(w) ==
    /\ wk[w].pc \in {"renew", "turn", "close"}
    /\ \/ UNCHANGED rowVars
       \/ /\ "lostReply" \in Faults
          /\ wk[w].pc = "close"
          /\ CloseRow(wk[w].run, "succeeded")
    /\ Goto(w, "catch")
    /\ UNCHANGED <<dispatch, moneyVars, told, queueVars, rp>>

\* A database error outside it.
Escape(w) ==
    /\ wk[w].pc \in {"load", "definition", "closeGone", "catch"}
    /\ Throw(w)
    /\ UNCHANGED <<dispatch, rowVars, moneyVars, told, rp>>

\* Slip: the last attempt closes the run and leaves the refund to the reaper.
CatchKeepsHold(w) ==
    /\ wk[w].pc = "catch"
    /\ \/ wk[w].final /\ CloseRow(wk[w].run, "failed")
       \/ (~wk[w].final \/ status[wk[w].run] \notin Open) /\ UNCHANGED rowVars
    /\ Throw(w)
    /\ UNCHANGED <<dispatch, moneyVars, told, rp>>

\* The catch block: the hold is kept for a retry; the last attempt closes the
\* run, and only the caller that closes it refunds.
Catch(w) ==
    /\ wk[w].pc = "catch"
    /\ \/ /\ wk[w].final
          /\ CloseRow(wk[w].run, "failed")
          /\ Goto(w, "refundFailed")
          /\ UNCHANGED queueVars
       \/ /\ ~wk[w].final \/ status[wk[w].run] \notin Open
          /\ Throw(w)
          /\ UNCHANGED rowVars
    /\ UNCHANGED <<dispatch, moneyVars, told, rp>>

RefundGone(w) ==
    /\ wk[w].pc = "refundGone"
    /\ GiveBack(wk[w].run)
    /\ Return(w)
    /\ UNCHANGED <<dispatch, rowVars, told, rp>>

RefundUncharged(w) ==
    /\ wk[w].pc = "refundCharge"
    /\ GiveBack(wk[w].run)
    /\ Goto(w, "post")
    /\ UNCHANGED <<dispatch, rowVars, told, queueVars, rp>>

RefundFailed(w) ==
    /\ wk[w].pc = "refundFailed"
    /\ GiveBack(wk[w].run)
    /\ Goto(w, "tell")
    /\ UNCHANGED <<dispatch, rowVars, told, queueVars, rp>>

\* postAliaMessage with the answer; a watch run may have nothing to report and
\* a failed delivery is only logged.
Post(w) ==
    /\ wk[w].pc = "post"
    /\ \E news \in {{}, {"answer"}} :
           told' = [told EXCEPT ![wk[w].run] = @ \cup news]
    /\ Return(w)
    /\ UNCHANGED <<dispatch, rowVars, moneyVars, rp>>

\* notifyFailure, then the failure is thrown on to the queue.
Tell(w) ==
    /\ wk[w].pc = "tell"
    /\ \E news \in {{}, {"failure"}} :
           told' = [told EXCEPT ![wk[w].run] = @ \cup news]
    /\ Throw(w)
    /\ UNCHANGED <<dispatch, rowVars, moneyVars, rp>>

SettlingPcs == {"charge", "refundCharge", "refundGone", "refundFailed"}

\* The worker's process dies; its job stays active until the queue notices.
CrashWorker(w) ==
    /\ wk[w].pc # "idle"
    /\ wk[w].pc \in SettlingPcs => "crashSettling" \in Faults
    /\ wk' = [wk EXCEPT ![w] = IdleWorker]
    /\ UNCHANGED <<dispatch, rowVars, moneyVars, told, queueVars, rp>>

WorkerStep(w) ==
    \/ Load(w) \/ FindDefinition(w) \/ CloseGone(w) \/ Renew(w)
    \/ TurnAnswers(w) \/ TurnThrows(w) \/ Close(w) \/ Charge(w) \/ Catch(w)
    \/ Escape(w) \/ RefundGone(w) \/ RefundUncharged(w) \/ RefundFailed(w)
    \/ Post(w) \/ Tell(w)

-----------------------------------------------------------------------------
(* The reaper: reapAbandonedAliaRuns, on every process at once.            *)

\* Slip: only runs that were picked up count as abandoned.
AbandonedLease(r) == status[r] = "running" /\ stale[r]

Abandoned(r) == status[r] \in Open /\ stale[r]

\* The list is read first; each run on it is failed later, if it still applies.
List(p, r) ==
    /\ rp[p].pc = "idle"
    /\ Abandoned(r)
    /\ rp' = [rp EXCEPT ![p] = [pc |-> "fail", run |-> r]]
    /\ UNCHANGED <<dispatch, rowVars, moneyVars, told, queueVars, wk>>

\* Slip: the sweep closes the run and forgets the hold.
FailOnly(p) ==
    /\ rp[p].pc = "fail"
    /\ \/ FailAbandonedRow(rp[p].run) /\ rp' = [rp EXCEPT ![p].pc = "tell"]
       \/ ~Abandoned(rp[p].run) /\ rp' = [rp EXCEPT ![p] = IdleReaper] /\ UNCHANGED rowVars
    /\ UNCHANGED <<dispatch, moneyVars, told, queueVars, wk>>

Fail(p) ==
    /\ rp[p].pc = "fail"
    /\ \/ /\ FailAbandonedRow(rp[p].run)
          /\ rp' = [rp EXCEPT ![p].pc = "refund"]
       \/ /\ ~Abandoned(rp[p].run)
          /\ rp' = [rp EXCEPT ![p] = IdleReaper]
          /\ UNCHANGED rowVars
    /\ UNCHANGED <<dispatch, moneyVars, told, queueVars, wk>>

RefundAbandoned(p) ==
    /\ rp[p].pc = "refund"
    /\ GiveBack(rp[p].run)
    /\ rp' = [rp EXCEPT ![p].pc = "tell"]
    /\ UNCHANGED <<dispatch, rowVars, told, queueVars, wk>>

TellInterrupted(p) ==
    /\ rp[p].pc = "tell"
    /\ \E news \in {{}, {"interrupted"}} :
           told' = [told EXCEPT ![rp[p].run] = @ \cup news]
    /\ rp' = [rp EXCEPT ![p] = IdleReaper]
    /\ UNCHANGED <<dispatch, rowVars, moneyVars, queueVars, wk>>

\* The sweep's process dies, or its statement throws and the next run is tried.
CrashReaper(p) ==
    /\ rp[p].pc # "idle"
    /\ rp[p].pc = "refund" => "crashSettling" \in Faults
    /\ rp' = [rp EXCEPT ![p] = IdleReaper]
    /\ UNCHANGED <<dispatch, rowVars, moneyVars, told, queueVars, wk>>

ReaperStep(p) == Fail(p) \/ RefundAbandoned(p) \/ TellInterrupted(p)

-----------------------------------------------------------------------------
Next ==
    \/ \E r \in Runs :
           \/ DispatcherStep(r) \/ CrashDispatch(r)
           \/ Lapse(r) \/ RemoveDefinition(r)
           \/ Stall(r) \/ LoseJob(r)
    \/ \E w \in Workers :
           \/ WorkerStep(w) \/ MarkAction(w) \/ CrashWorker(w)
           \/ \E r \in Runs : TakeJob(w, r) \/ TakeDirect(w, r)
    \/ \E p \in Reapers :
           \/ ReaperStep(p) \/ CrashReaper(p)
           \/ \E r \in Runs : List(p, r)

Spec == Init /\ [][Next]_vars

\* What keeps being scheduled: workers run on, leases lapse, and every minute
\* each process sweeps again, so a sweep that keeps being interrupted does get
\* through a listed run once.  Nothing is assumed of the queue.
Fairness ==
    /\ \A r \in Runs : WF_vars(Lapse(r))
    /\ \A w \in Workers : WF_vars(WorkerStep(w))
    /\ \A p \in Reapers : SF_vars(ReaperStep(p)) /\ \A r \in Runs : SF_vars(List(p, r))

FairSpec == Spec /\ Fairness

-----------------------------------------------------------------------------
(* Properties.                                                             *)

RunsTyped ==
    /\ dispatch \in [Runs -> DispatchPcs]
    /\ status \in [Runs -> {"none"} \cup Open \cup Terminal]
    /\ stale \in [Runs -> BOOLEAN]
    /\ action \in [Runs -> {"planned", "running", "succeeded", "failed", "cancelled"}]
    /\ known \subseteq Runs

MoneyTyped ==
    /\ charges \in [Runs -> Nat]
    /\ refunds \in [Runs -> Nat]
    /\ told \in [Runs -> SUBSET {"answer", "failure", "interrupted"}]

QueueTyped ==
    /\ job \in [Runs -> [state : {"absent", "waiting", "active", "gone"},
                         made : Nat, stalls : Nat, by : Workers \cup {NoWorker}]]
    /\ direct \subseteq Runs

ProcessesTyped ==
    /\ wk \in [Workers -> [pc : WorkerPcs, run : Runs \cup {NoRun}, final : BOOLEAN]]
    /\ rp \in [Reapers -> [pc : ReaperPcs, run : Runs \cup {NoRun}]]
    /\ \A w \in Workers : wk[w].pc # "idle" => wk[w].run \in Runs
    /\ \A p \in Reapers : rp[p].pc # "idle" => rp[p].run \in Runs

TypeOK == RunsTyped /\ MoneyTyped /\ QueueTyped /\ ProcessesTyped

\* The hold of a run is moved at most once: it is never both charged and given
\* back, nor given back twice, however many workers, retries and sweeps meet on
\* the run ("so the two never both refund", alia-task-run.ts:30).
SettledAtMostOnce == \A r \in Runs : charges[r] + refunds[r] <= 1

\* What the person is told matches what became of the run and of the credits:
\* one account of each run, the answer only of a run recorded as succeeded, and
\* "your credits were returned" or "did not run" never of a hold that was
\* charged.
OneStory ==
    \A r \in Runs :
        /\ Cardinality(told[r]) <= 1
        /\ "answer" \in told[r] => status[r] = "succeeded"
        /\ told[r] \cap {"failure", "interrupted"} # {} => charges[r] = 0

\* Whoever still owes the run's hold a charge or a refund.
WorkersPaying(r) == {w \in Workers : wk[w].run = r /\ wk[w].pc \in SettlingPcs}
ReapersPaying(r) == {p \in Reapers : rp[p].run = r /\ rp[p].pc = "refund"}

\* A hold taken and not yet settled can always still be settled: its dispatch
\* has it in hand, its run is open for a worker or the reaper to close, or one
\* of them has closed it and is about to pay.  "A run whose worker vanished is
\* failed and refunded by alia-task-reaper.ts" (alia-task-run.ts:27).
NoStrandedHold ==
    \A r \in Runs :
        charges[r] + refunds[r] = 0 =>
            \/ dispatch[r] \in {"idle", "denied", "reserved", "unclaimed"}
            \/ status[r] \in Open
            \/ WorkersPaying(r) # {}
            \/ ReapersPaying(r) # {}

\* One occurrence runs at most once: of the dispatches that carry one
\* idempotency key at most one has a row, and only that one is ever queued.
OneRunPerOccurrence ==
    \A r, o \in Runs :
        /\ KeyOf[r] = KeyOf[o] /\ status[r] # "none" /\ status[o] # "none" => r = o
        /\ r \in direct \/ job[r].state # "absent" => status[r] # "none"

\* Every claimed run reaches a terminal status, whatever becomes of its job.
EveryRunCloses == \A r \in Runs : (status[r] \in Open) ~> (status[r] \in Terminal)

\* And every hold of a run that was claimed is settled in the end.
EveryHoldSettles ==
    \A r \in Runs : (status[r] \in Open) ~> (charges[r] + refunds[r] > 0)

-----------------------------------------------------------------------------
(* The hold of a run implements SettleOnce.                                *)

HoldOutcome ==
    [r \in Runs |->
        IF charges[r] + refunds[r] > 1             THEN "settled twice"
        ELSE IF charges[r] = 1                     THEN "charged"
        ELSE IF refunds[r] = 1                     THEN "returned"
        ELSE IF dispatch[r] \in {"idle", "denied"} THEN "none" ELSE "held"]

Hold == INSTANCE SettleOnce WITH Holds <- Runs, outcome <- HoldOutcome

\* Dispatcher, workers, queue and reapers together do to a hold only what the
\* abstract specification allows.
HoldSettlesOnce == Hold!SettleSpec

=============================================================================
