------------------------------ MODULE AgentRun ------------------------------
(***************************************************************************)
(* A background run of an agent, from the handoff that holds the person's  *)
(* credits to the settlement of that hold.                                 *)
(*                                                                         *)
(*   handoff   lib/agent/session-handoff.ts   one per session              *)
(*   queue     lib/task-queue.ts (BullMQ on Redis, external)               *)
(*   worker    lib/agent/runner.ts            the executions of a session  *)
(*   reaper    lib/agent/run-reaper.ts        one sweep per API process    *)
(*   cancel    routes/agents/sessions.ts      the person stops the run     *)
(*   rows      db/agents/agentSessionRepository.ts                         *)
(*                                                                         *)
(* Unlike a task of Alia's own (AliaTaskRun), a session whose worker       *)
(* vanished is RESUMED: a lease on the row says who drives it, a lapsed    *)
(* lease lets the next worker claim it, and a run that lost its worker     *)
(* MaxAttempts times is failed.  One action is one database statement, or  *)
(* one call of the queue.                                                  *)
(***************************************************************************)
EXTENDS Naturals, FiniteSets

CONSTANTS
    Sessions,      \* agent sessions
    Workers,       \* concurrent executions of runAgentSession
    Reapers,       \* processes sweeping for lapsed runs
    MaxAttempts,   \* RUNNER_MAX_ATTEMPTS
    QueueAttempts, \* attempts of the queue
    MaxStalls,     \* how often the queue redelivers a job it believes stalled
    Faults,        \* the rarer events switched on, see FaultKinds
    NoSession, NoWorker,
    Direct         \* the job id of an execution outside the queue

\* cancel         the person cancels the session, or the agent is set idle
\* late           a lease lapses although its worker is alive
\* escape         the worker throws outside its try block, or finds no agent
\* noModel        no model is available for the agent
\* claimFails     claiming throws, or the process dies before the claim
\* saveFails      the final flush or update throws
\* lostSettle     a charge or a refund fails and is only logged
\* crashSettling  a process dies between settling a hold and its next statement
\* lostReply      the queue takes a job and its answer is lost
\* forgotten      the queue drops the record of a finished job
FaultKinds == {"cancel", "late", "escape", "noModel", "claimFails", "saveFails",
               "lostSettle", "crashSettling", "lostReply", "forgotten"}

ASSUME AgentRunAssumption ==
    /\ MaxAttempts \in Nat \ {0}
    /\ QueueAttempts \in Nat \ {0}
    /\ MaxStalls \in Nat
    /\ Faults \subseteq FaultKinds
    /\ NoSession \notin Sessions
    /\ NoWorker \notin Workers
    /\ Direct \notin Nat

VARIABLES
    handoff,   \* where startAgentSession is
    status,    \* agent_sessions.status, "none" without a row
    owner,     \* runner_lease_owner
    lease,     \* runner_lease_expires_at: null, still to come, or past
    attempts,  \* runner_attempts
    old,       \* created longer than QUEUED_ORPHAN_AFTER_MS ago
    cancel,    \* where a cancellation of the session is
    charges, refunds,  \* how often the hold was charged, given back
    told,      \* what the person was told of the run
    job,       \* the queue's jobs: 0 the first one, n the resume of attempt n
    direct,    \* sessions to be executed in-process, without the queue
    wk,        \* the workers
    rp         \* the reapers

vars == <<handoff, status, owner, lease, attempts, old, cancel, charges, refunds,
          told, job, direct, wk, rp>>

leaseVars == <<owner, lease, attempts>>
rowVars   == <<status, owner, lease, attempts, old>>
moneyVars == <<charges, refunds>>
queueVars == <<job, direct>>

Open     == {"queued", "running"}
Terminal == {"completed", "failed", "cancelled"}
JobIds   == 0 .. MaxAttempts - 1

HandoffPcs == {"idle", "refused", "reserved", "created", "failing", "refunding",
               "done"}
LeasedPcs  == {"abandon", "refundAbandoned", "enter", "head", "step", "charge",
               "save", "catch", "refund", "saveFailed", "settled"}
WorkerPcs  == LeasedPcs \cup {"idle", "claim", "release", "report"}
ReaperPcs  == {"idle", "reap", "refundExhausted", "refundOrphan", "tell"}

IdleWorker == [pc |-> "idle", s |-> NoSession, job |-> Direct, last |-> FALSE,
               attempt |-> 0, lost |-> FALSE, final |-> "none", outcome |-> "none"]
IdleReaper == [pc |-> "idle", s |-> NoSession, attempts |-> 0]
NoJob      == [state |-> "absent", made |-> 0, stalls |-> 0, by |-> NoWorker]
NewJob     == [state |-> "waiting", made |-> 0, stalls |-> 0, by |-> NoWorker]
KeptJob    == [state |-> "kept", made |-> 0, stalls |-> 0, by |-> NoWorker]

Init ==
    /\ handoff  = [s \in Sessions |-> "idle"]
    /\ status   = [s \in Sessions |-> "none"]
    /\ owner    = [s \in Sessions |-> NoWorker]
    /\ lease    = [s \in Sessions |-> "null"]
    /\ attempts = [s \in Sessions |-> 0]
    /\ old      = [s \in Sessions |-> FALSE]
    /\ cancel   = [s \in Sessions |-> "no"]
    /\ charges  = [s \in Sessions |-> 0]
    /\ refunds  = [s \in Sessions |-> 0]
    /\ told     = [s \in Sessions |-> {}]
    /\ job      = [s \in Sessions |-> [n \in JobIds |-> NoJob]]
    /\ direct   = {}
    /\ wk       = [w \in Workers |-> IdleWorker]
    /\ rp       = [p \in Reapers |-> IdleReaper]

-----------------------------------------------------------------------------
(* The row.                                                                *)

\* updateAgentSession({ status }): by id, whatever the row says by then.
SetStatus(s, to) ==
    /\ status' = [status EXCEPT ![s] = to]
    /\ UNCHANGED <<leaseVars, old>>

\* Slips: the claim forgets the lease; the claim forgets the status.
ClaimableAnyLease(s) == status[s] \in Open

ClaimableAnyStatus(s) == status[s] # "none" /\ lease[s] # "live"

Claimable(s) == status[s] \in Open /\ lease[s] # "live"

\* claimAgentSessionRun, of a claimable row.
TakeRow(s, w) ==
    /\ status' = [status EXCEPT ![s] = "running"]
    /\ owner' = [owner EXCEPT ![s] = w]
    /\ lease' = [lease EXCEPT ![s] = "live"]
    /\ attempts' = [attempts EXCEPT ![s] = @ + 1]
    /\ UNCHANGED old

NoLease(s) ==
    /\ owner' = [owner EXCEPT ![s] = NoWorker]
    /\ lease' = [lease EXCEPT ![s] = "null"]

\* releaseAgentSessionRunLease; when it fails the lease is left to lapse.
DropLease(s, w) ==
    \/ owner[s] = w /\ NoLease(s) /\ UNCHANGED <<status, attempts, old>>
    \/ UNCHANGED rowVars

\* The worker the row names is still driving it.
Drives(w, s) == wk[w].s = s /\ wk[w].pc \in LeasedPcs

OwnerAlive(s) == \E w \in Workers : owner[s] = w /\ Drives(w, s)

\* Time passes: RUNNER_LEASE_MS without a renewal.  Renewals come every 20 s, so
\* the lease of a living worker lapses only when several of them fail.
Lapse(s) ==
    /\ status[s] = "running"
    /\ lease[s] = "live"
    /\ ~OwnerAlive(s) \/ "late" \in Faults
    /\ lease' = [lease EXCEPT ![s] = "lapsed"]
    /\ UNCHANGED <<handoff, status, owner, attempts, old, cancel, moneyVars, told,
                   queueVars, wk, rp>>

\* Time passes: QUEUED_ORPHAN_AFTER_MS in the queue, far longer than a handoff.
Age(s) ==
    /\ status[s] = "queued"
    /\ handoff[s] \notin {"created", "failing"}
    /\ ~old[s]
    /\ old' = [old EXCEPT ![s] = TRUE]
    /\ UNCHANGED <<handoff, status, leaseVars, cancel, moneyVars, told, queueVars, wk, rp>>

-----------------------------------------------------------------------------
(* The hold.                                                               *)

GiveBack(s) ==
    \/ refunds' = [refunds EXCEPT ![s] = @ + 1] /\ UNCHANGED charges
    \/ "lostSettle" \in Faults /\ UNCHANGED moneyVars   \* safeRefund swallows it

ChargeHold(s) ==
    \/ charges' = [charges EXCEPT ![s] = @ + 1] /\ UNCHANGED refunds
    \/ "lostSettle" \in Faults /\ UNCHANGED moneyVars   \* "Failed to finalize credits"

Tell(s, news) == told' = [told EXCEPT ![s] = @ \cup news]

-----------------------------------------------------------------------------
(* The queue.                                                              *)

\* queue.add: an id the queue still keeps is deduplicated into nothing.
Add(s, n) ==
    job' = IF job[s][n].state = "absent"
           THEN [job EXCEPT ![s][n] = NewJob] ELSE job

\* enqueueAgentSession: on the queue, or in-process when Redis refuses, or both
\* when Redis took the job and its answer was lost.
Hand(s, n) ==
    \/ Add(s, n) /\ UNCHANGED direct
    \/ direct' = direct \cup {s} /\ UNCHANGED job
    \/ "lostReply" \in Faults /\ direct' = direct \cup {s} /\ Add(s, n)

\* A job whose lock was not renewed is redelivered, whether its worker died or
\* was only slow; one stalled too often is failed, and kept.
Stall(s, n) ==
    /\ job[s][n].state = "active"
    /\ job' = [job EXCEPT ![s][n] =
                  IF @.stalls < MaxStalls
                  THEN [state |-> "waiting", made |-> @.made, stalls |-> @.stalls + 1,
                        by |-> NoWorker]
                  ELSE KeptJob]
    /\ UNCHANGED <<handoff, rowVars, cancel, moneyVars, told, direct, wk, rp>>

\* A waiting job is lost with Redis, a direct execution with its process.
LoseJob(s) ==
    /\ \/ \E n \in JobIds :
              /\ job[s][n].state = "waiting"
              /\ job' = [job EXCEPT ![s][n] = NoJob]
              /\ UNCHANGED direct
       \/ s \in direct /\ direct' = direct \ {s} /\ UNCHANGED job
    /\ UNCHANGED <<handoff, rowVars, cancel, moneyVars, told, wk, rp>>

\* removeOnComplete, removeOnFail: old jobs are dropped at last.
Forget(s, n) ==
    /\ "forgotten" \in Faults
    /\ job[s][n].state = "kept"
    /\ job' = [job EXCEPT ![s][n] = NoJob]
    /\ UNCHANGED <<handoff, rowVars, cancel, moneyVars, told, direct, wk, rp>>

\* The job a worker is executing ends, if the queue still thinks it is its job.
MyJob(w) == job[wk[w].s][wk[w].job]

Finish(w, next) ==
    job' = IF wk[w].job \in JobIds /\ MyJob(w).by = w
           THEN [job EXCEPT ![wk[w].s][wk[w].job] = next] ELSE job

AttemptFailed(w) ==
    IF MyJob(w).made + 1 < QueueAttempts
    THEN [state |-> "waiting", made |-> MyJob(w).made + 1, stalls |-> MyJob(w).stalls,
          by |-> NoWorker]
    ELSE KeptJob

-----------------------------------------------------------------------------
(* The handoff: startAgentSession.                                         *)

ToHandoff(s, pc) == handoff' = [handoff EXCEPT ![s] = pc]

Reserve(s) ==
    /\ handoff[s] = "idle"
    /\ \E pc \in {"reserved", "refused"} : ToHandoff(s, pc)
    /\ UNCHANGED <<rowVars, cancel, moneyVars, told, queueVars, wk, rp>>

\* The Oxy task and the queued row.
CreateRow(s) ==
    /\ handoff[s] = "reserved"
    /\ ToHandoff(s, "created")
    /\ SetStatus(s, "queued")
    /\ UNCHANGED <<cancel, moneyVars, told, queueVars, wk, rp>>

\* One of them could not be created: there is no row to neutralise.
CreateThrows(s) ==
    /\ handoff[s] = "reserved"
    /\ ToHandoff(s, "refunding")
    /\ UNCHANGED <<rowVars, cancel, moneyVars, told, queueVars, wk, rp>>

Enqueue(s) ==
    /\ handoff[s] = "created"
    /\ ToHandoff(s, "done")
    /\ Hand(s, 0)
    /\ UNCHANGED <<rowVars, cancel, moneyVars, told, wk, rp>>

\* The counters, or naming the agent, fail before the enqueue.
CountersThrow(s) ==
    /\ handoff[s] = "created"
    /\ ToHandoff(s, "failing")
    /\ UNCHANGED <<rowVars, cancel, moneyVars, told, queueVars, wk, rp>>

\* Slip: the handoff refunds whether or not it could neutralise the row.
CancelAnyway(s) ==
    /\ handoff[s] = "failing"
    /\ ToHandoff(s, "refunding")
    /\ UNCHANGED <<rowVars, cancel, moneyVars, told, queueVars, wk, rp>>

\* cancelUnsettledAgentSession: the refund is due only if it matched the row; a
\* statement that throws counts as no match.
CancelUnsettled(s) ==
    /\ handoff[s] = "failing"
    /\ \/ /\ status[s] \in Open \cup {"cancelled"}
          /\ SetStatus(s, "cancelled")
          /\ ToHandoff(s, "refunding")
       \/ UNCHANGED rowVars /\ ToHandoff(s, "done")
    /\ UNCHANGED <<cancel, moneyVars, told, queueVars, wk, rp>>

RefundHandoff(s) ==
    /\ handoff[s] = "refunding"
    /\ GiveBack(s)
    /\ ToHandoff(s, "done")
    /\ UNCHANGED <<rowVars, cancel, told, queueVars, wk, rp>>

CrashHandoff(s) ==
    /\ \/ handoff[s] \in {"created", "failing"}
       \/ "crashSettling" \in Faults /\ handoff[s] \in {"reserved", "refunding"}
    /\ ToHandoff(s, "done")
    /\ UNCHANGED <<rowVars, cancel, moneyVars, told, queueVars, wk, rp>>

HandoffStep(s) ==
    \/ Reserve(s) \/ CreateRow(s) \/ CreateThrows(s) \/ Enqueue(s) \/ CountersThrow(s)
    \/ CancelUnsettled(s) \/ RefundHandoff(s) \/ CrashHandoff(s)

-----------------------------------------------------------------------------
(* The cancel route: the status is read, then the job removed, then the row  *)
(* written.  Setting the agent idle does the same to each unfinished session. *)

ToCancel(s, pc) == cancel' = [cancel EXCEPT ![s] = pc]

ReadCancel(s) ==
    /\ "cancel" \in Faults
    /\ cancel[s] = "no"
    /\ status[s] \in Open
    /\ ToCancel(s, "job")
    /\ UNCHANGED <<handoff, rowVars, moneyVars, told, queueVars, wk, rp>>

\* cancelJob: only the first job, only while it waits; a failure is ignored.
CancelJob(s) ==
    /\ cancel[s] = "job"
    /\ ToCancel(s, "row")
    /\ \/ job[s][0].state = "waiting" /\ job' = [job EXCEPT ![s][0] = NoJob]
       \/ UNCHANGED job
    /\ UNCHANGED <<handoff, rowVars, moneyVars, told, direct, wk, rp>>

WriteCancel(s) ==
    /\ cancel[s] = "row"
    /\ ToCancel(s, "no")
    /\ SetStatus(s, "cancelled")
    /\ UNCHANGED <<handoff, moneyVars, told, queueVars, wk, rp>>

CancelStep(s) == ReadCancel(s) \/ CancelJob(s) \/ WriteCancel(s)

-----------------------------------------------------------------------------
(* The worker: runAgentSession and driveAgentSession.                      *)

Goto(w, pc) == wk' = [wk EXCEPT ![w].pc = pc]

Ends(w, pc, final) == wk' = [wk EXCEPT ![w].pc = pc, ![w].final = final]

Leaves(w, outcome) == wk' = [wk EXCEPT ![w].pc = "release", ![w].outcome = outcome]

\* A returned result completes the job; a throw fails the attempt, and the last
\* attempt of a queued job tells the person.
Return(w) ==
    /\ Finish(w, KeptJob)
    /\ wk' = [wk EXCEPT ![w] = IdleWorker]
    /\ UNCHANGED direct

Throw(w) ==
    /\ Finish(w, AttemptFailed(w))
    /\ wk' = [wk EXCEPT ![w] = IdleWorker]
    /\ \E news \in {{}} \cup (IF wk[w].last THEN {{"error"}} ELSE {}) : Tell(wk[w].s, news)
    /\ UNCHANGED direct

Begin(w, s, n, last) ==
    /\ wk[w].pc = "idle"
    /\ wk' = [wk EXCEPT ![w] = [pc |-> "claim", s |-> s, job |-> n, last |-> last,
                                attempt |-> 0, lost |-> FALSE, final |-> "none",
                                outcome |-> "none"]]

TakeJob(w, s, n) ==
    /\ job[s][n].state = "waiting"
    /\ job' = [job EXCEPT ![s][n].state = "active", ![s][n].by = w]
    /\ Begin(w, s, n, job[s][n].made >= QueueAttempts - 1)
    /\ UNCHANGED <<handoff, rowVars, cancel, moneyVars, told, direct, rp>>

TakeDirect(w, s) ==
    /\ s \in direct
    /\ direct' = direct \ {s}
    /\ Begin(w, s, Direct, FALSE)
    /\ UNCHANGED <<handoff, rowVars, cancel, moneyVars, told, job, rp>>

\* A run that is settled, or that another worker holds, is skipped.  A claim
\* beyond MaxAttempts is there only to fail the run.
Claim(w) ==
    /\ wk[w].pc = "claim"
    /\ LET s == wk[w].s
       IN  \/ /\ Claimable(s)
              /\ TakeRow(s, w)
              /\ wk' = [wk EXCEPT ![w].pc = IF attempts[s] < MaxAttempts THEN "enter"
                                            ELSE "abandon",
                                  ![w].attempt = attempts[s] + 1]
              /\ UNCHANGED queueVars
           \/ ~Claimable(s) /\ Return(w) /\ UNCHANGED rowVars
    /\ UNCHANGED <<handoff, cancel, moneyVars, told, rp>>

ClaimThrows(w) ==
    /\ "claimFails" \in Faults
    /\ wk[w].pc = "claim"
    /\ Throw(w)
    /\ UNCHANGED <<handoff, rowVars, cancel, moneyVars, rp>>

\* Slip: a renewal does not look whose lease it is.
RenewAnyLease(w) ==
    /\ wk[w].pc \in LeasedPcs
    /\ ~wk[w].lost
    /\ IF status[wk[w].s] = "running"
       THEN /\ lease' = [lease EXCEPT ![wk[w].s] = "live"]
            /\ owner' = [owner EXCEPT ![wk[w].s] = w]
            /\ UNCHANGED wk
       ELSE wk' = [wk EXCEPT ![w].lost = TRUE] /\ UNCHANGED <<lease, owner>>
    /\ UNCHANGED <<handoff, status, attempts, old, cancel, moneyVars, told, queueVars, rp>>

\* The timer of holdRunLease: a renewal that lands extends the lease, even one
\* that had lapsed; one that matches nothing tells the worker it lost the run.
\* A renewal that fails is no step at all.
Renew(w) ==
    /\ wk[w].pc \in LeasedPcs
    /\ ~wk[w].lost
    /\ IF owner[wk[w].s] = w /\ status[wk[w].s] = "running"
       THEN lease' = [lease EXCEPT ![wk[w].s] = "live"] /\ UNCHANGED wk
       ELSE wk' = [wk EXCEPT ![w].lost = TRUE] /\ UNCHANGED lease
    /\ UNCHANGED <<handoff, status, owner, attempts, old, cancel, moneyVars, told,
                   queueVars, rp>>

\* abandonExhaustedRun.
Abandon(w) ==
    /\ wk[w].pc = "abandon"
    /\ SetStatus(wk[w].s, "failed")
    /\ Ends(w, "refundAbandoned", "failed")
    /\ UNCHANGED <<handoff, cancel, moneyVars, told, queueVars, rp>>

RefundAbandoned(w) ==
    /\ wk[w].pc = "refundAbandoned"
    /\ GiveBack(wk[w].s)
    /\ Leaves(w, "ran")
    /\ UNCHANGED <<handoff, rowVars, cancel, told, queueVars, rp>>

\* A database error before the try block of driveAgentSession.
Escape(w) ==
    /\ "escape" \in Faults
    /\ wk[w].pc \in {"abandon", "enter"}
    /\ Leaves(w, "threw")
    /\ UNCHANGED <<handoff, rowVars, cancel, moneyVars, told, queueVars, rp>>

\* "Agent not found": the row is failed, the hold is left alone.
AgentGone(w) ==
    /\ "escape" \in Faults
    /\ wk[w].pc = "enter"
    /\ SetStatus(wk[w].s, "failed")
    /\ Ends(w, "settled", "failed")
    /\ UNCHANGED <<handoff, cancel, moneyVars, told, queueVars, rp>>

\* Slip: the orchestrated run falls through with no outcome.
EnterUndecided(w) ==
    /\ wk[w].pc = "enter"
    /\ \/ Goto(w, "head")
       \/ wk[w].attempt = 1 /\ Goto(w, "charge")
    /\ UNCHANGED <<handoff, rowVars, cancel, moneyVars, told, queueVars, rp>>

\* To the loop, or past it when the orchestrator ran a fresh task.
Enter(w) ==
    /\ wk[w].pc = "enter"
    /\ \/ Goto(w, "head")
       \/ wk[w].attempt = 1 /\ \E f \in {"completed", "failed"} : Ends(w, "charge", f)
    /\ UNCHANGED <<handoff, rowVars, cancel, moneyVars, told, queueVars, rp>>

\* The head of the loop: a lost run is left unsettled, a cancelled one ends.
Head(w) ==
    /\ wk[w].pc = "head"
    /\ \/ wk[w].lost /\ Leaves(w, "skipped")
       \/ ~wk[w].lost /\ status[wk[w].s] = "cancelled" /\ Ends(w, "charge", "cancelled")
       \/ ~wk[w].lost /\ status[wk[w].s] # "cancelled" /\ Goto(w, "step")
    /\ UNCHANGED <<handoff, rowVars, cancel, moneyVars, told, queueVars, rp>>

Step(w) ==
    /\ wk[w].pc = "step"
    /\ Goto(w, "head")
    /\ UNCHANGED <<handoff, rowVars, cancel, moneyVars, told, queueVars, rp>>

\* The task, the steps, the tokens or the time are at an end.
Complete(w) ==
    /\ wk[w].pc = "step"
    /\ Ends(w, "charge", "completed")
    /\ UNCHANGED <<handoff, rowVars, cancel, moneyVars, told, queueVars, rp>>

NoModel(w) ==
    /\ "noModel" \in Faults
    /\ wk[w].pc = "step"
    /\ SetStatus(wk[w].s, "failed") \/ UNCHANGED rowVars
    /\ Goto(w, "catch")
    /\ UNCHANGED <<handoff, cancel, moneyVars, told, queueVars, rp>>

\* Anything else thrown inside the try block.
Break(w) ==
    /\ wk[w].pc \in {"enter", "head", "step"}
    /\ Goto(w, "catch")
    /\ UNCHANGED <<handoff, rowVars, cancel, moneyVars, told, queueVars, rp>>

\* finalizeCredits, of every way the loop ends, also the cancelled one.
Charge(w) ==
    /\ wk[w].pc = "charge"
    /\ ChargeHold(wk[w].s)
    /\ Goto(w, "save")
    /\ UNCHANGED <<handoff, rowVars, cancel, told, queueVars, rp>>

Save(w) ==
    /\ wk[w].pc = "save"
    /\ SetStatus(wk[w].s, wk[w].final)
    /\ Goto(w, "settled")
    /\ UNCHANGED <<handoff, cancel, moneyVars, told, queueVars, rp>>

\* The flush throws into the catch block; a failing update is only logged.
SaveFails(w) ==
    /\ "saveFails" \in Faults
    /\ \/ wk[w].pc = "save" /\ \E pc \in {"catch", "settled"} : Goto(w, pc)
       \/ wk[w].pc = "saveFailed" /\ Goto(w, "settled")
    /\ UNCHANGED <<handoff, rowVars, cancel, moneyVars, told, queueVars, rp>>

\* "A worker that lost the run must not settle it."
Catch(w) ==
    /\ wk[w].pc = "catch"
    /\ IF wk[w].lost THEN Leaves(w, "skipped") ELSE Goto(w, "refund")
    /\ UNCHANGED <<handoff, rowVars, cancel, moneyVars, told, queueVars, rp>>

Refund(w) ==
    /\ wk[w].pc = "refund"
    /\ GiveBack(wk[w].s)
    /\ Goto(w, "saveFailed")
    /\ UNCHANGED <<handoff, rowVars, cancel, told, queueVars, rp>>

SaveFailed(w) ==
    /\ wk[w].pc = "saveFailed"
    /\ SetStatus(wk[w].s, "failed")
    /\ Ends(w, "settled", "failed")
    /\ UNCHANGED <<handoff, cancel, moneyVars, told, queueVars, rp>>

\* The statements after the last update (automation run, goal, Oxy task) are
\* done; the lease is read now, for the last time.
Leave(w) ==
    /\ wk[w].pc = "settled"
    /\ Leaves(w, IF wk[w].lost THEN "skipped" ELSE "ran")
    /\ UNCHANGED <<handoff, rowVars, cancel, moneyVars, told, queueVars, rp>>

Release(w) ==
    /\ wk[w].pc = "release"
    /\ DropLease(wk[w].s, w)
    /\ \/ wk[w].outcome = "ran" /\ Goto(w, "report") /\ UNCHANGED <<told, queueVars>>
       \/ wk[w].outcome = "skipped" /\ Return(w) /\ UNCHANGED told
       \/ wk[w].outcome = "threw" /\ Throw(w)
    /\ UNCHANGED <<handoff, cancel, moneyVars, rp>>

\* processAgentSession: the result goes to the person's conversation, unless
\* the run has a parent or a next stage, or the delivery fails.
Report(w) ==
    /\ wk[w].pc = "report"
    /\ LET news == IF status[wk[w].s] = "completed" THEN "result" ELSE "sorry"
       IN  \E said \in {{}, {news}} : Tell(wk[w].s, said)
    /\ Return(w)
    /\ UNCHANGED <<handoff, rowVars, cancel, moneyVars, rp>>

ReportThrows(w) ==
    /\ wk[w].pc = "report"
    /\ Throw(w)
    /\ UNCHANGED <<handoff, rowVars, cancel, moneyVars, rp>>

\* Where a death separates the settlement of the hold from the row's status.
SettlingPcs == {"refundAbandoned", "save", "refund", "saveFailed"}

CrashWorker(w) ==
    /\ wk[w].pc # "idle"
    /\ wk[w].pc \in SettlingPcs => "crashSettling" \in Faults
    /\ wk[w].pc = "claim" => "claimFails" \in Faults
    /\ wk' = [wk EXCEPT ![w] = IdleWorker]
    /\ UNCHANGED <<handoff, rowVars, cancel, moneyVars, told, queueVars, rp>>

WorkerStep(w) ==
    \/ Claim(w) \/ ClaimThrows(w) \/ Abandon(w) \/ RefundAbandoned(w) \/ Escape(w)
    \/ AgentGone(w) \/ Enter(w) \/ Head(w) \/ Step(w) \/ Complete(w) \/ NoModel(w)
    \/ Break(w) \/ Charge(w) \/ Save(w) \/ SaveFails(w) \/ Catch(w) \/ Refund(w)
    \/ SaveFailed(w) \/ Leave(w) \/ Release(w) \/ Report(w) \/ ReportThrows(w)

-----------------------------------------------------------------------------
(* The reaper: reapAgentRuns and reclaimOrphanedAgentSessions.             *)

ToReaper(p, pc) == rp' = [rp EXCEPT ![p].pc = pc]

Lapsed(s) == status[s] = "running" /\ lease[s] = "lapsed"

\* The list, with the attempts read, comes first; each run on it is handled
\* later.
ListLapsed(p, s) ==
    /\ rp[p].pc = "idle"
    /\ Lapsed(s)
    /\ rp' = [rp EXCEPT ![p] = [pc |-> "reap", s |-> s, attempts |-> attempts[s]]]
    /\ UNCHANGED <<handoff, rowVars, cancel, moneyVars, told, queueVars, wk>>

\* Back to the queue, under the id of the attempt it lost.
Resume(p) ==
    /\ rp[p].pc = "reap"
    /\ rp[p].attempts < MaxAttempts
    /\ Hand(rp[p].s, rp[p].attempts)
    /\ rp' = [rp EXCEPT ![p] = IdleReaper]
    /\ UNCHANGED <<handoff, rowVars, cancel, moneyVars, told, wk>>

\* Slip: the run is failed as listed, without the conditions.
Listed(s) == status[s] # "none"

\* Slip: off by one, a run that used its last attempt is left alone.
ExhaustedLate(s) == Lapsed(s) /\ attempts[s] > MaxAttempts

\* The conditions of failExhaustedAgentSessionRun.
Exhausted(s) == Lapsed(s) /\ attempts[s] >= MaxAttempts

\* failExhaustedAgentSessionRun: the row goes to one caller, which refunds.
FailExhausted(p) ==
    /\ rp[p].pc = "reap"
    /\ rp[p].attempts >= MaxAttempts
    /\ LET s == rp[p].s
       IN  \/ /\ Exhausted(s)
              /\ status' = [status EXCEPT ![s] = "failed"]
              /\ NoLease(s)
              /\ ToReaper(p, "refundExhausted")
              /\ UNCHANGED <<attempts, old>>
           \/ ~Exhausted(s) /\ rp' = [rp EXCEPT ![p] = IdleReaper] /\ UNCHANGED rowVars
    /\ UNCHANGED <<handoff, cancel, moneyVars, told, queueVars, wk>>

RefundExhausted(p) ==
    /\ rp[p].pc = "refundExhausted"
    /\ GiveBack(rp[p].s)
    /\ ToReaper(p, "tell")
    /\ UNCHANGED <<handoff, rowVars, cancel, told, queueVars, wk>>

\* "It was interrupted too many times and was stopped. Your credits were
\* returned."
TellStopped(p) ==
    /\ rp[p].pc = "tell"
    /\ \E news \in {{}, {"stopped"}} : Tell(rp[p].s, news)
    /\ rp' = [rp EXCEPT ![p] = IdleReaper]
    /\ UNCHANGED <<handoff, rowVars, cancel, moneyVars, queueVars, wk>>

\* Slip: the orphan is failed and its hold forgotten.
OrphanForgotten(p, s) ==
    /\ rp[p].pc = "idle"
    /\ status[s] = "queued" /\ old[s]
    /\ SetStatus(s, "failed")
    /\ UNCHANGED <<handoff, cancel, moneyVars, told, queueVars, wk, rp>>

\* claimOrphanedQueuedAgentSessions: the update is the claim.
ClaimOrphan(p, s) ==
    /\ rp[p].pc = "idle"
    /\ status[s] = "queued" /\ old[s]
    /\ SetStatus(s, "failed")
    /\ rp' = [rp EXCEPT ![p] = [pc |-> "refundOrphan", s |-> s, attempts |-> 0]]
    /\ UNCHANGED <<handoff, cancel, moneyVars, told, queueVars, wk>>

RefundOrphan(p) ==
    /\ rp[p].pc = "refundOrphan"
    /\ GiveBack(rp[p].s)
    /\ rp' = [rp EXCEPT ![p] = IdleReaper]
    /\ UNCHANGED <<handoff, rowVars, cancel, told, queueVars, wk>>

\* The sweep's process dies, or a statement throws and the next run is tried.
CrashReaper(p) ==
    /\ rp[p].pc # "idle"
    /\ rp[p].pc \in {"refundExhausted", "refundOrphan"} => "crashSettling" \in Faults
    /\ rp' = [rp EXCEPT ![p] = IdleReaper]
    /\ UNCHANGED <<handoff, rowVars, cancel, moneyVars, told, queueVars, wk>>

ReaperStep(p) ==
    \/ Resume(p) \/ FailExhausted(p) \/ RefundExhausted(p) \/ TellStopped(p)
    \/ RefundOrphan(p)

-----------------------------------------------------------------------------
Next ==
    \/ \E s \in Sessions :
           \/ HandoffStep(s) \/ CancelStep(s)
           \/ Lapse(s) \/ Age(s) \/ LoseJob(s)
           \/ \E n \in JobIds : Stall(s, n) \/ Forget(s, n)
    \/ \E w \in Workers :
           \/ WorkerStep(w) \/ Renew(w) \/ CrashWorker(w)
           \/ \E s \in Sessions :
                  TakeDirect(w, s) \/ \E n \in JobIds : TakeJob(w, s, n)
    \/ \E p \in Reapers :
           \/ ReaperStep(p) \/ CrashReaper(p)
           \/ \E s \in Sessions : ListLapsed(p, s) \/ ClaimOrphan(p, s)

Spec == Init /\ [][Next]_vars

\* What keeps being scheduled: time passes, a worker runs on (its loop is bounded
\* by maxSteps and by ten minutes, so it does complete in the end), each process
\* sweeps again every minute, and a job that keeps being offered is taken.
\* A handoff gets on too, but it may die with its process at any statement.
Fairness ==
    /\ \A s \in Sessions : WF_vars(HandoffStep(s)) /\ WF_vars(Lapse(s)) /\ WF_vars(Age(s))
    /\ \A w \in Workers : WF_vars(WorkerStep(w)) /\ SF_vars(Complete(w))
    /\ \A p \in Reapers :
           /\ SF_vars(ReaperStep(p))
           /\ \A s \in Sessions : SF_vars(ListLapsed(p, s)) /\ SF_vars(ClaimOrphan(p, s))
    /\ \A s \in Sessions :
           SF_vars(\E w \in Workers :
                      TakeDirect(w, s) \/ \E n \in JobIds : TakeJob(w, s, n))

FairSpec == Spec /\ Fairness

-----------------------------------------------------------------------------
(* Properties.                                                             *)

RowsTyped ==
    /\ status \in [Sessions -> {"none"} \cup Open \cup Terminal]
    /\ owner \in [Sessions -> Workers \cup {NoWorker}]
    /\ lease \in [Sessions -> {"null", "live", "lapsed"}]
    /\ attempts \in [Sessions -> Nat]
    /\ \A s \in Sessions : status[s] = "running" => attempts[s] > 0
    /\ old \in [Sessions -> BOOLEAN]

HoldsTyped ==
    /\ handoff \in [Sessions -> HandoffPcs]
    /\ cancel \in [Sessions -> {"no", "job", "row"}]
    /\ charges \in [Sessions -> Nat]
    /\ refunds \in [Sessions -> Nat]
    /\ told \in [Sessions -> SUBSET {"result", "sorry", "stopped", "error"}]

JobType == [state : {"absent", "waiting", "active", "kept"}, made : Nat, stalls : Nat,
            by : Workers \cup {NoWorker}]

QueueTyped ==
    /\ job \in [Sessions -> [JobIds -> JobType]]
    /\ direct \subseteq Sessions

WorkerType ==
    [pc : WorkerPcs, s : Sessions \cup {NoSession}, job : JobIds \cup {Direct},
     last : BOOLEAN, attempt : Nat, lost : BOOLEAN, final : {"none"} \cup Terminal,
     outcome : {"none", "ran", "skipped", "threw"}]

ProcessesTyped ==
    /\ wk \in [Workers -> WorkerType]
    /\ rp \in [Reapers -> [pc : ReaperPcs, s : Sessions \cup {NoSession}, attempts : Nat]]
    /\ \A w \in Workers : wk[w].pc # "idle" => wk[w].s \in Sessions
    /\ \A w \in Workers : wk[w].pc \in {"charge", "save"} => wk[w].final \in Terminal
    /\ \A p \in Reapers : rp[p].pc # "idle" => rp[p].s \in Sessions
    /\ \A p \in Reapers : rp[p].pc = "reap" => rp[p].attempts > 0

TypeOK == RowsTyped /\ HoldsTyped /\ QueueTyped /\ ProcessesTyped

\* Redelivery, resumption and a worker that is merely busy never put two workers
\* on one session, as long as the lease of a living worker is renewed in time
\* ("cannot both win", agentSessionRepository.ts:877).
OneDriver ==
    \A s \in Sessions, v, w \in Workers : Drives(v, s) /\ Drives(w, s) => v = w

\* And when renewals do fail and a late worker drives on beside its successor,
\* the attempt numbers tell the two apart, the lease belongs to the latest claim,
\* and no more than MaxAttempts executions ever drive the session.
LatestClaimOwns ==
    \A s \in Sessions, w \in Workers :
        Drives(w, s) =>
            /\ owner[s] = w => wk[w].attempt = attempts[s]
            /\ \A v \in Workers :
                   v # w /\ Drives(v, s) => wk[v].attempt # wk[w].attempt
            /\ wk[w].pc \notin {"abandon", "refundAbandoned"} \/ wk[w].attempt > MaxAttempts
            /\ wk[w].pc \in {"head", "step", "charge"} => wk[w].attempt <= MaxAttempts

\* A settled or cancelled session never runs again, whatever is redelivered,
\* resumed or late.
NoRevival ==
    [][\A s \in Sessions : status[s] \in Terminal => status'[s] \in Terminal]_vars

\* The hold of a session is moved at most once, by the handoff that failed, the
\* worker that ran it, or the sweep that gave it up.
SettledAtMostOnce == \A s \in Sessions : charges[s] + refunds[s] <= 1

\* What the person is told agrees with the row and with the hold: one account of
\* each run, a result only of a run that completed and was charged, "I couldn't
\* finish" only of one that is failed, "your credits were returned" only of a
\* hold that was.
OneStory ==
    \A s \in Sessions :
        /\ Cardinality(told[s]) <= 1
        /\ "result" \in told[s] => status[s] = "completed" /\ charges[s] = 1
        /\ "sorry" \in told[s] => status[s] = "failed" /\ charges[s] + refunds[s] = 1
        /\ "stopped" \in told[s] => status[s] = "failed" /\ refunds[s] = 1

\* Whoever still owes the session's hold a charge or a refund.
WorkersPaying(s) ==
    {w \in Workers : wk[w].s = s /\ wk[w].pc \in {"refundAbandoned", "charge", "refund"}}
ReapersPaying(s) ==
    {p \in Reapers : rp[p].s = s /\ rp[p].pc \in {"refundExhausted", "refundOrphan"}}

\* A hold taken and not yet settled can always still be settled: its handoff has
\* it in hand, its row waits for a worker or for the orphan sweep, it runs under
\* a lease the reaper watches, or somebody is about to pay.
NoStrandedHold ==
    \A s \in Sessions :
        charges[s] + refunds[s] = 0 =>
            \/ handoff[s] \in {"idle", "refused", "reserved", "refunding"}
            \/ status[s] = "queued"
            \/ status[s] = "running" /\ lease[s] # "null"
            \/ WorkersPaying(s) # {}
            \/ ReapersPaying(s) # {}

\* Every session that was queued ends, whatever becomes of its jobs and workers.
EveryRunEnds == \A s \in Sessions : (status[s] \in Open) ~> (status[s] \in Terminal)

\* And its hold is settled in the end.
EveryHoldSettles ==
    \A s \in Sessions : (status[s] \in Open) ~> (charges[s] + refunds[s] > 0)

-----------------------------------------------------------------------------
(* The hold of a session implements SettleOnce.                            *)

\* Nothing was reserved for the session.
Unheld(s) == handoff[s] \in {"idle", "refused"}

HoldOutcome ==
    [s \in Sessions |->
        IF charges[s] + refunds[s] > 1 THEN "settled twice"
        ELSE IF charges[s] = 1         THEN "charged"
        ELSE IF refunds[s] = 1         THEN "returned"
        ELSE IF Unheld(s)              THEN "none" ELSE "held"]

Hold == INSTANCE SettleOnce WITH Holds <- Sessions, outcome <- HoldOutcome

\* Handoff, workers and sweeps together take a session's hold before they settle
\* it, and then charge it or give it back, once: never one after the other.
HoldSettlesOnce == Hold!SettleSpec

-----------------------------------------------------------------------------
(* What the comments of the code say and the code does not do.             *)

\* "A worker that lost the run must not settle it: the new owner will."
\* (runner.ts:952)
LostWorkerSettlesNothing ==
    [][\A w \in Workers : wk[w].pc = "charge" /\ wk[w].lost => wk'[w].pc # "save"]_vars

\* "Lost the run lease; leaving the run to the worker that holds it"
\* (runner.ts:857): a run left unsettled has somebody to settle it.
LostRunHasAnOwner ==
    \A w \in Workers :
        LET s == wk[w].s
        IN  wk[w].pc = "release" /\ wk[w].outcome = "skipped" /\ wk[w].final = "none" =>
                status[s] \in Open \/ charges[s] + refunds[s] > 0 \/ WorkersPaying(s) # {}

\* "`ran` means this worker drove it to wherever it stopped" (runner.ts:209): a
\* worker that brought the run to its end does not answer `skipped`, after which
\* nobody posts its result or starts its next stage.
FinisherReports ==
    \A w \in Workers :
        wk[w].pc = "release" /\ wk[w].final # "none" => wk[w].outcome # "skipped"

\* "Your credits were returned." (run-reaper.ts:59)
ReturnedIsReturned == \A s \in Sessions : "stopped" \in told[s] => charges[s] = 0

\* "a read-then-write would overwrite a real result with `cancelled`"
\* (agentSessionRepository.ts:791): no cancellation does.
ResultKept ==
    [][\A s \in Sessions : status[s] = "completed" => status'[s] = "completed"]_vars

=============================================================================
