----------------------------- MODULE AutomationRun -----------------------------
(***************************************************************************)
(* One occurrence of an automation run by agents: its plan of stages, the  *)
(* session of each stage, and the credits each session holds.              *)
(*                                                                         *)
(*   dispatch  lib/automation-dispatcher.ts       claims the run           *)
(*   plan      lib/automation-coordination.ts     actions into stages      *)
(*   rows      db/automation/automationDefinitionRepository.ts             *)
(*   advance   lib/automation-run-coordinator.ts  from stage to stage      *)
(*   worker    lib/task-queue.ts, lib/agent/runner.ts                      *)
(*   sweeps    lib/agent/run-reaper.ts, lib/agent/session-handoff.ts       *)
(*                                                                         *)
(* How a single session is claimed, resumed and settled is AgentRun; here  *)
(* a session has one worker at a time (AgentRun!OneDriver) and the subject *)
(* is what its end does to the run.  One action is one statement,          *)
(* transaction or call.                                                    *)
(***************************************************************************)
EXTENDS Integers, FiniteSets

CONSTANTS
    Agents,
    Dispatchers,   \* processes that saw the same occurrence
    MaxActions,    \* bound: declared actions of the automation
    MaxAttempts,   \* RUNNER_MAX_ATTEMPTS
    FaultSets,     \* the combinations of rarer events explored, see FaultKinds
    NoHold

\* crash          a worker dies before its session is settled
\* crashReporting a process dies once the session is settled or claimed
\* orphan         a queued session is not picked up in time
\* cancel         the person cancels the session of a stage
\* saveFails      the last updates of a worker throw
\* lateRenewal    the lease is renewed once more after the final status
\* agentGone      the agent was deleted
\* lostReply      a commit succeeds and its answer is lost
FaultKinds == {"crash", "crashReporting", "orphan", "cancel", "saveFails",
               "lateRenewal", "agentGone", "lostReply"}

ASSUME AutomationRunAssumption ==
    /\ MaxActions \in Nat \ {0}
    /\ MaxAttempts \in Nat \ {0}
    /\ FaultSets \subseteq SUBSET FaultKinds
    /\ Agents # {} /\ Dispatchers \cap (0 .. MaxActions) = {}
    /\ NoHold \notin Dispatchers \cup (0 .. MaxActions)

VARIABLES
    faults,    \* the rarer events of this behaviour
    actor,     \* the agent selected for each action, in declared order
    observe,   \* executionMode: only record the plan
    run,       \* automation_runs.status, "none" without a row
    control,   \* automation_steps.status of each stage's agent.run step
    step,      \* automation_steps.status of each declared action
    disp,      \* where dispatchStructuredAutomation is, in each process
    session,   \* agent_sessions.status of each stage, "none" without a row
    lease,     \* its runner lease: null, live, or lapsed
    attempts,  \* its runner_attempts
    carries,   \* its credit_reservation
    jobs,      \* stages whose session is waiting in the queue
    pc,        \* where the worker driving or reporting each session is
    final,     \* and how it says the session ended
    sweep,     \* the sweep that failed each session
    cancelling,\* stages whose session a cancel request is about to write
    taken,     \* reservations: the credits are taken,
    charged,   \* how often they were charged,
    returned,  \* and how often given back
    told       \* what the person was told of the run

vars == <<faults, actor, observe, run, control, step, disp, session, lease, attempts,
          carries, jobs, pc, final, sweep, cancelling, taken, charged, returned, told>>

fixed    == <<faults, actor, observe>>
runVars  == <<run, control, step>>
rowVars  == <<session, lease, attempts, carries>>
wk       == <<pc, final>>
hold     == <<taken, charged, returned>>

Stages   == 0 .. MaxActions - 1
Holds    == Dispatchers \cup Stages   \* who took it: a dispatcher, or the advance past a stage
Actions  == DOMAIN actor
Ended    == {"succeeded", "failed", "cancelled"}
News     == {"result", "sorry", "stopped"}
Open     == {"queued", "running"}

-----------------------------------------------------------------------------
(* The plan: planAutomationStages.                                         *)

\* Consecutive actions of one agent share a stage.
StageOf(i) == Cardinality({j \in 2 .. i : actor[j] # actor[j - 1]})

Last == IF Actions = {} THEN 0 ELSE StageOf(Cardinality(Actions))

ActionsOf(s) == {i \in Actions : StageOf(i) = s}

Init ==
    /\ faults \in FaultSets
    /\ \E n \in 0 .. MaxActions : actor \in [1 .. n -> Agents]
    /\ observe \in BOOLEAN
    /\ run = "none"
    /\ control = [s \in Stages |-> "none"]
    /\ step = [i \in Actions |-> "none"]
    /\ disp = [d \in Dispatchers |-> "idle"]
    /\ session = [s \in Stages |-> "none"]
    /\ lease = [s \in Stages |-> "null"]
    /\ attempts = [s \in Stages |-> 0]
    /\ carries = [s \in Stages |-> NoHold]
    /\ jobs = {}
    /\ pc = [s \in Stages |-> "idle"]
    /\ final = [s \in Stages |-> "none"]
    /\ sweep = [s \in Stages |-> "idle"]
    /\ cancelling = {}
    /\ taken = [h \in Holds |-> FALSE]
    /\ charged = [h \in Holds |-> 0]
    /\ returned = [h \in Holds |-> 0]
    /\ told = [n \in News |-> 0]

-----------------------------------------------------------------------------
(* The rows.                                                               *)

TakeHold(h) == taken' = [taken EXCEPT ![h] = TRUE] /\ UNCHANGED <<charged, returned>>

GiveBack(h) == returned' = [returned EXCEPT ![h] = @ + 1] /\ UNCHANGED <<taken, charged>>

\* runStepRows.
Plan(status) ==
    /\ control' = [s \in Stages |-> IF s <= Last THEN status ELSE "none"]
    /\ step' = [i \in Actions |-> status]

NewSession(s, h) ==
    /\ session' = [session EXCEPT ![s] = "queued"]
    /\ carries' = [carries EXCEPT ![s] = h]
    /\ UNCHANGED <<lease, attempts>>

\* updateAgentSession({ status }): by id, whatever the row says by then.
SetSession(s, to) ==
    /\ session' = [session EXCEPT ![s] = to]
    /\ UNCHANGED <<lease, attempts, carries>>

StepsBecome(s, to) ==
    step' = [i \in Actions |->
                IF StageOf(i) = s /\ step[i] \in {"planned", "running"} THEN to
                ELSE IF StageOf(i) > s /\ step[i] = "planned" THEN "cancelled" ELSE step[i]]

\* The failed and cancelled branches of markAutomationRunForSession: the stage
\* ends, and every later step that is only planned is cancelled.
StopRun(s, to) ==
    /\ run' = to
    /\ control' = [t \in Stages |->
                      IF t = s /\ control[t] \in {"planned", "running"} THEN to
                      ELSE IF t > s /\ control[t] = "planned" THEN "cancelled"
                      ELSE control[t]]
    /\ StepsBecome(s, to)

NextStages(s) == {t \in Stages : t > s /\ control[t] = "planned"}

\* Slips: one action of the stage is enough; actions are not looked at.
AnyActionDone(s) == \E i \in ActionsOf(s) : step[i] = "succeeded"

SessionDone(s) == session[s] = "completed"

\* "actionRows.length > 0 && actionRows.every(...)".
StageSucceeded(s) ==
    /\ ActionsOf(s) # {}
    /\ \A i \in ActionsOf(s) : step[i] = "succeeded"

\* Its succeeded branch: whoever reports success, the actions decide.
SucceedStage(s) ==
    IF StageSucceeded(s)
    THEN /\ control' = [control EXCEPT ![s] = "succeeded"]
         /\ run' = IF NextStages(s) = {} THEN "succeeded" ELSE "running"
         /\ UNCHANGED step
    ELSE StopRun(s, "failed")

\* Its running branch.
StartStage(s) ==
    /\ run' = "running"
    /\ control' = [control EXCEPT ![s] = "running"]
    /\ UNCHANGED step

-----------------------------------------------------------------------------
(* The dispatch: dispatchStructuredAutomation, of actors that are agents.  *)

ToDisp(d, to) == disp' = [disp EXCEPT ![d] = to]

\* createObservedAutomationRun: the plan, and no session.
Observe(d) ==
    /\ disp[d] = "idle" /\ observe
    /\ ToDisp(d, "done")
    /\ \/ run = "none" /\ run' = "observed" /\ Plan("observed")
       \/ run # "none" /\ UNCHANGED runVars
    /\ UNCHANGED <<fixed, rowVars, jobs, wk, sweep, cancelling, hold, told>>

\* reserveAutomationRun; it is denied when the owner has too few credits.
Reserve(d) ==
    /\ disp[d] = "idle" /\ ~observe
    /\ \/ ToDisp(d, "claim") /\ TakeHold(d)
       \/ ToDisp(d, "done") /\ UNCHANGED hold
    /\ UNCHANGED <<fixed, runVars, rowVars, jobs, wk, sweep, cancelling, told>>

\* Slip: the hold of a duplicate is forgotten.
ClaimForgets(d) ==
    /\ disp[d] = "claim"
    /\ IF run = "none"
       THEN /\ run' = "planned" /\ Plan("planned")
            /\ NewSession(0, d)
            /\ ToDisp(d, "enqueue")
       ELSE ToDisp(d, "done") /\ UNCHANGED <<runVars, rowVars>>
    /\ UNCHANGED <<fixed, jobs, wk, sweep, cancelling, hold, told>>

\* claimAutomationRunPlan and createAgentSession, in one transaction: the
\* occurrence's key admits one run.  A claim that loses, or throws, has a hold
\* to give back.
Claim(d) ==
    /\ disp[d] = "claim"
    /\ \/ /\ run = "none"
          /\ run' = "planned" /\ Plan("planned")
          /\ NewSession(0, d)
          /\ \/ ToDisp(d, "enqueue")
             \/ "lostReply" \in faults /\ ToDisp(d, "refund")
       \/ /\ ToDisp(d, "refund")
          /\ UNCHANGED <<runVars, rowVars>>
    /\ UNCHANGED <<fixed, jobs, wk, sweep, cancelling, hold, told>>

RefundClaim(d) ==
    /\ disp[d] = "refund"
    /\ GiveBack(d)
    /\ ToDisp(d, "done")
    /\ UNCHANGED <<fixed, runVars, rowVars, jobs, wk, sweep, cancelling, told>>

\* enqueueAgentSession runs the session in-process when the queue refuses it.
Enqueue(d) ==
    /\ disp[d] = "enqueue"
    /\ jobs' = jobs \cup {0}
    /\ ToDisp(d, "done")
    /\ UNCHANGED <<fixed, runVars, rowVars, wk, sweep, cancelling, hold, told>>

CrashDispatch(d) ==
    /\ "crashReporting" \in faults
    /\ disp[d] \in {"claim", "refund", "enqueue"}
    /\ ToDisp(d, "done")
    /\ UNCHANGED <<fixed, runVars, rowVars, jobs, wk, sweep, cancelling, hold, told>>

DispatchStep(d) ==
    \/ Observe(d) \/ Reserve(d) \/ Claim(d) \/ RefundClaim(d) \/ Enqueue(d)
    \/ CrashDispatch(d)

-----------------------------------------------------------------------------
(* The worker of a stage: runAgentSession, then processAgentSession.       *)

Goto(s, to) == pc' = [pc EXCEPT ![s] = to] /\ UNCHANGED final

Ends(s, to, outcome) ==
    /\ pc' = [pc EXCEPT ![s] = to]
    /\ final' = [final EXCEPT ![s] = outcome]

\* A settled session, or one with a live lease, is skipped and its job done.
TakeJob(s) ==
    /\ s \in jobs
    /\ pc[s] = "idle"
    /\ jobs' = jobs \ {s}
    /\ IF session[s] \in Open /\ lease[s] # "live"
       THEN /\ session' = [session EXCEPT ![s] = "running"]
            /\ lease' = [lease EXCEPT ![s] = "live"]
            /\ attempts' = [attempts EXCEPT ![s] = @ + 1]
            /\ Goto(s, IF attempts[s] < MaxAttempts THEN "start" ELSE "abandon")
       ELSE UNCHANGED <<session, lease, attempts, wk>>
    /\ UNCHANGED <<fixed, runVars, disp, carries, sweep, cancelling, hold, told>>

\* The agent is found, and the run is running.
Start(s) ==
    /\ pc[s] = "start"
    /\ StartStage(s)
    /\ Goto(s, "work")
    /\ UNCHANGED <<fixed, disp, rowVars, jobs, sweep, cancelling, hold, told>>

\* "Agent not found": the row is failed, its hold left alone.
AgentGone(s) ==
    /\ "agentGone" \in faults
    /\ pc[s] = "start"
    /\ SetSession(s, "failed")
    /\ Ends(s, "mark", "failed")
    /\ UNCHANGED <<fixed, runVars, disp, jobs, sweep, cancelling, hold, told>>

\* A tool call of a declared action; a step that cannot be written is logged.
Act(s, i) ==
    /\ pc[s] = "work"
    /\ i \in ActionsOf(s)
    /\ \E to \in {"running", "succeeded", "failed"} :
           /\ to # "running" => step[i] = "running"
           /\ step' = [step EXCEPT ![i] = to]
    /\ UNCHANGED <<fixed, run, control, disp, rowVars, jobs, wk, sweep, cancelling, hold,
                   told>>

\* The loop is over: the agent says so, runs out of budget, sees that it was
\* cancelled, or its orchestrator failed.
Conclude(s) ==
    /\ pc[s] = "work"
    /\ \/ Ends(s, "charge", "completed")
       \/ Ends(s, "charge", "failed")
       \/ session[s] = "cancelled" /\ Ends(s, "charge", "cancelled")
    /\ UNCHANGED <<fixed, runVars, disp, rowVars, jobs, sweep, cancelling, hold, told>>

\* A cancelled row cannot be renewed: its worker leaves it to "the worker that
\* holds it".
LeaveLost(s) ==
    /\ pc[s] = "work"
    /\ session[s] = "cancelled"
    /\ Goto(s, "idle")
    /\ UNCHANGED <<fixed, runVars, disp, rowVars, jobs, sweep, cancelling, hold, told>>

Break(s) ==
    /\ pc[s] = "work"
    /\ Goto(s, "refund")
    /\ UNCHANGED <<fixed, runVars, disp, rowVars, jobs, sweep, cancelling, hold, told>>

Charge(s) ==
    /\ pc[s] = "charge"
    /\ charged' = [charged EXCEPT ![carries[s]] = @ + 1]
    /\ Goto(s, "save")
    /\ UNCHANGED <<fixed, runVars, disp, rowVars, jobs, sweep, cancelling, taken, returned, told>>

\* Of an error caught (before the row is failed), or of a run that was
\* abandoned (after it).
Refund(s) ==
    /\ pc[s] \in {"refund", "refundAbandoned"}
    /\ GiveBack(carries[s])
    /\ IF pc[s] = "refund" THEN Ends(s, "save", "failed") ELSE Ends(s, "mark", "failed")
    /\ UNCHANGED <<fixed, runVars, disp, rowVars, jobs, sweep, cancelling, told>>

\* abandonExhaustedRun.
Abandon(s) ==
    /\ pc[s] = "abandon"
    /\ SetSession(s, "failed")
    /\ Goto(s, "refundAbandoned")
    /\ UNCHANGED <<fixed, runVars, disp, jobs, sweep, cancelling, hold, told>>

Save(s) ==
    /\ pc[s] = "save"
    /\ SetSession(s, final[s])
    /\ Goto(s, "mark")
    /\ UNCHANGED <<fixed, runVars, disp, jobs, sweep, cancelling, hold, told>>

\* "Failed to save session on completion": logged, and the worker goes on.
SaveFails(s) ==
    /\ "saveFails" \in faults
    /\ pc[s] \in {"save", "mark"}
    /\ Goto(s, "leave")
    /\ UNCHANGED <<fixed, runVars, disp, rowVars, jobs, sweep, cancelling, hold, told>>

\* markAutomationRunForSession with the outcome of the session.
Mark(s) ==
    /\ pc[s] = "mark"
    /\ IF final[s] = "completed" THEN SucceedStage(s) ELSE StopRun(s, final[s])
    /\ Goto(s, "leave")
    /\ UNCHANGED <<fixed, disp, rowVars, jobs, sweep, cancelling, hold, told>>

\* The lease is released; a renewal that came after the final status matched no
\* row, and the worker believes it lost the run.
Leave(s) ==
    /\ pc[s] = "leave"
    /\ lease' = [lease EXCEPT ![s] = "null"]
    /\ \/ Goto(s, "advance")
       \/ /\ "lateRenewal" \in faults
          /\ session[s] # "running"
          /\ Goto(s, "idle")
    /\ UNCHANGED <<fixed, runVars, disp, session, attempts, carries, jobs, sweep,
                   cancelling, hold, told>>

\* Slip: a stage that cannot be continued is nobody's business.
AdvanceOrLeave(s) ==
    /\ pc[s] = "advance"
    /\ Goto(s, IF run \in Ended THEN "tell"
               ELSE IF control[s] = "succeeded" /\ NextStages(s) # {} THEN "reserve"
               ELSE "idle")
    /\ UNCHANGED <<fixed, runVars, disp, rowVars, jobs, sweep, cancelling, hold, told>>

\* automationRunProgressForSession: terminal, next, or invalid.
Advance(s) ==
    /\ pc[s] = "advance"
    /\ Goto(s, IF run \in Ended THEN "tell"
               ELSE IF control[s] = "succeeded" /\ NextStages(s) # {} THEN "reserve"
               ELSE "stop")
    /\ UNCHANGED <<fixed, runVars, disp, rowVars, jobs, sweep, cancelling, hold, told>>

\* The hold of the next stage, or the end of the run without one.
ReserveNext(s) ==
    /\ pc[s] = "reserve"
    /\ \/ Goto(s, "create") /\ TakeHold(s)
       \/ Goto(s, "stop") /\ UNCHANGED hold
    /\ UNCHANGED <<fixed, runVars, disp, rowVars, jobs, sweep, cancelling, told>>

\* An invalid progress and a refused hold fail the run.
Stop(s) ==
    /\ pc[s] = "stop"
    /\ StopRun(s, "failed")
    /\ Goto(s, "tell")
    /\ UNCHANGED <<fixed, disp, rowVars, jobs, sweep, cancelling, hold, told>>

NextStage(s) == CHOOSE t \in NextStages(s) : \A u \in NextStages(s) : t <= u

\* createAutomationStageSession: unique per run and stage.  The one that was
\* already there is enqueued, with its own hold; the new one is given back.
CreateNext(s) ==
    /\ pc[s] = "create"
    /\ IF session[NextStage(s)] # "none"
       THEN GiveBack(s) /\ Goto(s, "enqueue") /\ UNCHANGED rowVars
       ELSE \/ /\ NewSession(NextStage(s), s)
               /\ \/ Goto(s, "enqueue")
                  \/ "lostReply" \in faults /\ Goto(s, "giveBack")
               /\ UNCHANGED hold
            \/ Goto(s, "giveBack") /\ UNCHANGED <<rowVars, hold>>
    /\ UNCHANGED <<fixed, runVars, disp, jobs, sweep, cancelling, told>>

EnqueueNext(s) ==
    /\ pc[s] = "enqueue"
    /\ jobs' = jobs \cup {NextStage(s)}
    /\ Goto(s, "idle")
    /\ UNCHANGED <<fixed, runVars, disp, rowVars, sweep, cancelling, hold, told>>

\* The stage could not be created: its hold goes back, the run is failed, and
\* the job thrown for a retry that will find the session settled.
GiveBackNext(s) ==
    /\ pc[s] = "giveBack"
    /\ GiveBack(s)
    /\ Goto(s, "throw")
    /\ UNCHANGED <<fixed, runVars, disp, rowVars, jobs, sweep, cancelling, told>>

ThrowNext(s) ==
    /\ pc[s] = "throw"
    /\ StopRun(s, "failed")
    /\ jobs' = jobs \cup {s}
    /\ Goto(s, "idle")
    /\ UNCHANGED <<fixed, disp, rowVars, sweep, cancelling, hold, told>>

\* The result of the run goes into the person's conversation with the agent.
Tell(s) ==
    /\ pc[s] = "tell"
    /\ told' = [told EXCEPT ![IF run = "succeeded" THEN "result" ELSE "sorry"] = @ + 1]
    /\ Goto(s, "idle")
    /\ UNCHANGED <<fixed, runVars, disp, rowVars, jobs, sweep, cancelling, hold>>

Driving   == {"start", "work"}
Reporting == {"mark", "leave", "advance", "reserve", "create", "stop", "giveBack", "throw",
              "enqueue", "tell"}

\* The queue redelivers the job of a worker that died, once it missed it.
Crash(s) ==
    /\ \/ "crash" \in faults /\ pc[s] \in Driving
       \/ "crashReporting" \in faults /\ pc[s] \in Reporting
    /\ Goto(s, "idle")
    /\ \/ jobs' = jobs \cup {s}
       \/ UNCHANGED jobs
    /\ UNCHANGED <<fixed, runVars, disp, rowVars, sweep, cancelling, hold, told>>

WorkerStep(s) ==
    \/ Start(s) \/ AgentGone(s) \/ Conclude(s) \/ LeaveLost(s) \/ Break(s) \/ Charge(s)
    \/ Refund(s) \/ Abandon(s) \/ Save(s) \/ SaveFails(s) \/ Mark(s) \/ Leave(s)
    \/ Advance(s) \/ ReserveNext(s) \/ Stop(s) \/ CreateNext(s) \/ EnqueueNext(s)
    \/ GiveBackNext(s) \/ ThrowNext(s) \/ Tell(s)

-----------------------------------------------------------------------------
(* The sweeps, and the cancel route.                                       *)

\* RUNNER_LEASE_MS after the worker died.
Lapse(s) ==
    /\ session[s] = "running" /\ lease[s] = "live" /\ pc[s] = "idle"
    /\ lease' = [lease EXCEPT ![s] = "lapsed"]
    /\ UNCHANGED <<fixed, runVars, disp, session, attempts, carries, jobs, wk, sweep,
                   cancelling, hold, told>>

Resume(s) ==
    /\ session[s] = "running" /\ lease[s] = "lapsed"
    /\ attempts[s] < MaxAttempts
    /\ jobs' = jobs \cup {s}
    /\ UNCHANGED <<fixed, runVars, disp, rowVars, wk, sweep, cancelling, hold, told>>

\* Slip: a run that is out of attempts is failed without a look at its lease.
FailAnyExhausted(s) ==
    /\ session[s] = "running"
    /\ attempts[s] >= MaxAttempts
    /\ session' = [session EXCEPT ![s] = "failed"]
    /\ lease' = [lease EXCEPT ![s] = "null"]
    /\ sweep' = [sweep EXCEPT ![s] = "refundExhausted"]
    /\ UNCHANGED <<fixed, runVars, disp, attempts, carries, jobs, wk, cancelling, hold, told>>

\* failExhaustedAgentSessionRun.
FailExhausted(s) ==
    /\ session[s] = "running" /\ lease[s] = "lapsed"
    /\ attempts[s] >= MaxAttempts
    /\ session' = [session EXCEPT ![s] = "failed"]
    /\ lease' = [lease EXCEPT ![s] = "null"]
    /\ sweep' = [sweep EXCEPT ![s] = "refundExhausted"]
    /\ UNCHANGED <<fixed, runVars, disp, attempts, carries, jobs, wk, cancelling, hold, told>>

\* Slip: a session that started may be an orphan as well.
ClaimAnyOrphan(s) ==
    /\ "orphan" \in faults
    /\ session[s] \in Open
    /\ session' = [session EXCEPT ![s] = "failed"]
    /\ sweep' = [sweep EXCEPT ![s] = "refundOrphan"]
    /\ UNCHANGED <<fixed, runVars, disp, lease, attempts, carries, jobs, wk, cancelling,
                   hold, told>>

\* claimOrphanedQueuedAgentSessions: half an hour in the queue.
ClaimOrphan(s) ==
    /\ "orphan" \in faults
    /\ session[s] = "queued"
    /\ \A d \in Dispatchers : disp[d] \notin {"enqueue", "refund"}
    /\ \A t \in Stages : pc[t] \notin {"enqueue", "giveBack"}
    /\ session' = [session EXCEPT ![s] = "failed"]
    /\ sweep' = [sweep EXCEPT ![s] = "refundOrphan"]
    /\ UNCHANGED <<fixed, runVars, disp, lease, attempts, carries, jobs, wk, cancelling,
                   hold, told>>

SweepRefund(s) ==
    /\ sweep[s] \in {"refundExhausted", "refundOrphan"}
    /\ GiveBack(carries[s])
    /\ sweep' = [sweep EXCEPT ![s] = IF @ = "refundExhausted" THEN "mark" ELSE "idle"]
    /\ UNCHANGED <<fixed, runVars, disp, rowVars, jobs, wk, cancelling, told>>

\* "A task could not finish": only the sweep that failed it marks its run.
SweepMark(s) ==
    /\ sweep[s] = "mark"
    /\ StopRun(s, "failed")
    /\ sweep' = [sweep EXCEPT ![s] = "idle"]
    /\ told' = [told EXCEPT !["stopped"] = @ + 1]
    /\ UNCHANGED <<fixed, disp, rowVars, jobs, wk, cancelling, hold>>

\* The route reads the status, removes a waiting job, and writes the status.
ReadCancel(s) ==
    /\ "cancel" \in faults
    /\ session[s] \in Open
    /\ s \notin cancelling
    /\ cancelling' = cancelling \cup {s}
    /\ jobs' \in {jobs, jobs \ {s}}
    /\ UNCHANGED <<fixed, runVars, disp, rowVars, wk, sweep, hold, told>>

WriteCancel(s) ==
    /\ s \in cancelling
    /\ cancelling' = cancelling \ {s}
    /\ SetSession(s, "cancelled")
    /\ UNCHANGED <<fixed, runVars, disp, jobs, wk, sweep, hold, told>>

SweepStep(s) ==
    Lapse(s) \/ Resume(s) \/ FailExhausted(s) \/ ClaimOrphan(s) \/ SweepRefund(s)
    \/ SweepMark(s)

CancelStep(s) == ReadCancel(s) \/ WriteCancel(s)

Next ==
    \/ \E d \in Dispatchers : DispatchStep(d)
    \/ \E s \in Stages : TakeJob(s) \/ WorkerStep(s) \/ Crash(s) \/ SweepStep(s) \/ CancelStep(s)
    \/ \E s \in Stages : \E i \in Actions : Act(s, i)

Spec == Init /\ [][Next]_vars

\* Dispatchers and workers run, a queue with a job delivers it, time passes for
\* the leases and the sweeps come round.  Nobody has to call a tool or to cancel.
Fairness ==
    /\ \A d \in Dispatchers : WF_vars(DispatchStep(d))
    /\ \A s \in Stages :
           /\ WF_vars(TakeJob(s)) /\ WF_vars(WorkerStep(s))
           /\ WF_vars(Lapse(s)) /\ WF_vars(Resume(s)) /\ WF_vars(FailExhausted(s))
           /\ WF_vars(ClaimOrphan(s)) /\ WF_vars(SweepRefund(s)) /\ WF_vars(SweepMark(s))

FairSpec == Spec /\ Fairness

-----------------------------------------------------------------------------
(* Properties.                                                             *)

StepStatuses == {"none", "planned", "running", "observed"} \cup Ended

TypeOK ==
    /\ run \in StepStatuses
    /\ control \in [Stages -> StepStatuses]
    /\ step \in [Actions -> StepStatuses]
    /\ disp \in [Dispatchers -> {"idle", "claim", "refund", "enqueue", "done"}]
    /\ session \in [Stages -> Open \cup {"none", "completed", "failed", "cancelled"}]
    /\ lease \in [Stages -> {"null", "live", "lapsed"}]
    /\ attempts \in [Stages -> 0 .. MaxAttempts + 1]
    /\ carries \in [Stages -> Holds \cup {NoHold}]
    /\ jobs \in SUBSET Stages
    /\ \A s \in Stages : pc[s] # "idle" => session[s] # "none" /\ carries[s] \in Holds
    /\ \A s \in Stages : pc[s] \in {"save", "mark"} =>
                             final[s] \in {"completed", "failed", "cancelled"}
    /\ sweep \in [Stages -> {"idle", "refundExhausted", "refundOrphan", "mark"}]
    /\ cancelling \in SUBSET Stages
    /\ taken \in [Holds -> BOOLEAN] /\ charged \in [Holds -> 0 .. 1] /\ returned \in [Holds -> 0 .. 2]
    /\ told \in [News -> 0 .. 1]

Outcome ==
    [h \in Holds |->
        IF charged[h] + returned[h] > 1 THEN "settled twice"
        ELSE IF charged[h] = 1          THEN "charged"
        ELSE IF returned[h] = 1         THEN "returned"
        ELSE IF taken[h]                THEN "held" ELSE "none"]

Ledger == INSTANCE SettleOnce WITH outcome <- Outcome

\* Every hold of a run, whether a dispatcher or the advance of an earlier stage
\* took it, is charged or given back at most once and never both, whoever of
\* dispatcher, advance, worker and sweeps comes to settle it.  (Not promised
\* when the answer to a commit is lost: then its taker gives back a hold that a
\* row carries.)
HoldSettlesOnce == [][ "lostReply" \in faults \/ Ledger!SettleNext ]_Outcome

\* A stage has a session only when every earlier stage has succeeded with all
\* its actions, and never are two stages of a run at work.
StagesInOrder ==
    \A t \in Stages : session[t] # "none" =>
        /\ \A s \in 0 .. t - 1 : control[s] = "succeeded"
        /\ \A i \in Actions : StageOf(i) < t => step[i] = "succeeded"
        /\ \A s \in 0 .. t - 1 : pc[s] \notin {"start", "work", "charge", "save", "mark"}

\* A run that reports success did all of it: every stage and every declared
\* action succeeded, and each stage's own hold was charged.
SucceededMeansDone ==
    run = "succeeded" =>
        /\ \A i \in Actions : step[i] = "succeeded"
        /\ \A s \in 0 .. Last :
              control[s] = "succeeded" /\ carries[s] # NoHold /\ charged[carries[s]] = 1

\* A run that ended stays as it ended: no resumed worker, late sweep, redelivered
\* job or cancellation turns a failed run into a running or a successful one.
EndedRunStays == [][ (run \in Ended) => run' = run ]_vars

\* The person hears of a run at most once, and what they hear is what it became.
OneStory ==
    /\ told["result"] + told["sorry"] + told["stopped"] <= 1
    /\ told["result"] = 1 => run = "succeeded"
    /\ told["sorry"] + told["stopped"] = 1 => run \in {"failed", "cancelled"}

\* A claimed run ends, although its workers may die until it is given up, or the
\* agent is deleted, or updates fail.
EveryRunEnds ==
    run = "planned" /\ faults \subseteq {"crash", "saveFails", "agentGone"} ~> run \in Ended

\* Its holds are settled, also of sessions nobody picked up and of runs whose
\* worker believes it lost them.
EveryHoldSettles ==
    \A h \in Holds :
        taken[h] /\ faults \subseteq {"crash", "orphan", "lateRenewal"}
            ~> charged[h] + returned[h] > 0

\* Not promised by the code: a run that was claimed ends, whatever happens once
\* its session has ended.
RunAlwaysEnds == run = "planned" ~> run \in Ended

\* Nor this: "This scheduled task has no connected-app effects"
\* (automation-stage-task.ts:118): a run whose session completed without declared
\* actions has not failed.
NoActionsNoFailure == Actions = {} /\ session[0] = "completed" => run # "failed"
=============================================================================
