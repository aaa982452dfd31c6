# Alia: runs, credits, the scheduler and the computer host

A TLA+ project beside the code of Alia (`packages/`). It models the machinery that runs work
nobody is waiting in front of, pays for it from the owner's credits, decides which process
schedules it and gives it a computer to work on: who may drive a run, in which order its stages
run, who settles its hold, what the balance rows mean, who leads, who may act in a container; and
of the work somebody does wait for, what a Stop means and what becomes of a turn's credits. These
are the parts where processes, a queue, timers and the database meet, and where a mistake costs
somebody credits, or does a thing twice, without a trace in a test.

Paths below are relative to `packages/api/src` unless they start with `packages/`.

1. [The system](#1-the-system)
2. [Modules](#2-modules)
3. [Runs, bounds and what they show](#3-runs-bounds-and-what-they-show)
4. [Fairness](#4-fairness)
5. [Proofs](#5-proofs)
6. [Where the code and its words disagree](#6-where-the-code-and-its-words-disagree)
7. [What is not modelled](#7-what-is-not-modelled)
8. [Plan](#8-plan)

## 1. The system

Alia is an assistant: a chat API with tools, agents that work in the background, scheduled
automations, and clients around them. Several API processes run the same program against one
Postgres and one Redis (BullMQ). There is no other coordination: every guarantee is a
conditional SQL statement, a transaction, a lease on a row, or a job id in the queue.

| component | state it keeps | operations | talks to | what makes it correct |
|---|---|---|---|---|
| Alia task runs (`lib/automation-dispatcher.ts`, `lib/alia-task-*.ts`) | `automation_runs` row (status, lease), its action step, the queue's job, the hold in the row | dispatch (reserve, claim, enqueue), worker attempts, conditional close, reap | ledger, queue, definition repository, the person's conversation | one run per occurrence; its hold is charged or returned once; the person hears one story that agrees with it |
| Background agent runs (`lib/agent/runner.ts`, `session-handoff.ts`, `run-reaper.ts`, `lib/task-queue.ts`) | `agent_sessions` row (status, lease owner and expiry, attempts), queue jobs that are kept after they end | handoff, claim, renew, drive, settle, cancel, resume, give up, orphan sweep | ledger, queue, automations, conversations | one driver per session; ended sessions stay ended; one settlement |
| Credit ledger (`lib/credits-manager.ts`, `db/billing/userCreditsRepository.ts`) | two buckets per account, `credit_operations` rows | reserve, settle by tokens or at a price, replay, refund, purchase, daily refresh | everything that costs credits | no overdraft; the rows explain the balance; purchases are never lost |
| Product credit allocations (`lib/product-credit-allocations.ts`) | quota reserved and consumed per grant | reserve, settle, refund against a grant | ledger, Oxy's entitlement snapshot (external) | no grant is handed out beyond what it includes |
| Leader election (`lib/leader-election.ts`, `db/coordination/leaseRepository.ts`) | one lease row; per process: leader, last renewal, heartbeats in progress | heartbeat, demotion, hooks, stop | trigger engine, skill registry | a leader is close to its lease; a process that leaves does not block its successor |
| Trigger engine (`lib/trigger-engine.ts`) | cron tasks, reconciliation timer, occurrences already attempted | start, stop, fire, reconcile, catch up | dispatcher, election | every occurrence is dispatched, once |
| Automation run plans (`lib/automation-run-coordinator.ts`, `db/automation/*`) | runs, stages, actions | claim with stages, start a stage, close from a session | agent runs, dispatcher | a run ends as its stages ended |
| Content watches (`lib/alia-watch.ts`, `automationWatchRepository.ts`) | last hash, failure streak, pause | observe, fail, pause | Alia task runs | each change is reported once |
| Chat turns (`lib/chat/turn-control.ts`, `lib/credit-reconciliation.ts`) | turn row (claimed, running, finishing, cancelled), reconciliation requests, provider receipts | claim, observe, stop, finish, recover a hold | ledger, inference client | Stop or finish wins, not both; a dead turn's hold is recovered once |
| Agent admission (`lib/agent`, `db/agents`) | concurrent sessions per owner, follow-ups | admit, queue a follow-up, take a turn | agent runs | the limit holds; no follow-up is lost |
| Moderation outbox (`lib/crowdsource`) | leased events, attempts, dead letters | claim, renew, complete, fail | external moderation | at-least-once delivery by one leaseholder |
| Billing (`routes/billing.ts`) | subscriptions, processed webhooks | purchase, renew, cancel | ledger | each payment credited once |
| Chat pipeline, voice, shows, files, memory, skills, channels, caches, expiry | mostly per request | | external services | see section 7 |
| Computer host (`packages/alia-computer-host`) | per actor: a lease, receipts of operations, a container | command, file, start, stop, idle sweep, drain | Docker | an operation executes at most once; a finished receipt stays; a stop pre-empts, it does not corrupt |
| Clients and tools (`packages/alia-chat`, `app`, `alia-codea`, `alia-cowork`, `alia-server`, `integrations`) | user interfaces and local tools | | the API | see section 7 |

How they interact: the **trigger engine** on the leading process calls the **dispatcher**, which
reserves credits in the **ledger**, claims a run (a row with a unique occurrence key) and hands
it to the **queue**; an **Alia worker** or, through a **handoff**, an **agent worker** drives
it, closes the row and settles the hold in the ledger; every process also runs the
**reapers**, which look for rows nobody drives any more. The workers never talk to each other.

The hard behaviours: jobs delivered twice, lost, or refused after they were taken; workers
that are slow rather than dead and come back after somebody else settled their run; crashes
between two statements; replies lost after a commit; rows read, then acted on a statement
later; leases judged by a clock that runs at the other end; and two-statement settlements on a
balance others change. `PROJECT.json` lists these hazards line by line with the properties that
stand against each.

## 2. Modules

| module | models | proofs |
|---|---|---|
| `SettleOnce` | the abstract promise of a hold: taken, then charged **or** given back, once | |
| `AliaTaskRun` | one scheduled task from dispatch to settlement | `AliaTaskRunProofs` |
| `AgentRun` | one background agent session from handoff to settlement | `AgentRunProofs`, `AgentHoldProofs` |
| `CreditLedger` | one account: both buckets, operations, product quota | `CreditLedgerProofs` |
| `AutomationRun` | an automation by agents: its plan of stages, each stage's session and hold | `AutomationRunProofs` |
| `ChatTurn` | a chat turn a client can stop, and the reconciliation of its hold; EXTENDS `CreditLedger` | `ChatTurnProofs` |
| `ComputerHost` | the computers agents run commands in: leases, receipts, containers, drain | `ComputerHostProofs` |
| `LeaderLease` | who runs the scheduler, and its starts and stops | `LeaderLeaseProofs` |
| `MC*` | constants, symmetry sets and the view for TLC | |

Conventions. One action is one SQL statement, one transaction, or one call of the queue;
whatever a process does between two of them is invisible to the others and is part of the next
action. A `pc` names the statement a process does next. Faults that would make a promise
vacuous, or that the code knowingly leaves to chance, are switched by the constant `Faults` (`FaultSets`),
so a run says which of them it withstands. Definitions introduced by "Slip:" or "Bug:" are
plausible wrong versions of the definition below them; no specification uses them, each shows
that some property would notice.

**AliaTaskRun.** `dispatch` is `dispatchAliaTask` (reserve, `claimHoldingCredits` with its
refund on a duplicate or a throw, `enqueueAliaTask`); `status`, `stale` and `action` are the
run row, its lease or pick-up grace, and its action step; `job` and `direct` are BullMQ's job
and the in-process fallback; `wk` is `runAliaTask` (`load`, `definition`, `renew`, `turn`,
`close`, `charge`, `post`, and the catch block); `rp` is `reapAbandonedAliaRuns` on each
process: a list first, then per run a conditional fail, a refund and a notice. `charges`,
`refunds` and `told` count what happened to the hold and what the person was told. The model's
turn is one state: its length and content are abstract, but its action steps are written by
id, whatever became of the run meanwhile, as in the code.

**AgentRun.** Unlike an Alia run, a session whose worker vanished is resumed. `handoff` is
`startAgentSession` with its three ways to fail; `owner`, `lease`, `attempts` are the run
lease `claimAgentSessionRun` takes and `holdRunLease` renews; the worker's `lost` flag is that
lease object's, set by a renewal that matches no row; `final` and `outcome` are the two answers
`driveAgentSession` and `runAgentSession` give. Job ids are `0` for the first enqueue and `n`
for the resume of attempt `n`; a finished job is *kept*, and adding its id again does nothing,
as in BullMQ. The reaper resumes, fails and refunds, and claims queued orphans; the cancel
route reads, removes the job, and writes. The model's calls and tools are one `Step`.

**CreditLedger.** One account. A *tracked* hold has a `credit_operations` row whose lock makes
every settlement of it one transaction; an *untracked* one lives in its caller's hands. Prices
are computed as in `calculateCredits` at the base rate (rounding up, a minimum, no charge for
Alia's own system prompt). A settlement that finds the balance short is one step under the
balance lock (`settleTrackedReservation`) and two steps without it (`FindShort`,
`EmptyBalance`). `answers` records what each call returned to its caller, `took` what a
settlement really moved; they and the sums `held`, `charged`, `granted`, `purchased` are
history no action reads.

**AutomationRun.** One occurrence of an automation whose actors are agents. `actor` is the agent
selected for each declared action; consecutive actions of one agent are a stage (`StageOf`,
`planAutomationStages`). `control` and `step` are the rows of `automation_steps`: one for a stage,
one for each of its actions. A dispatcher reserves, then claims run, steps and first session in one
transaction. A stage's worker is AgentRun's, reduced to what its end does to the run
(`markAutomationRunForSession`: a stage that says it succeeded is believed only if all its actions
succeeded) and followed by the advance: progress, the hold of the next stage, its session, the
queue. The two reapers and the cancel route write the same rows. `Holds` are named by who took
them, a dispatcher or the advance past a stage. What AgentRun shows of a session, that it has one
worker at a time, is assumed here.

**ChatTurn.** Only requests that carry a turn id: these can be stopped, and these write an intent
before each model call. `row` is the turn's row in `chat_turn_controls`, which a claim, a Stop and a
finish compete for; `at` is the request's handler, `mark` its flags (`providerAbort`, the timer,
the observer, `creditsSettled`), `tally` what it counted. `calls` are the intents in
`credit_operation_attempts`, each followed by Oxy, which runs a call whether or not anybody
listens and settles its record later (external). `sched`, `tries` and `job` are
`credit_reconciliations` and the processes working on it. Every movement of credits is an action of
CreditLedger on the hold with the request's number, so the model is the composition of the two:
request and reconciler meet in the operation row's state, as in the code.

**ComputerHost.** Any number of calls of the service run at once; each is a command, a job for the
background, a file operation, a start, a stop, the idle reaper's stop, a read of a receipt, or a
drain, as its `request` says. A step is one statement of the store or one call of Docker. `token`,
`live` and `stopping` are an actor's lease row, `receipt` and `author` a command's row, `box` and
`inside` the container and the calls whose processes run in it (Docker is external). A stop works
under its own token or, when it pre-empts a command, under that it took (`grip`). Time is not
counted: a lease lapses (`Lapse`) once what it covers is over or its owner died, and, with the
fault `slow`, under a call that still works. A crash ends every call and leaves store and
containers as they are.

**LeaderLease.** Discrete time, the same for everyone. The lease row is `holder` and the time
`left`; a heartbeat is sent when due, executes at the database, and is answered within `Delay`
or fails (before execution, or after it with its answer lost). `quiet` is the time since
`lastRenewOk`, which the code sets when the answer arrives; `age`, a history variable, is the
time since the statement executed, which is what the lease really dates from. `starts` counts
the calls of `startTriggerScheduler` that still await something, `timer` is the timer they set
at their end: the synchronous stop cannot tell a start that awaits. `stop()` waits for
heartbeats in progress and releases the row.

**SettleOnce** is refined by AliaTaskRun, AgentRun and AutomationRun. In AliaTaskRun `HoldOutcome`
maps `charges`, `refunds` and `dispatch` to the abstract `outcome`, in AgentRun it does it from
`charges`, `refunds` and `handoff`, in AutomationRun `Outcome` from `taken`, `charged` and `returned`;
a second movement maps to a value the abstract specification does not have, so that a double
settlement is a step it cannot take. The
reservation of a hold is one step here; how the ledger carries it out is CreditLedger's
subject. The two meet at the ledger's `Reserve`, settle actions and `Refund`, each of which is
one `Take`, `Charge` or `GiveBack`.

## 3. Runs, bounds and what they show

`tlc -workers 4 -config X.cfg MCModule`.

| run | module / cfg | states | shows |
|---|---|---|---|
| alia_run | AliaTaskRun.cfg | 1.1 M | two dispatches of one occurrence, two workers, one reaper, two attempts, a redelivery and crashes anywhere: `OneStory`, `OneRunPerOccurrence`, and the refinement `HoldSettlesOnce` |
| alia_run_liveness | AliaTaskRunLiveness.cfg | 172 k | `EveryHoldSettles`: also of a run whose job is lost or whose definition is gone |
| credit_tracked | CreditLedgerTracked.cfg | 64 k | chat turns: `RowsExplainBalance` (the totals taken from the rows), `PurchasedNeverLost`, `TakesAtMostPrice` |
| credit_mixed | CreditLedgerMixed.cfg | 2.0 M | a tracked turn, a tracked fixed price and an untracked hold on balance and grants at once: `NoOverdraft`, `RepliesAgree`, `TerminalForGood`, `QuotaNeverExceeded`, `QuotaExplained` |
| agent_run | AgentRun.cfg | 1.1 M | cancellations, throws outside the try block, failing claims, no model: `OneDriver`, `NoRevival` |
| agent_holds | AgentRunHolds.cfg | 1.6 M | redelivery, retry, resume, a lost queue reply, forgotten jobs: `OneStory`, and the refinement `HoldSettlesOnce` |
| agent_late | AgentRunLate.cfg | 1.9 M | leases of living workers lapse, final updates fail: `LatestClaimOwns` |
| agent_liveness | AgentRunLiveness.cfg | 79 k | `EveryRunEnds`, `EveryHoldSettles` |
| lease_election | LeaderLease.cfg | 780 k | two processes that crash, stop and start, failing and late heartbeats, lost answers, failing starts and releases: `LeaderNearLease`, `StopLeavesLittle`, `LeaderHasScheduler`, and in the end `SomebodySchedules` |
| automation_run | AutomationRun.cfg | 296 k | one occurrence seen by two dispatchers, plans of up to two actions by two agents, five combinations of faults: `StagesInOrder`, `SucceededMeansDone`, `OneStory`, the refinement `HoldSettlesOnce`, `EveryRunEnds`, `EveryHoldSettles` |
| chat_turn | ChatTurn.cfg | 316 k | a turn sent twice, Stops at any time, two model calls, two reconcilers, four combinations of faults: `StopMeansUnsaved`, `OneRunPerTurn`, `UsedIsNotRefunded`, `ChargedForEveryCall`, `OpenHoldIsScheduled`, `EveryHoldIsDecided` |
| computer_host | ComputerHost.cfg | 159 k | six scenarios of three calls on one computer, with one crash or one late, stuck, slow or abandoned call of Docker: `RunsOnce`, `LeaseCovers`, `AnswersAgree`, `DrainedIsQuiet`, `EveryReceiptEnds` |

Each property is checked where its hazards are; that the state keeps its type, and what the proofs
of section 5 already give for every instance, is not checked again by every run. Further
configurations for the same modules: `LeaderLeaseWide.cfg` (three processes, a shorter lease) and
`AutomationRunStages.cfg` (plans of three actions, one dispatcher) pass; those of section 6 end in
counterexamples.

**Why the bounds are enough.**

- *One run or session at a time.* Rows of different runs share nothing but the workers, and no
  guard looks at two runs except `Taken`, which looks at dispatches with one key. Two dispatches
  of one key are therefore the interesting instance of AliaTaskRun; one session is that of
  AgentRun, one occurrence that of AutomationRun, one account that of the ledger and of ChatTurn, one
  actor that of ComputerHost (the drain looks at all actors, but only at whether any is busy). The
  proofs hold for any number.
- *Two workers, one reaper.* Every race is between two executions of a run, or one and a sweep.
  Two sweeps race only on conditional updates (`FailAbandonedRow`, `FailExhausted`, `ClaimOrphan`),
  which the proofs cover for any number.
- *Attempts, MaxAttempts, QueueAttempts, MaxStalls.* Two attempts are the least with a retry
  that is not the last one; one stall is the least that delivers a job twice; `MaxAttempts = 2`
  the least with a resume and a final give-up. `agent_run` and `agent_late` switch the queue's own
  retry off because there the interest is in cancellations and late leases; resumption still
  delivers the session again. `agent_holds` has both.
- *Faults.* Each run names its own. `crashSettling` (a death between closing and settling),
  `lostReply` (an answer lost after a commit) and `late` (a living worker's lease lapses) are on
  where a property still holds and off where the code does not defend it: section 6 has a
  configuration for each of those, and they end in counterexamples. With `crashHolding` off in
  the liveness run a dispatch that dies with an unclaimed hold in its hands is left out: nothing
  durable names that hold.
- *Stages.* Two actions by two agents are one stage or two; the first stage is the dispatcher's, the
  second the advance's, and the end of the second is the end of the plan. `AutomationRunStages.cfg`
  adds plans whose middle stage both follows and precedes one, and stages of two actions.
- *FaultSets.* AutomationRun and ChatTurn choose one combination of faults at the start. Each set
  holds the faults that meet in one hazard (a lost worker and a failing update; two leaders); all at
  once would multiply the states without another order of two of them.
- *Two requests, two calls.* A resent turn is two requests; a second model call makes the difference
  between what a request saw and what the provider used. Tokens 0 and 25 against a hold of 2
  credits of 10 tokens are nothing used, and more than was held. Two tries are one that fails and
  one that is the last.
- *Scenarios.* A call of ComputerHost contends with at most one other at a time, for the lease, and
  a third sees what the two left. The six scenarios pair what shares a rule: the same operation
  twice, a command and its stop, a reader and a command cut off, the sweep and a start, the drain
  and what begins under it.
- *Amounts.* FreeLimit 2 or 3, amounts of 1 to 3 and prices of 1 to 4 make every case of
  "short": nothing missing, free bucket crossed, exactly zero, beyond both. `Included` 4 and 3
  make both grants run out. `MinCredits` 1 and `TokensPerCredit` 10 with usages of 0, 8, 30/12 and
  35 tokens cover the minimum, rounding and the discount. Two purchases, unboundedly many
  refreshes.
- *Time.* Heartbeat 2 and TTL 4 stand for the code's 20 s and 60 s: the shorter lease
  makes the overlaps easier to reach, and the proofs hold for every pair; `Delay` 1 is a heartbeat
  answered late but before the next is due. Ages beyond `Cap` behave alike. `MaxFails` 2 is enough for the
  lease to lapse (TTL / Heartbeat heartbeats in a row), `MaxStarts` 2 for a start that outlives a
  demotion and the next election.
- *Age* (an old queued row) waits until the handoff is over: the orphan threshold is far longer
  than a handoff takes.
- *Symmetry.* Processes are interchangeable. Runs are too where all carry one key (`OneKey`).
  Holds are where all are of one kind. No liveness run uses symmetry.
- *VIEW Unrecorded* in agent_late drops `charges`, `refunds` and `told`, the age of a row that is no
  longer queued (`old` is read of queued rows only, and no row becomes queued again) and a worker's
  `final` where no statement of it will read it any more. No guard reads the rest and
  `LatestClaimOwns` mentions none of it, so two states that differ only there have the same futures
  for that property.
- *Deadlock* is not checked for AliaTaskRun, AgentRun, AutomationRun, ChatTurn and ComputerHost: with
  every run, turn or call ended the modelled system has nothing left to do. It is checked for the ledger, where the day
  always passes, and for the election, where time does.

## 4. Fairness

Nothing is assumed of the queue: it may lose every job. The person may cancel or not.

- *AliaTaskRun.* Leases lapse (`WF Lapse`: time). A worker that has taken a job runs on
  (`WF WorkerStep`: the turn has a timeout). A sweep gets to list a run, and through a listed run
  (`SF List`, `SF ReaperStep`): a sweep may be interrupted, but every process sweeps again each
  minute (`REAP_EVERY_MS`), so one that is possible again and again does happen. Workers may crash
  any number of times; the row's lease is what saves the run.
- *AgentRun.* The same, with `SF` of taking a job that is offered again and again, and of
  `Complete`: the loop is bounded by `maxSteps` and ten minutes, so it does not step for ever. A
  handoff gets on, or dies.
- *AutomationRun.* Dispatchers and workers get on, a queue that has a job delivers it, leases lapse
  and the sweeps come round. Nobody has to call a tool or to cancel, and a worker may end its loop
  at any time: the loop is bounded. `EveryRunEnds` and `EveryHoldSettles` name the faults under which
  they are promised; a run whose process dies between its session's end and the advance is not
  among them (section 6).
- *ChatTurn.* A request that has begun proceeds (or dies: every wait of it has a timer), its timer
  and the schedule fall due, and a reconciling process goes through a round. Oxy need not answer: a
  record that never settles uses up the attempts.
- *ComputerHost.* A call proceeds: Docker's calls have a timeout. A lease lapses once nobody renews
  what it covers. Callers need not call; `EveryReceiptEnds` asks somebody to read the receipt,
  because only a reader writes a dead command's receipt off.
- *LeaderLease.* Time passes; a timer that is due fires; a statement that was sent is executed
  or fails; a start that awaits something comes back or throws. Launching, stopping and crashing
  are never forced. Failures are bounded by `MaxFails`: "the database is back in the end".

## 5. Proofs

`tlapm XProofs.tla` checks each module; every theorem holds for all values of the constants under
the module's named assumption, which TLC evaluates in every run.

**AliaTaskRunProofs.** `TypeCorrect`. `SettlesOnce`: for any numbers of dispatches, workers,
reapers, attempts and redeliveries, a hold moves at most once, *provided no reply to a commit is
lost* (`"lostReply" \notin Faults`; section 6 shows the proviso is needed). `SettledAtMostOnce` is
not inductive: nothing in it says who may still pay. The invariant `SettleInv` adds that a dispatch
that has not claimed has no row, that an open run's hold has not moved, that whoever pays for a run
found it closed and unpaid, and that no two processes pay for one run. The last two hold because
closing a run and becoming its payer are one conditional statement. The proof sorts the steps of
`Next` by what they do to the hold (`SettleStep`: neutral, a dispatch opens a run or gives its hold
back, a worker or a reaper closes a run and so becomes its payer, a payer pays) and preserves the
invariant once per kind instead of once per action. `ImplementsSettleOnce` is the refinement under
the same proviso: from `SettleInv`, each step maps to `Take`, `Charge`, `GiveBack` or a stutter. The
other two hold whatever fails. `OccurrencesRunOnce`: `RowInv` says that a dispatch that claimed, a
job, a direct execution and a worker belong to a run that has its row; no step deletes a row, and
the one that inserts it looks for the key in the same statement. `TellsOneStory`: `StoryInv` says
that nothing was told of a run still open, that only whoever closed it has something to tell, that
it is one process, and that it tells what the row says.

**CreditLedgerProofs.** `LedgerTyped`, `NeverOverdrawn`, `QuotaHolds`, `TerminalHoldsStay`,
`RepliesAlwaysAgree`, `LockedSettlementsTakeAtMostPrice` and `QuotaIsExplained` hold for every mix of
holds. `NeverOverdrawn` needs the arithmetic of the one-statement spend (`SpendEffect`).
`TerminalHoldsStay` needs that only an open hold is between two statements. `RepliesAlwaysAgree` and
the bound on what a settlement takes rest on `SettledFits`: a settled row keeps the charge every
caller was answered, what was taken under the lock is the price at most, and an answer is only ever
added by whoever closes the row or reads it closed.
`PurchasesAreKept`, `ChargesExplainBalance`, `SettlementsTakeAtMostPrice` and `RowsExplainTheBalance`
assume `AllByTokens`, that every hold is tracked and settled by tokens, as chat turns are: for the
others the claims are false (section 6), because a two-statement settlement records its price, not
what it took, and takes what arrives in between. That a total is the sum over the rows needs a theory
of sums: `MapThenSumSet` is a fold, which the library defines by recursion over finite sets, so the
module shows that a sum function exists for every finite set of rows and is the only one, by
induction over the cardinality instantiated with sets and not with operators, and that rewriting one
row changes the sum by that row's part (`RowChanges`). `RowsInv` then follows each total through each
statement.

**AgentRunProofs.** `TypeCorrect`. `OneDriverAlways`, assuming no lease of a living worker lapses:
`LeaseInv` says that whoever drives a session is its owner of record, and its lease is live;
two drivers would be two owners. `LatestClaimAlwaysOwns` without that assumption: `AttemptInv`
says a driver's attempt is at most the row's, that distinct drivers have distinct attempts and
that the owner of record, while it drives, has the row's, which every claim increments in the
statement that takes the lease. `NeverRevived`: only a claim makes a row running, and it demands
an open row; `RowInv` says that nobody works on a session, or cancels it, before its row exists, and
that an early handoff has none, so that its insert revives nothing.

**AgentHoldProofs**, on top of these. `SettlesAtMostOnce` and the refinement `ImplementsSettleOnce`
assume `Calm`: leases are kept in time, final updates do not fail and no process dies between a
settlement and its next statement. TLC refutes both when any one of the three is given up: the
session is resumed by, or given up in favour of, somebody who settles it again. Cancellation,
redelivery, retry, resumption, sweeps, forgotten jobs, lost replies, refused handoffs and throws are
all in: a cancelled row is never open again, so at most its driver or its handoff is left to settle,
or nobody (section 6). `HoldInv` says that until a handoff is over its session has no job, no worker
and no sweep; that a row which may be claimed or given up has no payer and is unpaid; that only its
driver pays for a driven session, and only the sweep that failed it for a swept one. It needs
`LeaseInv`, because who drives is who owns, and `RowInv`, because only a row is cancelled. The
refinement sorts the steps into those that leave the holds alone, that take one, and that settle one
which is taken and unpaid. `TellsOneStory` assumes `Orderly`, which is `Calm` and that nobody
cancels, no settlement is lost, nobody throws outside its try block and no claim fails, each of
which TLC finds necessary: then what the person was told agrees with the row and with what became of
the hold. `StoryInv` says that of an open session nothing was told (`OpenIsUntold`), that one
process at most has something to tell (`OneSpeaker`), and that one sweep stops a session
(`OneStopper`).

**LeaderLeaseProofs.** `LeaseTypes`. `LeaderIsNearItsLease`, for every heartbeat, TTL and delay with
Delay < Heartbeat < TTL: `LeadersInv` bounds `age` by `quiet` and one answer, `quiet` by the
demotion rule and the heartbeat in progress, and relates the clock to the answer awaited.
`StoppingLeavesLittle`: `StopsInv` says that what is left of a process's own lease and the age of
its last renewal add up to the TTL, that a leader has heard nothing newer than that renewal, so a
leader that demotes itself leaves at most a heartbeat, and that a process past its shutdown has no
statement under way that could still renew. It excludes a process whose answer was lost, which is
not told what it holds (section 6).
`LeadersSchedule`: the property is inductive
itself, which is worth knowing: no order of elections and slow starts needs more.

**AutomationRunProofs.** `StagesAlwaysInOrder` and `RunsTellOneStory` hold for every plan and any
dispatchers, crashes, redeliveries, sweeps, cancellations, failed updates and lost replies. Three more
theorems exclude one combination of faults, `saveFails` with `crashReporting` (`DiesUnsaved`): a worker
charges, its last update fails, it goes on without it and dies; the session is still running and is
resumed, and a completed stage is charged again. TLC finds `SucceededMeansDone` and `EndedRunStays`
violated under these two together and under nothing less. The fault sets of automation_run are all
within the proviso.

- *Order.* The invariant `Order` says that a stage that succeeded has ended and keeps its actions
  (`SucceededStays`); that once a later stage has a session nobody works on an earlier one but who
  created it and still has to hand it to the queue, or gave up (`EarlierStagesDone`, `Handing`); that a
  session not yet handed over is in no queue and nobody's work (`NotYetQueued`, `FirstNotQueued`), which
  is what keeps a lost reply harmless: its creator gives up and the session is never begun; that what is
  left of the plan has no gap (`PlanHasNoGap`), so that "the first planned stage" is the next one; that
  whoever continues a stage finds the next one planned (`NextIsPlanned`). It rests on `RowsFit`: which
  workers, sweeps and cancellations a row allows. At most one stage of a run is worked on, reported or
  swept (`OneAtWork`).
- *Holds.* `HoldsAlwaysSettleOnce` is the refinement of SettleOnce. `Settling` says that whoever took
  a hold has it fresh and uncarried (`TakersHold`), that a stage's next hold is not taken before the
  stage has ended (`TakenOnce`), that a hold is in one row (`OneCarrier`), and that what may still be
  settled is unpaid (`OneSettler`); `LeftAlone` that a session whose worker gave up its lease unsaved is
  not begun again. The property itself exempts lost replies (section 6).
- *The run.* When a run ends, nothing is under way that could write it again (`EndedIsQuiet`), hence
  `EndedRunsStay`. While it has not, the stages without a session are planned (`PlanAhead`), and a stage
  that succeeded was charged once (`ChargedStages`, from `ChargedOnce`, which lost replies do not touch),
  hence `SuccessMeansDone`. For the story less is needed: who is about to tell is alone (`TellersWait`),
  and once something was told everything is still (`StoryFits`), whatever fails.

**ChatTurnProofs.** `StopIsFinal`: for any turns and requests, whatever is sent twice, aborted, timed
out or lost, no turn whose Stop was answered "cancelled" is stored. Neither the observer nor the
abort flag matters to it: `ControlInv` says that a stopped turn's row is cancelled, that whoever is
past `beginFinish` owns a row that is past "running", and that an owner is fixed by the first insert.
`OneRequestRuns` follows from the same ownership. `HoldsAreScheduled` needs in addition what every
ledger action leaves alone (`HoldStays`) and that the two transactions which write an intent or take
one back look at the operation's state. `UsedIsKept` and `EveryCallIsCharged` rest on `TurnInv`: a
request's tally is what its answered calls used; a reconciler that is about to charge or to refund
read its calls when the request was over and every record had settled; no call is added to a closed
hold, nor runs on one. The module extends CreditLedgerProofs, whose sums it needs.
`TurnsUseTheLedger`: every step of a turn or a reconciler is a step of CreditLedger's `Spec` or leaves
the ledger alone, given that the ledger may be asked to settle any usage (`EveryUsage`). So what is
proved of the ledger holds of chat turns; `TurnsAreAccountedFor` draws the conclusion, adding
`AllByTokens`.

**ComputerHostProofs.** `WellTyped`. `RunAtMostOnce`: a receipt is inserted once for an operation, only
its author launches, and each author passes its launch once. `OneAnswerForAll`: a receipt leaves
"running" once, and everybody's answer was read from, or written with, that change.
`DrainedHostIsQuiet`: a drain that is answered "yes" saw no container running in a listing during
which nothing began, and from then on nothing begins. `WorkIsLeased`: as long as Docker does what it is
told (`mishaps = {}`), what runs in a computer's foreground runs under its live lease; the
invariant `Leased` says which places of a call have the lease, and that a stop is alone in its
computer until the container has gone.

**Only model-checked:** what rests on fairness (`EveryHoldSettles`, `EveryRunEnds`,
`SomebodySchedules`, `EveryHoldIsDecided`, `EveryReceiptEnds`), because the prover has no rules for
fairness and ENABLED. Every other property of a run is a theorem, with the provisos above. Where a
proviso excludes a fault, section 6 has the counterexample, or the run's configuration names the
faults the property was checked with.

## 6. Where the code and its words disagree

The configurations below are not part of the regular runs. Each ends in a counterexample and keeps
the reason why a run or a theorem excludes a fault:

| cfg | property | what happens |
|---|---|---|
| CreditLedgerRace | TakesAtMostPrice | `_adjustReservation` (`lib/credits-manager.ts:330`) spends conditionally and, if nothing matched, zeroes both buckets in a second statement; only `settleTrackedReservation` locks the row first. On the other paths a purchase or refund that commits in between is wiped: the settlement takes more than its price, although "every balance change is ONE statement, and that is the point" (`userCreditsRepository.ts:7`) |
| AgentRunCancelled | LostRunHasAnOwner | a cancelled run's lease is not renewed, its worker believes it lost the run and leaves the hold "to the worker that holds it" (`lib/agent/runner.ts:580`, `:857`): to nobody |
| AliaTaskRunCrash | NoStrandedHold | a worker closes the run and dies before it pays (`alia-task-run.ts:253`); the reaper looks at open runs only (`:27` promises "failed and refunded") |
| AliaTaskRunLostReply | SettledAtMostOnce | the claim commits and its reply is lost: `claimHoldingCredits` refunds, the run is still there, is reaped and refunded again (`automation-dispatcher.ts:486`; `alia-task-run.ts:30`) |
| CreditLedgerReported | ReportedIsTaken | a fixed price the account cannot cover is reported in full (`credits-manager.ts:352`, against `:423`) |
| CreditLedgerExhaust | OneExhaustingRequest | refunds put credits back into the exhausted allowance, so more than one request between two refreshes exhausts it (`credit-funding.ts:60`, against `:28`) |
| AgentRunLost | LostWorkerSettlesNothing | a worker that lost its lease after its last loop head charges and saves all the same (`runner.ts:896`, against `:952`) |
| AgentRunUnqueued | NoStrandedHold | cancelling a queued session removes its job and closes its row: nobody is left to settle (`routes/agents/sessions.ts:214`) |
| AgentRunUnreported | FinisherReports | the final update makes the next renewal fail, so the worker that finished answers "skipped" and nobody reports (`runner.ts:232`, against `:209`) |
| AgentRunReturned | ReturnedIsReturned | a crash between charge and save, and the last attempt is given up with "your credits were returned" (`run-reaper.ts:59`): charged and refunded |
| AgentRunOverwritten | ResultKept | the route reads, then writes `cancelled` over a result (`sessions.ts:215`), what `agentSessionRepository.ts:791` says must not happen |
| AgentRunResume | EveryRunEnds | a resume of a merely late worker is skipped, its job id is kept, and a later lapse of the same attempt adds nothing to the queue (`task-queue.ts:237`) |
| LeaderLeaseSchedulers | OneScheduler | a start that awaits while its process is demoted sets its timer afterwards, for good (`trigger-engine.ts:244`) |
| LeaderLeaseOverlap | OneLeader | `lastRenewOk` is taken when the answer arrives, the lease dates from the statement: leaders overlap by at most the delays (`leader-election.ts:118`, against `:61`) |
| LeaderLeaseLost | StopNeverMakesWait | a heartbeat that executed and lost its answer is not released at stop (`leader-election.ts:164`, against `:71`) |
| LeaderLeaseStart | SomebodyRetries | the list of schedules throws once at the start: the leader keeps renewing and schedules nothing (`trigger-engine.ts:253`) |
| AutomationRunNoActions | NoActionsNoFailure | an agent automation without declared actions: its session completes and the run is marked failed (`automationDefinitionRepository.ts:911`, against the stage task's "has no connected-app effects", `automation-stage-task.ts:118`) |
| AutomationRunStuck | RunAlwaysEnds | the worker dies, or its renewal comes after the final status, between the session's end and the advance: the redelivered job finds the session settled and is skipped, and the run stays open (`task-queue.ts:52`, against `automation-run-coordinator.ts:50`) |
| ChatTurnTimedOut | TimedOutIsNotStored | the timer fires while the save is under way: the client was told the turn timed out, and it is stored and charged (`chat-completions.ts:136`, against `provider-loop.ts:265`) |
| ChatTurnStranded | HoldHasAnOwner | the process dies after the reservation and before the first intent: nothing names the hold ("This survives owner loss", `credit-reconciliation.ts:56`) |
| ComputerHostDoubtful | NeverInterleaved | `docker stop` fails, the stop gives its lease up all the same, and the next command enters a container in which the last one runs (`computer-service.ts:690`, against `store.ts:10`) |
| ComputerHostDoubtful | ConflictIsRefused | two different requests with one operationId insert at once: the loser is given the other's receipt, not the 409 of `store.ts:21` (`computer-service.ts:630`) |
| ComputerHostDoubtful | OnlyLostIsWrittenOff | a reader takes the receipt, then looks for the lease before the command has it: a command that is alive is written off (`computer-service.ts:788`, against `store.ts:26`) |
| ComputerHostDoubtful | SlotsSuffice | two starts count the running computers before either has started one (`computer-service.ts:441`, against `:106`) |

`ComputerHostDoubtful.cfg` names four properties: run it with `-continue` to see each violated.

Known from the same models, without a configuration of their own: a sweep that fails an orphaned
session of an automation, and a cancellation of a queued one, leave its run as it is; the reply
to the creation of a stage is lost and its hold given back although the session carries it
(`automation-run-coordinator.ts:53`); a refund that throws is logged and forgotten
(`credits-manager.ts:524`, `safeRefund`); `cancelUnsettledAgentSession` also matches a session
the orphan sweep failed and a person then cancelled, so its hold would be returned twice if a handoff
outlasted `QUEUED_ORPHAN_AFTER_MS`, which the models exclude (`agentSessionRepository.ts:848`); a throw before the worker's try block leaves a running row no
sweep lists (`runner.ts:309`; fault `escape`); after `MAX_RECONCILIATION_ATTEMPTS` a hold is left to a
person, which is the code's intention.

## 7. What is not modelled

- *Of the modelled parts.* AutomationRun: definitions' create, update and delete, eligibility,
  authorizations, notifications and runs from before stages existed. ChatTurn: requests without a
  turn id (no intents, no reconciliation: CreditLedger's tracked hold), the row's retention.
  ComputerHost: what a command prints, quotas, container options, the browser beyond the slots it
  takes. TriggerEngine: only what the election starts and stops.
- *Chat pipeline, model routing, voice, shows, memory:* one request, mostly data transformation
  around calls of a model; what they do to credits is the ledger's reserve and settle.
- *Catalogue prices:* another function of the same usage; the ledger takes prices as inputs where
  callers compute them.
- *Oxy's side* (tasks, entitlements, identity, generation records): external; the selected grant,
  its snapshot and a call's record are inputs that may change or be missing at any time.
- *The queue* is BullMQ, *the containers* are Docker's, both modelled from how they are used
  (external): deduplication by job id, attempts, stalls, retention, loss, refused and lost
  replies; calls that fail, arrive late or do not stop what they should. The queue's backoff delays
  are not: a waiting job may be taken at any time.
- *Files, channels, connectors, caches, rate limits, row expiry:* forwarding or single statements
  without a protocol of their own.
- *Clients, editors, integrations:* user interfaces and adapters; most of the repository's lines.
- *Trigger engine occurrences, watches, admission, outbox, billing webhooks:* planned, below.

## 8. Plan

Done: AliaTaskRun, CreditLedger, AgentRun, AutomationRun, LeaderLease, ChatTurn and ComputerHost, with
their proofs.

Proofs, in this order:

1. AgentRun's settlement with late leases: which holds may then move twice, said as an invariant
   instead of excluded by `Calm`.
2. AliaTaskRun's and AutomationRun's holds with a lost reply: the hold given back twice is one that a
   row carries.

Models:

3. **TriggerEngine**, composed with LeaderLease's promise that a leader has a scheduler: cron
   firings, catch-up and reconciliation over occurrences. `missedOccurrence` marks an occurrence as
   attempted before the read and the dispatch that may throw (`trigger-engine.ts:122`). Abstract
   specification: each occurrence is dispatched at most once, and, if a leader lasts, at least
   once.
4. **AliaWatch**: content hashes as occurrence keys, failure streaks and the pause.
5. **AgentAdmission** and **Outbox**: the limit under concurrent admissions; leased at-least-once
   delivery with dead letters.
6. **Billing**: deduplication of webhooks in front of the ledger's `Purchase`.
