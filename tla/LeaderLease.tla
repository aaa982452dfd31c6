---------------------------- MODULE LeaderLease ----------------------------
(***************************************************************************)
(* Which instance of the api runs the automation scheduler.                *)
(*                                                                         *)
(*   lease row   db/coordination/leaseRepository.ts  one statement claims  *)
(*   election    lib/leader-election.ts     heartbeats, hooks, stop        *)
(*   scheduler   lib/trigger-engine.ts      what the hooks start and stop  *)
(*                                                                         *)
(* Time is discrete and the same for everybody: Tick is one unit of it. No *)
(* instant is kept, only what is left of the lease and how long ago things *)
(* happened, the longest of those being indistinguishable (Cap), and for   *)
(* an instance that is gone nothing of that. A heartbeat is sent the moment it is due, its statement runs at the       *)
(* database and is answered within Delay. The hook that starts the         *)
(* scheduler awaits calls of unbounded length.                             *)
(*                                                                         *)
(* At least one schedule is enabled throughout, so a scheduler that lists  *)
(* the schedules has something to schedule.                                *)
(***************************************************************************)
EXTENDS Integers

CONSTANTS
    Inst,       \* processes, each with an instanceId of its own
    None,       \* the holder of a row that was never written
    Heartbeat,  \* heartbeatMs
    TTL,        \* leaseTtlMs
    Delay,      \* the longest a heartbeat's answer, or its failure, takes
    MaxStarts,  \* bound on the scheduler starts one instance has in progress
    MaxFails,   \* bound on the heartbeats that fail
    Faults      \* the rarer faults switched on, see FaultKinds

FaultKinds == {"crash", "lostReply", "startFails", "releaseFails"}

ASSUME LeaseAssumption ==
    /\ None \notin Inst
    /\ Heartbeat \in Nat /\ TTL \in Nat /\ Delay \in Nat
    /\ Delay < Heartbeat
    /\ Heartbeat < TTL
    /\ MaxStarts \in Nat
    /\ MaxFails \in Nat
    /\ Faults \subseteq FaultKinds

VARIABLES
    holder,    \* leases.holder_id
    left,      \* time until leases.expires_at, negative once it has passed
    phase,     \* where each process is
    clock,     \* time since its last heartbeat
    ask,       \* the heartbeat whose answer it awaits
    waited,    \* for how long
    quiet,     \* time since lastRenewOk
    leader,    \* leader
    starts,    \* startTriggerScheduler calls in progress
    timer,     \* reconcileTimer is set, which the schedules on cron go with
    fails,     \* calls of the database that failed
    age,       \* history: time since a heartbeat of it last took the lease
    mishaps    \* history: what went wrong for it that its code does not see

rowVars      == <<holder, left>>
engineVars   == <<starts, timer>>
electionVars == <<phase, clock, ask, waited, quiet, leader>>
failVars     == <<fails, mishaps>>
vars == <<rowVars, electionVars, engineVars, failVars, age>>

Phases   == {"off", "on", "stopping", "releasing", "stopped", "unreleased", "crashed"}
Mishaps  == {"lostReply", "startFailed"}
Answers  == {"none", "sent", "held", "refused"}

Cap        == TTL + 2 * Delay + 1
Older(t)   == IF t < Cap THEN t + 1 ELSE Cap

TypeOK ==
    /\ holder \in Inst \cup {None}
    /\ left \in -1 .. TTL
    /\ phase \in [Inst -> Phases]
    /\ clock \in [Inst -> 0 .. Heartbeat]
    /\ ask \in [Inst -> Answers]
    /\ waited \in [Inst -> 0 .. Delay]
    /\ quiet \in [Inst -> 0 .. Cap]
    /\ leader \in [Inst -> BOOLEAN]
    /\ starts \in [Inst -> 0 .. MaxStarts]
    /\ timer \in [Inst -> BOOLEAN]
    /\ fails \in 0 .. MaxFails
    /\ age \in [Inst -> 0 .. Cap]
    /\ mishaps \in [Inst -> SUBSET Mishaps]

Init ==
    /\ holder = None
    /\ left = -1
    /\ phase = [i \in Inst |-> "off"]
    /\ clock = [i \in Inst |-> 0]
    /\ ask = [i \in Inst |-> "none"]
    /\ waited = [i \in Inst |-> 0]
    /\ quiet = [i \in Inst |-> 0]
    /\ leader = [i \in Inst |-> FALSE]
    /\ starts = [i \in Inst |-> 0]
    /\ timer = [i \in Inst |-> FALSE]
    /\ fails = 0
    /\ age = [i \in Inst |-> Cap]
    /\ mishaps = [i \in Inst |-> {}]

----------------------------------------------------------------------------
(* The scheduler the hooks control *)

Fails(i, seen) == /\ fails < MaxFails
                  /\ fails' = fails + 1
                  /\ mishaps' = [mishaps EXCEPT ![i] = @ \cup seen]

\* onElected: startTriggerScheduler lists the schedules and puts them on cron,
\* catches up what was missed, and sets the reconciliation timer.
Start(i) == /\ starts[i] < MaxStarts
            /\ starts' = [starts EXCEPT ![i] = @ + 1]
            /\ UNCHANGED timer

\* onDemoted: stopAllScheduledTasks, a synchronous call. A start that awaits
\* something is not told.
StopAll(i) == timer' = [timer EXCEPT ![i] = FALSE] /\ UNCHANGED starts

\* The calls a start awaits all came back: the timer is set unless it is set.
Started(i) ==
    /\ starts[i] > 0
    /\ starts' = [starts EXCEPT ![i] = @ - 1]
    /\ timer' = [timer EXCEPT ![i] = TRUE]
    /\ UNCHANGED <<rowVars, electionVars, failVars, age>>

\* One of them throws: it is logged and the start is over.
StartFails(i) ==
    /\ "startFails" \in Faults
    /\ starts[i] > 0
    /\ starts' = [starts EXCEPT ![i] = @ - 1]
    /\ Fails(i, {"startFailed"})
    /\ UNCHANGED <<rowVars, electionVars, timer, age>>

----------------------------------------------------------------------------
(* Heartbeats *)

Due(i) == phase[i] = "on" /\ clock[i] = Heartbeat

Beat(i) ==
    /\ clock' = [clock EXCEPT ![i] = 0]
    /\ ask' = [ask EXCEPT ![i] = "sent"]
    /\ waited' = [waited EXCEPT ![i] = 0]

Answered(i) ==
    /\ ask' = [ask EXCEPT ![i] = "none"]
    /\ waited' = [waited EXCEPT ![i] = 0]

Launch(i) ==
    /\ phase[i] = "off"
    /\ phase' = [phase EXCEPT ![i] = "on"]
    /\ quiet' = [quiet EXCEPT ![i] = 0]
    /\ Beat(i)
    /\ UNCHANGED <<rowVars, leader, engineVars, failVars, age>>

Pulse(i) ==
    /\ Due(i)
    /\ Beat(i)
    /\ UNCHANGED <<rowVars, phase, quiet, leader, engineVars, failVars, age>>

\* Bug: a lapsed lease is not up for grabs.
MayTakeOwn(i) == holder = i \/ holder = None

\* holder_id = me or expires_at < now()
MayTake(i) == holder = i \/ left < 0

\* Bug: the lease is renewed for longer than its holder believes.
ExecuteLong(i) ==
    /\ ask[i] = "sent"
    /\ MayTake(i)
    /\ holder' = i
    /\ left' = TTL + 1
    /\ ask' = [ask EXCEPT ![i] = "held"]
    /\ age' = [age EXCEPT ![i] = 0]
    /\ UNCHANGED <<phase, clock, waited, quiet, leader, engineVars, failVars>>

\* The statement runs at the database, whatever became of who sent it.
Execute(i) ==
    /\ ask[i] = "sent"
    /\ \/ /\ MayTake(i)
          /\ holder' = i
          /\ left' = TTL
          /\ ask' = [ask EXCEPT ![i] = "held"]
          /\ age' = [age EXCEPT ![i] = 0]
       \/ /\ ~MayTake(i)
          /\ ask' = [ask EXCEPT ![i] = "refused"]
          /\ UNCHANGED <<rowVars, age>>
    /\ UNCHANGED <<phase, clock, waited, quiet, leader, engineVars, failVars>>

Awaiting(i) == phase[i] \in {"on", "stopping"}

\* The answer arrives and leadership follows it.
Reply(i) ==
    /\ Awaiting(i)
    /\ ask[i] \in {"held", "refused"}
    /\ Answered(i)
    /\ quiet' = [quiet EXCEPT ![i] = 0]
    /\ leader' = [leader EXCEPT ![i] = ask[i] = "held"]
    /\ \/ leader'[i] = leader[i] /\ UNCHANGED engineVars
       \/ leader'[i] /\ ~leader[i] /\ Start(i)
       \/ ~leader'[i] /\ leader[i] /\ StopAll(i)
    /\ UNCHANGED <<rowVars, phase, clock, failVars, age>>

\* Bug: a leader waits out the whole lease before it steps down.
LapsingAtExpiry(i) == quiet[i] >= TTL

\* The time after which a leader that cannot reach the database steps down.
Lapsing(i) == quiet[i] >= TTL - Heartbeat

\* Bug: the scheduler is stopped, and leader keeps its value.
FailLeading(i) ==
    /\ Awaiting(i)
    /\ ask[i] = "sent" /\ Fails(i, {})
    /\ Answered(i)
    /\ IF leader[i] /\ Lapsing(i) THEN StopAll(i) ELSE UNCHANGED engineVars
    /\ UNCHANGED <<rowVars, phase, clock, quiet, leader, age>>

\* The heartbeat fails: not executed, or executed and its answer lost.
Fail(i) ==
    /\ Awaiting(i)
    /\ \/ ask[i] = "sent" /\ Fails(i, {})
       \/ /\ "lostReply" \in Faults
          /\ ask[i] \in {"held", "refused"}
          /\ Fails(i, {"lostReply"})
    /\ Answered(i)
    /\ \/ /\ leader[i] /\ Lapsing(i)
          /\ leader' = [leader EXCEPT ![i] = FALSE]
          /\ StopAll(i)
       \/ /\ ~(leader[i] /\ Lapsing(i))
          /\ UNCHANGED <<leader, engineVars>>
    /\ UNCHANGED <<rowVars, phase, clock, quiet, age>>

----------------------------------------------------------------------------
(* Shutdown and crash *)

\* stop() clears the heartbeat's timer.
Stop(i) ==
    /\ phase[i] = "on"
    /\ phase' = [phase EXCEPT ![i] = "stopping"]
    /\ clock' = [clock EXCEPT ![i] = 0]
    /\ UNCHANGED <<rowVars, ask, waited, quiet, leader, engineVars, failVars, age>>

\* Nothing asks any more how long ago things happened to an instance.
Forgotten(i) ==
    /\ quiet' = [quiet EXCEPT ![i] = 0]
    /\ age' = [age EXCEPT ![i] = 0]

\* Bug: stop() does not wait for the heartbeats in progress.
SettledAtOnce(i) == starts[i] = 0

\* The heartbeats in progress, with the hooks they run, have come back.
Settled(i) == ask[i] = "none" /\ starts[i] = 0

Depart(i) ==
    /\ phase[i] = "stopping"
    /\ Settled(i)
    /\ leader' = [leader EXCEPT ![i] = FALSE]
    /\ \/ /\ leader[i]
          /\ StopAll(i)
          /\ phase' = [phase EXCEPT ![i] = "releasing"]
       \/ /\ ~leader[i]
          /\ phase' = [phase EXCEPT ![i] = "stopped"]
          /\ UNCHANGED engineVars
    /\ Forgotten(i)
    /\ UNCHANGED <<rowVars, clock, ask, waited, failVars>>

\* releaseLease: the row expires, if it still names this instance.
Release(i) ==
    /\ phase[i] = "releasing"
    /\ phase' = [phase EXCEPT ![i] = "stopped"]
    /\ left' = IF holder = i THEN -1 ELSE left
    /\ UNCHANGED <<holder, clock, ask, waited, quiet, leader, engineVars, failVars, age>>

ReleaseFails(i) ==
    /\ "releaseFails" \in Faults
    /\ phase[i] = "releasing"
    /\ phase' = [phase EXCEPT ![i] = "unreleased"]
    /\ UNCHANGED <<rowVars, clock, ask, waited, quiet, leader, engineVars, failVars, age>>

\* Everything in memory goes, a statement already sent does not.
Crash(i) ==
    /\ "crash" \in Faults
    /\ phase[i] \in {"on", "stopping", "releasing"}
    /\ phase' = [phase EXCEPT ![i] = "crashed"]
    /\ IF ask[i] = "sent" THEN UNCHANGED <<ask, waited>> ELSE Answered(i)
    /\ leader' = [leader EXCEPT ![i] = FALSE]
    /\ starts' = [starts EXCEPT ![i] = 0]
    /\ timer' = [timer EXCEPT ![i] = FALSE]
    /\ clock' = [clock EXCEPT ![i] = 0]
    /\ Forgotten(i)
    /\ UNCHANGED <<rowVars, failVars>>

\* The answer to a crashed instance, or its statement, goes nowhere.
Unheard(i) ==
    /\ phase[i] = "crashed"
    /\ ask[i] # "none"
    /\ Answered(i)
    /\ UNCHANGED <<rowVars, phase, clock, quiet, leader, engineVars, failVars, age>>

----------------------------------------------------------------------------
\* A unit of time passes, unless a heartbeat is due or an answer is.
Overdue(i) == Due(i) \/ (ask[i] # "none" /\ waited[i] = Delay)

Tick ==
    /\ \A i \in Inst : ~Overdue(i)
    /\ left' = IF left < 0 THEN left ELSE left - 1
    /\ clock' = [i \in Inst |-> IF phase[i] = "on" THEN clock[i] + 1 ELSE clock[i]]
    /\ waited' = [i \in Inst |-> IF ask[i] = "none" THEN 0 ELSE waited[i] + 1]
    /\ quiet' = [i \in Inst |-> IF Awaiting(i) THEN Older(quiet[i]) ELSE quiet[i]]
    /\ age' = [i \in Inst |-> IF Awaiting(i) THEN Older(age[i]) ELSE age[i]]
    /\ UNCHANGED <<holder, phase, ask, leader, engineVars, failVars>>

Scheduler(i) == Started(i) \/ StartFails(i)
Election(i)  == \/ Launch(i) \/ Pulse(i) \/ Execute(i) \/ Reply(i) \/ Fail(i)
Shutdown(i)  == \/ Stop(i) \/ Depart(i) \/ Release(i) \/ ReleaseFails(i)
                \/ Crash(i) \/ Unheard(i)

Next == Tick \/ \E i \in Inst : Scheduler(i) \/ Election(i) \/ Shutdown(i)

Spec == Init /\ [][Next]_vars

\* Time passes; a timer fires when it is due; a statement sent is executed or
\* fails and its outcome is heard; the calls a start awaits return or throw.
Fairness ==
    /\ WF_vars(Tick)
    /\ \A i \in Inst :
        /\ WF_vars(Pulse(i))
        /\ WF_vars(Execute(i) \/ Fail(i))
        /\ WF_vars(Reply(i))
        /\ WF_vars(Unheard(i))
        /\ WF_vars(Started(i) \/ StartFails(i))

FairSpec == Spec /\ Fairness

----------------------------------------------------------------------------
(* Properties *)

\* A competing instance that believes it leads took the lease at most its
\* length, and the time of two answers, ago: however its heartbeats are
\* delayed or fail, it cannot overlap a successor for longer than that
\* (leader-election.ts:111-125).
LeaderNearLease ==
    \A i \in Inst : leader[i] /\ phase[i] = "on" => age[i] < TTL + 2 * Delay

\* An instance that stopped leaves its successor at most a heartbeat to wait,
\* and nothing at all if it led to the end: no renewal of its own lands after
\* its release (leader-election.ts:65-82, 154-170).
StopLeavesLittle ==
    \A i \in Inst : phase[i] = "stopped" /\ holder = i /\ "lostReply" \notin mishaps[i]
                      => left =< Heartbeat

\* "That is the one thing stop() exists to prevent": a stopped instance whose
\* last renewal makes the successor wait (leader-election.ts:71).
StopNeverMakesWait ==
    \A i \in Inst : phase[i] = "stopped" /\ holder = i => left =< Heartbeat

\* A leader that competes has a scheduler, or is starting one: no order of
\* elections, demotions and slow starts leaves it idle (trigger-engine.ts:235-256).
LeaderHasScheduler ==
    \A i \in Inst : leader[i] => \/ timer[i] \/ starts[i] > 0
                                  \/ "startFailed" \in mishaps[i]

\* Whatever happened before, if some instance keeps competing and no start of
\* a scheduler fails, then schedules are kept by a leader from some moment on:
\* a lease whose holder died or left is taken over (leader-election.ts:4-9).
SomebodySchedules ==
    (/\ \E i \in Inst : <>[](phase[i] = "on")
     /\ [](\A i \in Inst : "startFailed" \notin mishaps[i]))
        => <>[](\E i \in Inst : leader[i] /\ timer[i])

\* The same with starts that may fail: a leader whose scheduler did not start
\* tries again, or another instance leads (leader-election.ts:4-9).
SomebodyRetries ==
    (\E i \in Inst : <>[](phase[i] = "on"))
        => <>[](\E i \in Inst : leader[i] /\ timer[i])

\* At most one instance runs the scheduler at a time
\* (leader-election.ts:7-8, trigger-engine.ts:207-210).
OneScheduler ==
    \A i, j \in Inst : timer[i] /\ timer[j]
                        /\ phase[i] = "on" /\ phase[j] = "on" => i = j

\* At most one instance believes it leads at a time (leader-election.ts:61-62).
OneLeader ==
    \A i, j \in Inst : leader[i] /\ leader[j]
                        /\ phase[i] = "on" /\ phase[j] = "on" => i = j

=============================================================================
