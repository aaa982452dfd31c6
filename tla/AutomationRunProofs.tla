-------------------------- MODULE AutomationRunProofs --------------------------
(***************************************************************************)
(* For every plan, every set of dispatchers and every combination of the   *)
(* rarer events: stages have sessions in order only, and the person is     *)
(* told one story of the run.  When no process dies that goes on without   *)
(* its failed last update: every hold is settled at most once (SettleOnce, *)
(* while no reply to a commit is lost), a run that succeeded did all of    *)
(* its plan and charged each stage, and a run that ended stays as it is.   *)
(***************************************************************************)
EXTENDS AutomationRun, FiniteSetTheorems, TLAPS

Pcs ==
    {"idle", "refundAbandoned", "refund", "charge", "save", "abandon"} \cup
    Driving \cup Reporting

Finals == {"completed", "failed", "cancelled"}

ActorTyped == \E n \in 0 .. MaxActions : actor \in [1 .. n -> Agents]

PlanTyped == control \in [Stages -> StepStatuses] /\ step \in [Actions -> StepStatuses]

RowsTyped ==
    /\ disp \in [Dispatchers -> {"idle", "claim", "refund", "enqueue", "done"}]
    /\ session \in [Stages -> Open \cup Finals \cup {"none"}]
    /\ lease \in [Stages -> {"null", "live", "lapsed"}]
    /\ carries \in [Stages -> Holds \cup {NoHold}]
    /\ sweep \in [Stages -> {"idle", "refundExhausted", "refundOrphan", "mark"}]
    /\ cancelling \in SUBSET Stages

WorkTyped == pc \in [Stages -> Pcs] /\ final \in [Stages -> Finals \cup {"none"}]

HoldsTyped ==
    /\ taken \in [Holds -> BOOLEAN]
    /\ charged \in [Holds -> Nat]
    /\ returned \in [Holds -> Nat]

Typed ==
    /\ faults \in FaultSets
    /\ ActorTyped
    /\ PlanTyped
    /\ RowsTyped
    /\ WorkTyped
    /\ HoldsTyped

\* The places of a worker that has not released its lease.
Leased ==
    Driving \cup {"charge", "refund", "abandon", "refundAbandoned", "save", "mark", "leave"}

\* A worker, a sweep and a cancellation have a session, a session a run, and
\* which of them may be under way is seen from its row.
RowsFit ==
    /\ \A s \in Stages : session[s] = "none" =>
           /\ carries[s] = NoHold /\ pc[s] = "idle" /\ sweep[s] = "idle"
           /\ s \notin cancelling
    /\ \A s \in Stages : session[s] # "none" => carries[s] \in Holds
    /\ \A s \in Stages : pc[s] \in {"charge", "save", "mark"} => final[s] \in Finals
    /\ \A s \in Stages : pc[s] \in {"mark", "refundAbandoned"} => session[s] \notin Open
    /\ \A s \in Stages : session[s] = "queued" \/ lease[s] = "lapsed" => pc[s] = "idle"
    /\ \A s \in Stages : session[s] \in {"none", "queued"} => lease[s] = "null"
    /\ \A s \in Stages : pc[s] \in Leased => lease[s] = "live"
    /\ \A s \in Stages : sweep[s] # "idle" => pc[s] = "idle" /\ session[s] \notin Open
    /\ run = "none" => \A s \in Stages : session[s] = "none"

\* A stage that succeeded has done its actions and is not run again.
SucceededStays ==
    \A s \in Stages : control[s] = "succeeded" =>
        /\ session[s] \in Finals
        /\ sweep[s] = "idle"
        /\ \A i \in Actions : StageOf(i) = s => step[i] = "succeeded"

\* Whoever creates a session hands it to the queue, or gives up.
Handing == {"enqueue", "giveBack", "throw"}

\* Stages before one with a session have succeeded; nobody works on them but
\* who may still have to hand it to the queue.
EarlierStagesDone ==
    \A s, t \in Stages : s < t /\ session[t] # "none" =>
        /\ session[s] # "none"
        /\ control[s] = "succeeded"
        /\ pc[s] \in {"idle"} \cup Handing

\* What is left of the plan has no gap.
PlanHasNoGap ==
    \A s, t \in Stages :
        s < t /\ session[s] = "none" /\ control[t] = "planned" => control[s] = "planned"

WorkIsRunning == \A s \in Stages : pc[s] = "work" => control[s] = "running"

NextIsPlanned ==
    \A s \in Stages : pc[s] \in {"reserve", "create", "enqueue"} =>
        /\ control[s] = "succeeded"
        /\ s + 1 \in Stages /\ control[s + 1] = "planned"
        /\ pc[s] = "enqueue" => session[s + 1] # "none"

JobsFit == \A s \in Stages : s \in jobs => session[s] # "none" /\ pc[s] = "idle"

Unqueued(s) ==
    /\ s \notin jobs /\ pc[s] = "idle" /\ session[s] # "running"
    /\ sweep[s] \in {"idle", "refundOrphan"}

\* Until a new session is handed to the queue nobody works on it; one whose
\* creator gave up, because the reply was lost, is never begun.
NotYetQueued ==
    \A s, t \in Stages : pc[s] \in Handing /\ s < t /\ session[t] # "none" =>
        t = s + 1 /\ Unqueued(t)

FirstNotQueued ==
    \A d \in Dispatchers : disp[d] = "enqueue" =>
        carries[0] = d /\ control[0] = "planned" /\ Unqueued(0)

\* The first stage carries a dispatcher's hold, each other one its predecessor's.
CarriesFit ==
    \A s \in Stages : session[s] # "none" =>
        IF s = 0 THEN carries[s] \in Dispatchers ELSE carries[s] = s - 1

\* A worker that reports has ended its session, unless the update failed: then
\* it fails the run and leaves a session without a lease.
ReportersFit ==
    \A s \in Stages : pc[s] \in Reporting /\ session[s] \in Open =>
        /\ "saveFails" \in faults
        /\ pc[s] \in {"leave", "advance", "stop", "tell"}
        /\ pc[s] # "leave" => lease[s] = "null"

Order ==
    /\ SucceededStays
    /\ EarlierStagesDone
    /\ PlanHasNoGap
    /\ WorkIsRunning
    /\ NextIsPlanned
    /\ JobsFit
    /\ NotYetQueued
    /\ FirstNotQueued
    /\ CarriesFit
    /\ ReportersFit

\* Taken, and not settled.
Fresh(h) == taken[h] /\ charged[h] = 0 /\ returned[h] = 0

Untaken(h) == ~taken[h] /\ charged[h] = 0 /\ returned[h] = 0

Carried(h) == \E s \in Stages : carries[s] = h

\* Who took a hold and has not given it to a session may give it back.
TakersHold ==
    /\ \A d \in Dispatchers : disp[d] = "idle" => Untaken(d)
    /\ \A d \in Dispatchers : disp[d] \in {"claim", "refund"} => Fresh(d) /\ ~Carried(d)
    /\ \A s \in Stages : pc[s] \in {"create", "giveBack"} => Fresh(s) /\ ~Carried(s)

Unadvanced == {"start", "work", "charge", "refund", "abandon", "refundAbandoned",
               "save", "mark", "leave", "advance", "reserve"}

\* A stage that has not ended has not taken the next one's hold.
TakenOnce ==
    \A s \in Stages :
        session[s] \in Open \cup {"none"} \/ pc[s] \in Unadvanced => Untaken(s)

\* A session's hold is its own ...
OneCarrier ==
    /\ \A s, t \in Stages : carries[s] # NoHold /\ carries[s] = carries[t] => s = t
    /\ \A s \in Stages : carries[s] # NoHold => taken[carries[s]]

Unsettled == {"start", "work", "charge", "refund", "abandon", "refundAbandoned"}

\* What comes of it next is that worker, sweep or queue settle it.
Unpaid(s) ==
    \/ pc[s] \in Unsettled
    \/ sweep[s] \in {"refundExhausted", "refundOrphan"}
    \/ session[s] = "queued"
    \/ session[s] = "running" /\ pc[s] = "idle" /\ lease[s] # "null"

\* ... and one of worker and sweep will settle it.
OneSettler == \A s \in Stages : Unpaid(s) => Fresh(carries[s])

Settling == TakersHold /\ TakenOnce /\ OneCarrier /\ OneSettler

\* A worker's last update fails, and a process that goes on without it may die.
DiesUnsaved == {"saveFails", "crashReporting"} \subseteq faults

\* A running session whose worker gave up its lease is not begun again.
LeftAlone ==
    \A s \in Stages :
        session[s] = "running" /\ pc[s] = "idle" /\ lease[s] = "null" => s \notin jobs

\* Only the one charge of its session moves a hold to its payment.
ChargedOnce ==
    /\ \A s \in Stages : Unpaid(s) => charged[carries[s]] = 0
    /\ \A h \in Holds : ~Carried(h) => charged[h] = 0

-----------------------------------------------------------------------------

\* No step changes the plan or the rarer events that were chosen.
LEMMA FixedStays == ASSUME Next PROVE UNCHANGED fixed
BY DEF Next, DispatchStep, WorkerStep, SweepStep, CancelStep, Observe, Reserve, Claim,
   RefundClaim, Enqueue, CrashDispatch, TakeJob, Start, AgentGone, Conclude,
   LeaveLost, Break, Charge, Refund, Abandon, Save, SaveFails, Mark, Leave, Advance,
   ReserveNext, Stop, CreateNext, EnqueueNext, GiveBackNext, ThrowNext, Tell, Crash,
   Lapse, Resume, FailExhausted, ClaimOrphan, SweepRefund, SweepMark, ReadCancel,
   WriteCancel, Act

\* The steps that change the plan or its run.
LEMMA PlanSteps ==
    ASSUME Next
    PROVE  \/ UNCHANGED runVars
           \/ \E d \in Dispatchers : Observe(d) \/ Claim(d)
           \/ \E s \in Stages : Start(s) \/ Mark(s) \/ Stop(s) \/ ThrowNext(s) \/
              SweepMark(s)
           \/ \E s \in Stages, i \in Actions : Act(s, i)
BY DEF Next, DispatchStep, WorkerStep, SweepStep, CancelStep, Reserve, RefundClaim,
   Enqueue, CrashDispatch, TakeJob, AgentGone, Conclude, LeaveLost, Break, Charge,
   Refund, Abandon, Save, SaveFails, Leave, Advance, ReserveNext, CreateNext,
   EnqueueNext, GiveBackNext, Tell, Crash, Lapse, Resume, FailExhausted, ClaimOrphan,
   SweepRefund, ReadCancel, WriteCancel, wk, hold, runVars, rowVars, fixed

\* The steps that take or settle a hold.
LEMMA HoldSteps ==
    ASSUME Next
    PROVE  \/ UNCHANGED hold
           \/ \E d \in Dispatchers : Reserve(d) \/ RefundClaim(d)
           \/ \E s \in Stages : Charge(s) \/ Refund(s) \/ ReserveNext(s) \/
              CreateNext(s) \/ GiveBackNext(s) \/ SweepRefund(s)
BY DEF Next, DispatchStep, WorkerStep, SweepStep, CancelStep, Observe, Claim, Enqueue,
   CrashDispatch, TakeJob, Start, AgentGone, Conclude, LeaveLost, Break, Abandon,
   Save, SaveFails, Mark, Leave, Advance, Stop, EnqueueNext, ThrowNext, Tell, Crash,
   Lapse, Resume, FailExhausted, ClaimOrphan, SweepMark, ReadCancel, WriteCancel, Act,
   wk, hold, runVars, rowVars, fixed

\* Counting once more keeps a count.
LEMMA CountsOneMore ==
    ASSUME NEW f \in [Holds -> Nat], NEW h
    PROVE  [f EXCEPT ![h] = @ + 1] \in [Holds -> Nat]
<1>1. CASE h \in Holds
    <2>1. f[h] + 1 \in Nat
        BY <1>1
    <2> QED
        BY <1>1, <2>1
<1>2. CASE h \notin Holds
    BY <1>2
<1> QED
    BY <1>1, <1>2

\* Taking, giving back or leaving the holds alone keeps their type.
LEMMA SettlingTyped ==
    ASSUME HoldsTyped, NEW h
    PROVE  /\ TakeHold(h) => HoldsTyped'
           /\ GiveBack(h) => HoldsTyped'
           /\ UNCHANGED hold => HoldsTyped'
<1>1. ASSUME TakeHold(h) PROVE HoldsTyped'
    BY <1>1 DEF HoldsTyped, TakeHold
<1>2. ASSUME GiveBack(h) PROVE HoldsTyped'
    <2>1. [returned EXCEPT ![h] = @ + 1] \in [Holds -> Nat]
        BY CountsOneMore DEF HoldsTyped
    <2> QED
        BY <1>2, <2>1 DEF HoldsTyped, GiveBack
<1>3. ASSUME UNCHANGED hold PROVE HoldsTyped'
    BY <1>3 DEF HoldsTyped, hold
<1> QED
    BY <1>1, <1>2, <1>3

\* The stages are numbered from 0.
LEMMA FirstStage == 0 \in Stages /\ \A s \in Stages : s \in Int /\ 0 <= s
BY AutomationRunAssumption DEF Stages

\* Dispatchers and stages own different holds.
LEMMA HoldsApart ==
    /\ NoHold \notin Holds
    /\ \A d \in Dispatchers, s \in Stages : d # s
    /\ Dispatchers \subseteq Holds /\ Stages \subseteq Holds
BY AutomationRunAssumption DEF Holds, Stages

\* Every step keeps the type of the plan.
LEMMA PlanStaysTyped ==
    ASSUME PlanTyped, WorkTyped, RowsFit, UNCHANGED fixed, Next
    PROVE  PlanTyped'
<1> USE DEF PlanTyped, Actions, fixed, runVars, StepStatuses, Ended
<1>1. ASSUME NEW d \in Dispatchers, Observe(d) PROVE PlanTyped'
    BY <1>1 DEF Observe, Plan, ToDisp
<1>2. ASSUME NEW d \in Dispatchers, Claim(d) PROVE PlanTyped'
    BY <1>2 DEF Claim, Plan, NewSession, ToDisp
<1>3. ASSUME NEW s \in Stages, Start(s) PROVE PlanTyped'
    BY <1>3 DEF Start, StartStage, Goto
<1>4. ASSUME NEW s \in Stages, Mark(s) PROVE PlanTyped'
    BY <1>4 DEF Mark, SucceedStage, StopRun, StepsBecome, Goto, WorkTyped, RowsFit,
       Finals
<1>5. ASSUME NEW s \in Stages, Stop(s) PROVE PlanTyped'
    BY <1>5 DEF Stop, StopRun, StepsBecome, Goto
<1>6. ASSUME NEW s \in Stages, ThrowNext(s) PROVE PlanTyped'
    BY <1>6 DEF ThrowNext, StopRun, StepsBecome, Goto
<1>7. ASSUME NEW s \in Stages, SweepMark(s) PROVE PlanTyped'
    BY <1>7 DEF SweepMark, StopRun, StepsBecome
<1>8. ASSUME NEW s \in Stages, NEW i \in Actions, Act(s, i) PROVE PlanTyped'
    BY <1>8 DEF Act
<1>9. CASE UNCHANGED runVars
    BY <1>9
<1> QED
    BY <1>1, <1>2, <1>3, <1>4, <1>5, <1>6, <1>7, <1>8, <1>9, PlanSteps

\* Every step keeps the type of the holds.
LEMMA HoldsStayTyped ==
    ASSUME HoldsTyped, Next
    PROVE  HoldsTyped'
<1>1. ASSUME NEW d \in Dispatchers, Reserve(d) PROVE HoldsTyped'
    BY SettlingTyped, <1>1 DEF Reserve, ToDisp
<1>2. ASSUME NEW d \in Dispatchers, RefundClaim(d) PROVE HoldsTyped'
    BY SettlingTyped, <1>2 DEF RefundClaim, ToDisp
<1>3. ASSUME NEW s \in Stages, Charge(s) PROVE HoldsTyped'
    BY CountsOneMore, <1>3 DEF Charge, HoldsTyped
<1>4. ASSUME NEW s \in Stages, Refund(s) PROVE HoldsTyped'
    BY SettlingTyped, <1>4 DEF Refund, Ends
<1>5. ASSUME NEW s \in Stages, ReserveNext(s) PROVE HoldsTyped'
    BY SettlingTyped, <1>5 DEF ReserveNext, Goto
<1>6. ASSUME NEW s \in Stages, CreateNext(s) PROVE HoldsTyped'
    BY SettlingTyped, <1>6 DEF CreateNext, NewSession, Goto
<1>7. ASSUME NEW s \in Stages, GiveBackNext(s) PROVE HoldsTyped'
    BY SettlingTyped, <1>7 DEF GiveBackNext, Goto
<1>8. ASSUME NEW s \in Stages, SweepRefund(s) PROVE HoldsTyped'
    BY SettlingTyped, <1>8 DEF SweepRefund
<1>9. CASE UNCHANGED hold
    BY SettlingTyped, <1>9
<1> QED
    BY <1>1, <1>2, <1>3, <1>4, <1>5, <1>6, <1>7, <1>8, <1>9, HoldSteps

\* Every step keeps the type of the rows.
LEMMA RowsStayTyped ==
    ASSUME RowsTyped, WorkTyped, RowsFit, Next
    PROVE  RowsTyped'
<1> USE DEF RowsTyped, Open, Finals, rowVars
<1>1. ASSUME NEW d \in Dispatchers, Observe(d) PROVE RowsTyped'
    BY <1>1 DEF Observe, Plan, ToDisp
<1>2. ASSUME NEW d \in Dispatchers, Reserve(d) PROVE RowsTyped'
    BY <1>2 DEF Reserve, TakeHold, ToDisp
<1>3. ASSUME NEW d \in Dispatchers, Claim(d) PROVE RowsTyped'
    BY FirstStage, <1>3 DEF Claim, Plan, NewSession, ToDisp, Holds
<1>4. ASSUME NEW d \in Dispatchers, RefundClaim(d) PROVE RowsTyped'
    BY <1>4 DEF RefundClaim, GiveBack, ToDisp
<1>5. ASSUME NEW d \in Dispatchers, Enqueue(d) PROVE RowsTyped'
    BY <1>5 DEF Enqueue, ToDisp
<1>6. ASSUME NEW d \in Dispatchers, CrashDispatch(d) PROVE RowsTyped'
    BY <1>6 DEF CrashDispatch, ToDisp
<1>7. ASSUME NEW s \in Stages, TakeJob(s) PROVE RowsTyped'
    BY <1>7 DEF TakeJob, Goto
<1>8. ASSUME NEW s \in Stages, Start(s) PROVE RowsTyped'
    BY <1>8 DEF Start, StartStage, Goto
<1>9. ASSUME NEW s \in Stages, AgentGone(s) PROVE RowsTyped'
    BY <1>9 DEF AgentGone, SetSession, Ends
<1>10. ASSUME NEW s \in Stages, Conclude(s) PROVE RowsTyped'
    BY <1>10 DEF Conclude, Ends
<1>11. ASSUME NEW s \in Stages, LeaveLost(s) PROVE RowsTyped'
    BY <1>11 DEF LeaveLost, Goto
<1>12. ASSUME NEW s \in Stages, Break(s) PROVE RowsTyped'
    BY <1>12 DEF Break, Goto
<1>13. ASSUME NEW s \in Stages, Charge(s) PROVE RowsTyped'
    BY <1>13 DEF Charge, Goto
<1>14. ASSUME NEW s \in Stages, Refund(s) PROVE RowsTyped'
    BY <1>14 DEF Refund, GiveBack, Ends
<1>15. ASSUME NEW s \in Stages, Abandon(s) PROVE RowsTyped'
    BY <1>15 DEF Abandon, SetSession, Goto
<1>16. ASSUME NEW s \in Stages, Save(s) PROVE RowsTyped'
    BY <1>16 DEF Save, SetSession, Goto, RowsFit
<1>17. ASSUME NEW s \in Stages, SaveFails(s) PROVE RowsTyped'
    BY <1>17 DEF SaveFails, Goto
<1>18. ASSUME NEW s \in Stages, Mark(s) PROVE RowsTyped'
    BY <1>18 DEF Mark, SucceedStage, StopRun, StepsBecome, Goto
<1>19. ASSUME NEW s \in Stages, Leave(s) PROVE RowsTyped'
    BY <1>19 DEF Leave, Goto
<1>20. ASSUME NEW s \in Stages, Advance(s) PROVE RowsTyped'
    BY <1>20 DEF Advance, Goto
<1>21. ASSUME NEW s \in Stages, ReserveNext(s) PROVE RowsTyped'
    BY <1>21 DEF ReserveNext, TakeHold, Goto
<1>22. ASSUME NEW s \in Stages, Stop(s) PROVE RowsTyped'
    BY <1>22 DEF Stop, StopRun, StepsBecome, Goto
<1>23. ASSUME NEW s \in Stages, CreateNext(s) PROVE RowsTyped'
    BY <1>23 DEF CreateNext, GiveBack, NewSession, Goto, Holds
<1>24. ASSUME NEW s \in Stages, EnqueueNext(s) PROVE RowsTyped'
    BY <1>24 DEF EnqueueNext, Goto
<1>25. ASSUME NEW s \in Stages, GiveBackNext(s) PROVE RowsTyped'
    BY <1>25 DEF GiveBackNext, GiveBack, Goto
<1>26. ASSUME NEW s \in Stages, ThrowNext(s) PROVE RowsTyped'
    BY <1>26 DEF ThrowNext, StopRun, StepsBecome, Goto
<1>27. ASSUME NEW s \in Stages, Tell(s) PROVE RowsTyped'
    BY <1>27 DEF Tell, Goto
<1>28. ASSUME NEW s \in Stages, Crash(s) PROVE RowsTyped'
    BY <1>28 DEF Crash, Goto, Driving, Reporting
<1>29. ASSUME NEW s \in Stages, Lapse(s) PROVE RowsTyped'
    BY <1>29 DEF Lapse
<1>30. ASSUME NEW s \in Stages, Resume(s) PROVE RowsTyped'
    BY <1>30 DEF Resume
<1>31. ASSUME NEW s \in Stages, FailExhausted(s) PROVE RowsTyped'
    BY <1>31 DEF FailExhausted
<1>32. ASSUME NEW s \in Stages, ClaimOrphan(s) PROVE RowsTyped'
    BY <1>32 DEF ClaimOrphan
<1>33. ASSUME NEW s \in Stages, SweepRefund(s) PROVE RowsTyped'
    BY <1>33 DEF SweepRefund, GiveBack
<1>34. ASSUME NEW s \in Stages, SweepMark(s) PROVE RowsTyped'
    BY <1>34 DEF SweepMark, StopRun, StepsBecome
<1>35. ASSUME NEW s \in Stages, ReadCancel(s) PROVE RowsTyped'
    BY <1>35 DEF ReadCancel
<1>36. ASSUME NEW s \in Stages, WriteCancel(s) PROVE RowsTyped'
    BY <1>36 DEF WriteCancel, SetSession
<1>37. ASSUME NEW s \in Stages, NEW i \in Actions, Act(s, i) PROVE RowsTyped'
    BY <1>37 DEF Act
<1> QED
    BY <1>1, <1>2, <1>3, <1>4, <1>5, <1>6, <1>7, <1>8, <1>9, <1>10, <1>11, <1>12,
       <1>13, <1>14, <1>15, <1>16, <1>17, <1>18, <1>19, <1>20, <1>21, <1>22, <1>23,
       <1>24, <1>25, <1>26, <1>27, <1>28, <1>29, <1>30, <1>31, <1>32, <1>33, <1>34,
       <1>35, <1>36, <1>37
       DEF Next, DispatchStep, WorkerStep, SweepStep, CancelStep

\* Every step keeps the type of the workers' places.
LEMMA WorkStaysTyped ==
    ASSUME WorkTyped, RowsTyped, Next
    PROVE  WorkTyped'
<1> USE DEF WorkTyped, Pcs, Finals, Driving, Reporting, wk
<1>1. ASSUME NEW d \in Dispatchers, Observe(d) PROVE WorkTyped'
    BY <1>1 DEF Observe, Plan, ToDisp
<1>2. ASSUME NEW d \in Dispatchers, Reserve(d) PROVE WorkTyped'
    BY <1>2 DEF Reserve, TakeHold, ToDisp
<1>3. ASSUME NEW d \in Dispatchers, Claim(d) PROVE WorkTyped'
    BY <1>3 DEF Claim, Plan, NewSession, ToDisp
<1>4. ASSUME NEW d \in Dispatchers, RefundClaim(d) PROVE WorkTyped'
    BY <1>4 DEF RefundClaim, GiveBack, ToDisp
<1>5. ASSUME NEW d \in Dispatchers, Enqueue(d) PROVE WorkTyped'
    BY <1>5 DEF Enqueue, ToDisp
<1>6. ASSUME NEW d \in Dispatchers, CrashDispatch(d) PROVE WorkTyped'
    BY <1>6 DEF CrashDispatch, ToDisp
<1>7. ASSUME NEW s \in Stages, TakeJob(s) PROVE WorkTyped'
    BY <1>7 DEF TakeJob, Goto
<1>8. ASSUME NEW s \in Stages, Start(s) PROVE WorkTyped'
    BY <1>8 DEF Start, StartStage, Goto
<1>9. ASSUME NEW s \in Stages, AgentGone(s) PROVE WorkTyped'
    BY <1>9 DEF AgentGone, SetSession, Ends
<1>10. ASSUME NEW s \in Stages, Conclude(s) PROVE WorkTyped'
    BY <1>10 DEF Conclude, Ends
<1>11. ASSUME NEW s \in Stages, LeaveLost(s) PROVE WorkTyped'
    BY <1>11 DEF LeaveLost, Goto
<1>12. ASSUME NEW s \in Stages, Break(s) PROVE WorkTyped'
    BY <1>12 DEF Break, Goto
<1>13. ASSUME NEW s \in Stages, Charge(s) PROVE WorkTyped'
    BY <1>13 DEF Charge, Goto
<1>14. ASSUME NEW s \in Stages, Refund(s) PROVE WorkTyped'
    BY <1>14 DEF Refund, GiveBack, Ends
<1>15. ASSUME NEW s \in Stages, Abandon(s) PROVE WorkTyped'
    BY <1>15 DEF Abandon, SetSession, Goto
<1>16. ASSUME NEW s \in Stages, Save(s) PROVE WorkTyped'
    BY <1>16 DEF Save, SetSession, Goto
<1>17. ASSUME NEW s \in Stages, SaveFails(s) PROVE WorkTyped'
    BY <1>17 DEF SaveFails, Goto
<1>18. ASSUME NEW s \in Stages, Mark(s) PROVE WorkTyped'
    BY <1>18 DEF Mark, SucceedStage, StopRun, StepsBecome, Goto
<1>19. ASSUME NEW s \in Stages, Leave(s) PROVE WorkTyped'
    BY <1>19 DEF Leave, Goto
<1>20. ASSUME NEW s \in Stages, Advance(s) PROVE WorkTyped'
    BY <1>20 DEF Advance, Goto
<1>21. ASSUME NEW s \in Stages, ReserveNext(s) PROVE WorkTyped'
    BY <1>21 DEF ReserveNext, TakeHold, Goto
<1>22. ASSUME NEW s \in Stages, Stop(s) PROVE WorkTyped'
    BY <1>22 DEF Stop, StopRun, StepsBecome, Goto
<1>23. ASSUME NEW s \in Stages, CreateNext(s) PROVE WorkTyped'
    BY <1>23 DEF CreateNext, GiveBack, NewSession, Goto
<1>24. ASSUME NEW s \in Stages, EnqueueNext(s) PROVE WorkTyped'
    BY <1>24 DEF EnqueueNext, Goto
<1>25. ASSUME NEW s \in Stages, GiveBackNext(s) PROVE WorkTyped'
    BY <1>25 DEF GiveBackNext, GiveBack, Goto
<1>26. ASSUME NEW s \in Stages, ThrowNext(s) PROVE WorkTyped'
    BY <1>26 DEF ThrowNext, StopRun, StepsBecome, Goto
<1>27. ASSUME NEW s \in Stages, Tell(s) PROVE WorkTyped'
    BY <1>27 DEF Tell, Goto
<1>28. ASSUME NEW s \in Stages, Crash(s) PROVE WorkTyped'
    BY <1>28 DEF Crash, Goto, Driving, Reporting
<1>29. ASSUME NEW s \in Stages, Lapse(s) PROVE WorkTyped'
    BY <1>29 DEF Lapse
<1>30. ASSUME NEW s \in Stages, Resume(s) PROVE WorkTyped'
    BY <1>30 DEF Resume
<1>31. ASSUME NEW s \in Stages, FailExhausted(s) PROVE WorkTyped'
    BY <1>31 DEF FailExhausted
<1>32. ASSUME NEW s \in Stages, ClaimOrphan(s) PROVE WorkTyped'
    BY <1>32 DEF ClaimOrphan
<1>33. ASSUME NEW s \in Stages, SweepRefund(s) PROVE WorkTyped'
    BY <1>33 DEF SweepRefund, GiveBack
<1>34. ASSUME NEW s \in Stages, SweepMark(s) PROVE WorkTyped'
    BY <1>34 DEF SweepMark, StopRun, StepsBecome
<1>35. ASSUME NEW s \in Stages, ReadCancel(s) PROVE WorkTyped'
    BY <1>35 DEF ReadCancel
<1>36. ASSUME NEW s \in Stages, WriteCancel(s) PROVE WorkTyped'
    BY <1>36 DEF WriteCancel, SetSession
<1>37. ASSUME NEW s \in Stages, NEW i \in Actions, Act(s, i) PROVE WorkTyped'
    BY <1>37 DEF Act
<1> QED
    BY <1>1, <1>2, <1>3, <1>4, <1>5, <1>6, <1>7, <1>8, <1>9, <1>10, <1>11, <1>12,
       <1>13, <1>14, <1>15, <1>16, <1>17, <1>18, <1>19, <1>20, <1>21, <1>22, <1>23,
       <1>24, <1>25, <1>26, <1>27, <1>28, <1>29, <1>30, <1>31, <1>32, <1>33, <1>34,
       <1>35, <1>36, <1>37
       DEF Next, DispatchStep, WorkerStep, SweepStep, CancelStep

\* A row planned with its hold fits.
LEMMA NewRowFits ==
    ASSUME RowsTyped, WorkTyped, RowsFit, NEW t, NEW h \in Holds, NEW s \in Stages,
           session[t] = "none", NewSession(t, h), UNCHANGED <<sweep, cancelling>>,
           run' # "none", pc[s] = "create" \/ UNCHANGED wk,
           (\E to \in {"enqueue", "giveBack"} : Goto(s, to)) \/ UNCHANGED wk
    PROVE  RowsFit'
BY DEF RowsTyped, WorkTyped, RowsFit, Finals, Open, Reporting, Driving, Leased, NewSession,
   Goto, wk

\* Every step keeps workers, sweeps and cancellations where their rows allow.
LEMMA RowsStillFit ==
    ASSUME RowsTyped, WorkTyped, RowsFit, Next
    PROVE  RowsFit'
<1> USE DEF RowsTyped, WorkTyped, RowsFit, Finals, Open, Reporting, Driving, Leased, runVars,
            rowVars, wk
<1>1. ASSUME NEW d \in Dispatchers, Observe(d) PROVE RowsFit'
    BY <1>1 DEF Observe, Plan, ToDisp
<1>2. ASSUME NEW d \in Dispatchers, Reserve(d) PROVE RowsFit'
    BY <1>2 DEF Reserve, TakeHold, ToDisp
<1>3. ASSUME NEW d \in Dispatchers, Claim(d) PROVE RowsFit'
    BY FirstStage, <1>3 DEF Claim, Plan, NewSession, ToDisp, Holds
<1>4. ASSUME NEW d \in Dispatchers, RefundClaim(d) PROVE RowsFit'
    BY <1>4 DEF RefundClaim, GiveBack, ToDisp
<1>5. ASSUME NEW d \in Dispatchers, Enqueue(d) PROVE RowsFit'
    BY <1>5 DEF Enqueue, ToDisp
<1>6. ASSUME NEW d \in Dispatchers, CrashDispatch(d) PROVE RowsFit'
    BY <1>6 DEF CrashDispatch, ToDisp
<1>7. ASSUME NEW s \in Stages, TakeJob(s) PROVE RowsFit'
    BY <1>7 DEF TakeJob, Goto
<1>8. ASSUME NEW s \in Stages, Start(s) PROVE RowsFit'
    BY <1>8 DEF Start, StartStage, Goto
<1>9. ASSUME NEW s \in Stages, AgentGone(s) PROVE RowsFit'
    BY <1>9 DEF AgentGone, SetSession, Ends
<1>10. ASSUME NEW s \in Stages, Conclude(s) PROVE RowsFit'
    BY <1>10 DEF Conclude, Ends
<1>11. ASSUME NEW s \in Stages, LeaveLost(s) PROVE RowsFit'
    BY <1>11 DEF LeaveLost, Goto
<1>12. ASSUME NEW s \in Stages, Break(s) PROVE RowsFit'
    BY <1>12 DEF Break, Goto
<1>13. ASSUME NEW s \in Stages, Charge(s) PROVE RowsFit'
    BY <1>13 DEF Charge, Goto
<1>14. ASSUME NEW s \in Stages, Refund(s) PROVE RowsFit'
    BY <1>14 DEF Refund, GiveBack, Ends
<1>15. ASSUME NEW s \in Stages, Abandon(s) PROVE RowsFit'
    BY <1>15 DEF Abandon, SetSession, Goto
<1>16. ASSUME NEW s \in Stages, Save(s) PROVE RowsFit'
    BY <1>16 DEF Save, SetSession, Goto
<1>17. ASSUME NEW s \in Stages, SaveFails(s) PROVE RowsFit'
    BY <1>17 DEF SaveFails, Goto
<1>18. ASSUME NEW s \in Stages, Mark(s) PROVE RowsFit'
    BY <1>18 DEF Mark, SucceedStage, StopRun, StepsBecome, Goto
<1>19. ASSUME NEW s \in Stages, Leave(s) PROVE RowsFit'
    BY <1>19 DEF Leave, Goto
<1>20. ASSUME NEW s \in Stages, Advance(s) PROVE RowsFit'
    BY <1>20 DEF Advance, Goto
<1>21. ASSUME NEW s \in Stages, ReserveNext(s) PROVE RowsFit'
    BY <1>21 DEF ReserveNext, TakeHold, Goto
<1>22. ASSUME NEW s \in Stages, Stop(s) PROVE RowsFit'
    BY <1>22 DEF Stop, StopRun, StepsBecome, Goto
<1>23. ASSUME NEW s \in Stages, CreateNext(s) PROVE RowsFit'
    <2>1. ASSUME session[NextStage(s)] # "none" PROVE RowsFit'
        BY <1>23, <2>1 DEF CreateNext, Goto
    <2>2. ASSUME session[NextStage(s)] = "none", NewSession(NextStage(s), s) PROVE RowsFit'
        <3>1. s \in Holds /\ run' # "none"
            BY <1>23, FirstStage DEF CreateNext, Holds
        <3> QED
            BY <1>23, <2>2, <3>1, NewRowFits DEF CreateNext
    <2>3. ASSUME UNCHANGED rowVars, Goto(s, "giveBack") PROVE RowsFit'
        BY <1>23, <2>3 DEF CreateNext, Goto
    <2> QED
        BY <1>23, <2>1, <2>2, <2>3 DEF CreateNext
<1>24. ASSUME NEW s \in Stages, EnqueueNext(s) PROVE RowsFit'
    BY <1>24 DEF EnqueueNext, Goto
<1>25. ASSUME NEW s \in Stages, GiveBackNext(s) PROVE RowsFit'
    BY <1>25 DEF GiveBackNext, GiveBack, Goto
<1>26. ASSUME NEW s \in Stages, ThrowNext(s) PROVE RowsFit'
    BY <1>26 DEF ThrowNext, StopRun, StepsBecome, Goto
<1>27. ASSUME NEW s \in Stages, Tell(s) PROVE RowsFit'
    BY <1>27 DEF Tell, Goto
<1>28. ASSUME NEW s \in Stages, Crash(s) PROVE RowsFit'
    BY <1>28 DEF Crash, Goto, Driving, Reporting
<1>29. ASSUME NEW s \in Stages, Lapse(s) PROVE RowsFit'
    BY <1>29 DEF Lapse
<1>30. ASSUME NEW s \in Stages, Resume(s) PROVE RowsFit'
    BY <1>30 DEF Resume
<1>31. ASSUME NEW s \in Stages, FailExhausted(s) PROVE RowsFit'
    BY <1>31 DEF FailExhausted
<1>32. ASSUME NEW s \in Stages, ClaimOrphan(s) PROVE RowsFit'
    BY <1>32 DEF ClaimOrphan
<1>33. ASSUME NEW s \in Stages, SweepRefund(s) PROVE RowsFit'
    BY <1>33 DEF SweepRefund, GiveBack
<1>34. ASSUME NEW s \in Stages, SweepMark(s) PROVE RowsFit'
    BY <1>34 DEF SweepMark, StopRun, StepsBecome
<1>35. ASSUME NEW s \in Stages, ReadCancel(s) PROVE RowsFit'
    BY <1>35 DEF ReadCancel
<1>36. ASSUME NEW s \in Stages, WriteCancel(s) PROVE RowsFit'
    BY <1>36 DEF WriteCancel, SetSession
<1>37. ASSUME NEW s \in Stages, NEW i \in Actions, Act(s, i) PROVE RowsFit'
    BY <1>37 DEF Act
<1> QED
    BY <1>1, <1>2, <1>3, <1>4, <1>5, <1>6, <1>7, <1>8, <1>9, <1>10, <1>11, <1>12,
       <1>13, <1>14, <1>15, <1>16, <1>17, <1>18, <1>19, <1>20, <1>21, <1>22, <1>23,
       <1>24, <1>25, <1>26, <1>27, <1>28, <1>29, <1>30, <1>31, <1>32, <1>33, <1>34,
       <1>35, <1>36, <1>37
       DEF Next, DispatchStep, WorkerStep, SweepStep, CancelStep

\* Every step keeps Typed and RowsFit.
LEMMA TypedStep ==
    ASSUME Typed, RowsFit, [Next]_vars
    PROVE  Typed' /\ RowsFit'
<1>1. CASE Next
    <2>1. UNCHANGED fixed
        BY <1>1, FixedStays
    <2>2. PlanTyped' /\ HoldsTyped' /\ RowsTyped' /\ WorkTyped' /\ RowsFit'
        BY <1>1, <2>1, PlanStaysTyped, HoldsStayTyped, RowsStayTyped, WorkStaysTyped,
           RowsStillFit
           DEF Typed
    <2> QED
        BY <2>1, <2>2 DEF Typed, ActorTyped, fixed
<1>2. CASE UNCHANGED vars
    BY <1>2 DEF Typed, RowsFit, ActorTyped, PlanTyped, RowsTyped, WorkTyped, HoldsTyped,
       Actions, vars
<1> QED
    BY <1>1, <1>2

-----------------------------------------------------------------------------
(* Stages run in order.                                                    *)

\* Stages of actions are numbers.
LEMMA StageIsNat == ASSUME ActorTyped, NEW i \in Actions PROVE StageOf(i) \in Nat
<1>1. PICK n \in 0 .. MaxActions : actor \in [1 .. n -> Agents]
    BY DEF ActorTyped
<1>2. i \in Int
    BY <1>1, AutomationRunAssumption DEF Actions
<1>3. IsFiniteSet(2 .. i)
    BY <1>2, FS_Interval
<1> QED
    BY <1>3, FS_Subset, FS_CardinalityType DEF StageOf

\* The last stage is a number.
LEMMA LastIsInt == ASSUME ActorTyped PROVE Last \in Int
<1>1. PICK n \in 0 .. MaxActions : actor \in [1 .. n -> Agents]
    BY DEF ActorTyped
<1>2. Actions = 1 .. n /\ n \in Int
    BY <1>1, AutomationRunAssumption DEF Actions
<1>3. CASE n > 0
    <2>1. Cardinality(Actions) = n /\ n \in Actions
        BY <1>2, <1>3, FS_Interval
    <2> QED
        BY <1>2, <2>1, StageIsNat DEF Last
<1>4. CASE ~(n > 0)
    BY <1>2, <1>4 DEF Last
<1> QED
    BY <1>3, <1>4

\* The plan has no more stages than actions, and ends with the last one.
LEMMA LastIsStage ==
    ASSUME ActorTyped
    PROVE  Last \in Stages /\ \A i \in Actions : StageOf(i) \in 0 .. Last
<1>1. PICK n \in 0 .. MaxActions : actor \in [1 .. n -> Agents]
    BY DEF ActorTyped
<1>2. Actions = 1 .. n /\ n \in Nat /\ n <= MaxActions
    BY <1>1, AutomationRunAssumption DEF Actions
<1>3. CASE n = 0
    BY <1>2, <1>3, FirstStage DEF Last
<1>4. CASE n # 0
    <2>1. IsFiniteSet(1 .. n) /\ Cardinality(1 .. n) = n
        BY <1>2, <1>4, FS_Interval
    <2>2. Last = StageOf(n)
        BY <1>2, <1>4, <2>1 DEF Last
    <2> DEFINE Changes(i) == {j \in 2 .. i : actor[j] # actor[j - 1]}
    <2>3. IsFiniteSet(2 .. n) /\ Cardinality(2 .. n) = n - 1
        BY <1>2, <1>4, FS_Interval
    <2>4. IsFiniteSet(Changes(n)) /\ Cardinality(Changes(n)) <= n - 1
        BY <2>3, FS_Subset
    <2>5. Cardinality(Changes(n)) \in Nat
        BY <2>4, FS_CardinalityType
    <2>6. ASSUME NEW i \in Actions PROVE StageOf(i) \in 0 .. Last
        <3>1. Changes(i) \subseteq Changes(n)
            BY <1>2
        <3>2. IsFiniteSet(Changes(i)) /\ Cardinality(Changes(i)) <= Cardinality(Changes(n))
            BY <2>4, <3>1, FS_Subset
        <3>3. Cardinality(Changes(i)) \in Nat
            BY <3>2, FS_CardinalityType
        <3> QED
            BY <2>2, <2>5, <3>2, <3>3 DEF StageOf
    <2>7. Last = Cardinality(Changes(n))
        BY <2>2 DEF StageOf
    <2> HIDE DEF Changes
    <2>8. Last \in Stages
        BY <1>2, <1>4, <2>4, <2>5, <2>7, AutomationRunAssumption DEF Stages
    <2> QED
        BY <2>6, <2>8
<1> QED
    BY <1>3, <1>4

\* Actions keep their stages.
LEMMA StagesStay ==
    ASSUME UNCHANGED fixed
    PROVE  Actions' = Actions /\ \A i \in Actions : StageOf(i)' = StageOf(i)
BY DEF fixed, Actions, StageOf

\* The steps that change the status of a session.
LEMMA SessionSteps ==
    ASSUME Next
    PROVE  \/ UNCHANGED session
           \/ \E d \in Dispatchers : Claim(d)
           \/ \E s \in Stages : TakeJob(s) \/ AgentGone(s) \/ Abandon(s) \/ Save(s) \/
              CreateNext(s) \/ FailExhausted(s) \/ ClaimOrphan(s) \/ WriteCancel(s)
BY DEF Next, DispatchStep, WorkerStep, SweepStep, CancelStep, Observe, Reserve,
   RefundClaim, Enqueue, CrashDispatch, Start, Conclude, LeaveLost, Break, Charge,
   Refund, SaveFails, Mark, Leave, Advance, ReserveNext, Stop, EnqueueNext,
   GiveBackNext, ThrowNext, Tell, Crash, Lapse, Resume, SweepRefund, SweepMark,
   ReadCancel, Act, wk, hold, runVars, rowVars, fixed

RowsKept == \A x \in Stages : session[x] # "none" => session'[x] # "none"

\* Sessions are never deleted.
LEMMA RowsRemain ==
    ASSUME RowsTyped, WorkTyped, RowsFit, Next
    PROVE  RowsKept
<1> USE DEF RowsTyped, WorkTyped, RowsFit, Finals, Open, rowVars, RowsKept
<1>1. ASSUME NEW d \in Dispatchers, Claim(d) PROVE RowsKept
    BY <1>1 DEF Claim, Plan, NewSession, ToDisp
<1>2. ASSUME NEW s \in Stages, TakeJob(s) PROVE RowsKept
    BY <1>2 DEF TakeJob, Goto
<1>3. ASSUME NEW s \in Stages, AgentGone(s) PROVE RowsKept
    BY <1>3 DEF AgentGone, SetSession, Ends
<1>4. ASSUME NEW s \in Stages, Abandon(s) PROVE RowsKept
    BY <1>4 DEF Abandon, SetSession, Goto
<1>5. ASSUME NEW s \in Stages, Save(s) PROVE RowsKept
    BY <1>5 DEF Save, SetSession, Goto
<1>6. ASSUME NEW s \in Stages, CreateNext(s) PROVE RowsKept
    BY <1>6 DEF CreateNext, GiveBack, NewSession, Goto
<1>7. ASSUME NEW s \in Stages, FailExhausted(s) PROVE RowsKept
    BY <1>7 DEF FailExhausted
<1>8. ASSUME NEW s \in Stages, ClaimOrphan(s) PROVE RowsKept
    BY <1>8 DEF ClaimOrphan
<1>9. ASSUME NEW s \in Stages, WriteCancel(s) PROVE RowsKept
    BY <1>9 DEF WriteCancel, SetSession
<1>10. CASE UNCHANGED session
    BY <1>10
<1> QED
    BY <1>1, <1>2, <1>3, <1>4, <1>5, <1>6, <1>7, <1>8, <1>9, <1>10, SessionSteps

\* The stage to be continued with is the one that follows.
LEMMA NextIsNext ==
    ASSUME NextIsPlanned, NEW s \in Stages, pc[s] \in {"reserve", "create", "enqueue"}
    PROVE  NextStage(s) = s + 1 /\ s + 1 \in Stages
<1>1. s + 1 \in NextStages(s)
    BY FirstStage DEF NextIsPlanned, NextStages
<1>2. \A u \in NextStages(s) : u \in Int /\ s + 1 <= u
    BY FirstStage DEF NextStages
<1>3. \A u \in NextStages(s) : (\A v \in NextStages(s) : u <= v) => u = s + 1
    BY <1>1, <1>2
<1> QED
    BY <1>1, <1>2, <1>3 DEF NextStage, NextStages

\* At most one stage is worked on, reported or swept.
LEMMA OneAtWork ==
    ASSUME RowsFit, SucceededStays, EarlierStagesDone, NotYetQueued,
           NEW s \in Stages, pc[s] # "idle",
           NEW x \in Stages, pc[x] # "idle" \/ sweep[x] \in {"refundExhausted", "mark"}
    PROVE  x = s
<1>1. session[s] # "none" /\ session[x] # "none"
    BY DEF RowsFit
<1>2. ~(x < s)
    <2>1. SUFFICES ASSUME x < s PROVE FALSE
        OBVIOUS
    <2>2. control[x] = "succeeded" /\ pc[x] \in {"idle"} \cup Handing
        BY <1>1, <2>1 DEF EarlierStagesDone
    <2>3. pc[x] \in Handing
        BY <2>2 DEF SucceededStays
    <2> QED
        BY <1>1, <2>1, <2>3 DEF NotYetQueued, Unqueued
<1>3. ~(s < x)
    <2>1. SUFFICES ASSUME s < x PROVE FALSE
        OBVIOUS
    <2>2. pc[s] \in Handing
        BY <1>1, <2>1 DEF EarlierStagesDone
    <2> QED
        BY <1>1, <2>1, <2>2 DEF NotYetQueued, Unqueued
<1> QED
    BY <1>2, <1>3, FirstStage

\* Every step keeps what succeeded.
LEMMA SucceededStaysSo ==
    ASSUME Typed, RowsFit, Order, UNCHANGED fixed, Next
    PROVE  SucceededStays'
<1> USE DEF Typed, PlanTyped, RowsTyped, WorkTyped, RowsFit, Order, Finals, Open, runVars,
            rowVars, wk, SucceededStays, WorkIsRunning, StageSucceeded, ActionsOf
<1>1. ASSUME NEW d \in Dispatchers, Observe(d) PROVE SucceededStays'
    BY StagesStay, <1>1 DEF Observe, Plan, ToDisp
<1>2. ASSUME NEW d \in Dispatchers, Reserve(d) PROVE SucceededStays'
    BY StagesStay, <1>2 DEF Reserve, TakeHold, ToDisp
<1>3. ASSUME NEW d \in Dispatchers, Claim(d) PROVE SucceededStays'
    BY StagesStay, <1>3 DEF Claim, Plan, NewSession, ToDisp
<1>4. ASSUME NEW d \in Dispatchers, RefundClaim(d) PROVE SucceededStays'
    BY StagesStay, <1>4 DEF RefundClaim, GiveBack, ToDisp
<1>5. ASSUME NEW d \in Dispatchers, Enqueue(d) PROVE SucceededStays'
    BY StagesStay, <1>5 DEF Enqueue, ToDisp
<1>6. ASSUME NEW d \in Dispatchers, CrashDispatch(d) PROVE SucceededStays'
    BY StagesStay, <1>6 DEF CrashDispatch, ToDisp
<1>7. ASSUME NEW s \in Stages, TakeJob(s) PROVE SucceededStays'
    BY StagesStay, <1>7 DEF TakeJob, Goto
<1>8. ASSUME NEW s \in Stages, Start(s) PROVE SucceededStays'
    BY StagesStay, <1>8 DEF Start, StartStage, Goto
<1>9. ASSUME NEW s \in Stages, AgentGone(s) PROVE SucceededStays'
    BY StagesStay, <1>9 DEF AgentGone, SetSession, Ends
<1>10. ASSUME NEW s \in Stages, Conclude(s) PROVE SucceededStays'
    BY StagesStay, <1>10 DEF Conclude, Ends
<1>11. ASSUME NEW s \in Stages, LeaveLost(s) PROVE SucceededStays'
    BY StagesStay, <1>11 DEF LeaveLost, Goto
<1>12. ASSUME NEW s \in Stages, Break(s) PROVE SucceededStays'
    BY StagesStay, <1>12 DEF Break, Goto
<1>13. ASSUME NEW s \in Stages, Charge(s) PROVE SucceededStays'
    BY StagesStay, <1>13 DEF Charge, Goto
<1>14. ASSUME NEW s \in Stages, Refund(s) PROVE SucceededStays'
    BY StagesStay, <1>14 DEF Refund, GiveBack, Ends
<1>15. ASSUME NEW s \in Stages, Abandon(s) PROVE SucceededStays'
    BY StagesStay, <1>15 DEF Abandon, SetSession, Goto
<1>16. ASSUME NEW s \in Stages, Save(s) PROVE SucceededStays'
    BY StagesStay, <1>16 DEF Save, SetSession, Goto
<1>17. ASSUME NEW s \in Stages, SaveFails(s) PROVE SucceededStays'
    BY StagesStay, <1>17 DEF SaveFails, Goto
<1>18. ASSUME NEW s \in Stages, Mark(s) PROVE SucceededStays'
    BY StagesStay, <1>18 DEF Mark, SucceedStage, StopRun, StepsBecome, Goto
<1>19. ASSUME NEW s \in Stages, Leave(s) PROVE SucceededStays'
    BY StagesStay, <1>19 DEF Leave, Goto
<1>20. ASSUME NEW s \in Stages, Advance(s) PROVE SucceededStays'
    BY StagesStay, <1>20 DEF Advance, Goto
<1>21. ASSUME NEW s \in Stages, ReserveNext(s) PROVE SucceededStays'
    BY StagesStay, <1>21 DEF ReserveNext, TakeHold, Goto
<1>22. ASSUME NEW s \in Stages, Stop(s) PROVE SucceededStays'
    BY StagesStay, <1>22 DEF Stop, StopRun, StepsBecome, Goto
<1>23. ASSUME NEW s \in Stages, CreateNext(s) PROVE SucceededStays'
    BY StagesStay, <1>23 DEF CreateNext, GiveBack, NewSession, Goto
<1>24. ASSUME NEW s \in Stages, EnqueueNext(s) PROVE SucceededStays'
    BY StagesStay, <1>24 DEF EnqueueNext, Goto
<1>25. ASSUME NEW s \in Stages, GiveBackNext(s) PROVE SucceededStays'
    BY StagesStay, <1>25 DEF GiveBackNext, GiveBack, Goto
<1>26. ASSUME NEW s \in Stages, ThrowNext(s) PROVE SucceededStays'
    BY StagesStay, <1>26 DEF ThrowNext, StopRun, StepsBecome, Goto
<1>27. ASSUME NEW s \in Stages, Tell(s) PROVE SucceededStays'
    BY StagesStay, <1>27 DEF Tell, Goto
<1>28. ASSUME NEW s \in Stages, Crash(s) PROVE SucceededStays'
    BY StagesStay, <1>28 DEF Crash, Goto, Driving, Reporting
<1>29. ASSUME NEW s \in Stages, Lapse(s) PROVE SucceededStays'
    BY StagesStay, <1>29 DEF Lapse
<1>30. ASSUME NEW s \in Stages, Resume(s) PROVE SucceededStays'
    BY StagesStay, <1>30 DEF Resume
<1>31. ASSUME NEW s \in Stages, FailExhausted(s) PROVE SucceededStays'
    BY StagesStay, <1>31 DEF FailExhausted
<1>32. ASSUME NEW s \in Stages, ClaimOrphan(s) PROVE SucceededStays'
    BY StagesStay, <1>32 DEF ClaimOrphan
<1>33. ASSUME NEW s \in Stages, SweepRefund(s) PROVE SucceededStays'
    BY StagesStay, <1>33 DEF SweepRefund, GiveBack
<1>34. ASSUME NEW s \in Stages, SweepMark(s) PROVE SucceededStays'
    BY StagesStay, <1>34 DEF SweepMark, StopRun, StepsBecome
<1>35. ASSUME NEW s \in Stages, ReadCancel(s) PROVE SucceededStays'
    BY StagesStay, <1>35 DEF ReadCancel
<1>36. ASSUME NEW s \in Stages, WriteCancel(s) PROVE SucceededStays'
    BY StagesStay, <1>36 DEF WriteCancel, SetSession
<1>37. ASSUME NEW s \in Stages, NEW i \in Actions, Act(s, i) PROVE SucceededStays'
    BY StagesStay, <1>37 DEF Act
<1> QED
    BY <1>1, <1>2, <1>3, <1>4, <1>5, <1>6, <1>7, <1>8, <1>9, <1>10, <1>11, <1>12,
       <1>13, <1>14, <1>15, <1>16, <1>17, <1>18, <1>19, <1>20, <1>21, <1>22, <1>23,
       <1>24, <1>25, <1>26, <1>27, <1>28, <1>29, <1>30, <1>31, <1>32, <1>33, <1>34,
       <1>35, <1>36, <1>37
       DEF Next, DispatchStep, WorkerStep, SweepStep, CancelStep

\* Every step keeps work to running stages.
LEMMA WorkStaysRunning ==
    ASSUME Typed, RowsFit, Order, UNCHANGED fixed, Next
    PROVE  WorkIsRunning'
<1> USE DEF Typed, PlanTyped, RowsTyped, WorkTyped, RowsFit, Order, Finals, Open, runVars,
            rowVars, wk, WorkIsRunning
<1>1. ASSUME NEW d \in Dispatchers, Observe(d) PROVE WorkIsRunning'
    BY <1>1 DEF Observe, Plan, ToDisp
<1>2. ASSUME NEW d \in Dispatchers, Reserve(d) PROVE WorkIsRunning'
    BY <1>2 DEF Reserve, TakeHold, ToDisp
<1>3. ASSUME NEW d \in Dispatchers, Claim(d) PROVE WorkIsRunning'
    BY <1>3 DEF Claim, Plan, NewSession, ToDisp
<1>4. ASSUME NEW d \in Dispatchers, RefundClaim(d) PROVE WorkIsRunning'
    BY <1>4 DEF RefundClaim, GiveBack, ToDisp
<1>5. ASSUME NEW d \in Dispatchers, Enqueue(d) PROVE WorkIsRunning'
    BY <1>5 DEF Enqueue, ToDisp
<1>6. ASSUME NEW d \in Dispatchers, CrashDispatch(d) PROVE WorkIsRunning'
    BY <1>6 DEF CrashDispatch, ToDisp
<1>7. ASSUME NEW s \in Stages, TakeJob(s) PROVE WorkIsRunning'
    BY <1>7 DEF TakeJob, Goto
<1>8. ASSUME NEW s \in Stages, Start(s) PROVE WorkIsRunning'
    BY <1>8 DEF Start, StartStage, Goto
<1>9. ASSUME NEW s \in Stages, AgentGone(s) PROVE WorkIsRunning'
    BY <1>9 DEF AgentGone, SetSession, Ends
<1>10. ASSUME NEW s \in Stages, Conclude(s) PROVE WorkIsRunning'
    BY <1>10 DEF Conclude, Ends
<1>11. ASSUME NEW s \in Stages, LeaveLost(s) PROVE WorkIsRunning'
    BY <1>11 DEF LeaveLost, Goto
<1>12. ASSUME NEW s \in Stages, Break(s) PROVE WorkIsRunning'
    BY <1>12 DEF Break, Goto
<1>13. ASSUME NEW s \in Stages, Charge(s) PROVE WorkIsRunning'
    BY <1>13 DEF Charge, Goto
<1>14. ASSUME NEW s \in Stages, Refund(s) PROVE WorkIsRunning'
    BY <1>14 DEF Refund, GiveBack, Ends
<1>15. ASSUME NEW s \in Stages, Abandon(s) PROVE WorkIsRunning'
    BY <1>15 DEF Abandon, SetSession, Goto
<1>16. ASSUME NEW s \in Stages, Save(s) PROVE WorkIsRunning'
    BY <1>16 DEF Save, SetSession, Goto
<1>17. ASSUME NEW s \in Stages, SaveFails(s) PROVE WorkIsRunning'
    BY <1>17 DEF SaveFails, Goto
<1>18. ASSUME NEW s \in Stages, Mark(s) PROVE WorkIsRunning'
    BY <1>18 DEF Mark, SucceedStage, StopRun, StepsBecome, Goto
<1>19. ASSUME NEW s \in Stages, Leave(s) PROVE WorkIsRunning'
    BY <1>19 DEF Leave, Goto
<1>20. ASSUME NEW s \in Stages, Advance(s) PROVE WorkIsRunning'
    BY <1>20 DEF Advance, Goto
<1>21. ASSUME NEW s \in Stages, ReserveNext(s) PROVE WorkIsRunning'
    BY <1>21 DEF ReserveNext, TakeHold, Goto
<1>22. ASSUME NEW s \in Stages, Stop(s) PROVE WorkIsRunning'
    BY <1>22 DEF Stop, StopRun, StepsBecome, Goto
<1>23. ASSUME NEW s \in Stages, CreateNext(s) PROVE WorkIsRunning'
    BY <1>23 DEF CreateNext, GiveBack, NewSession, Goto
<1>24. ASSUME NEW s \in Stages, EnqueueNext(s) PROVE WorkIsRunning'
    BY <1>24 DEF EnqueueNext, Goto
<1>25. ASSUME NEW s \in Stages, GiveBackNext(s) PROVE WorkIsRunning'
    BY <1>25 DEF GiveBackNext, GiveBack, Goto
<1>26. ASSUME NEW s \in Stages, ThrowNext(s) PROVE WorkIsRunning'
    BY <1>26 DEF ThrowNext, StopRun, StepsBecome, Goto
<1>27. ASSUME NEW s \in Stages, Tell(s) PROVE WorkIsRunning'
    BY <1>27 DEF Tell, Goto
<1>28. ASSUME NEW s \in Stages, Crash(s) PROVE WorkIsRunning'
    BY <1>28 DEF Crash, Goto, Driving, Reporting
<1>29. ASSUME NEW s \in Stages, Lapse(s) PROVE WorkIsRunning'
    BY <1>29 DEF Lapse
<1>30. ASSUME NEW s \in Stages, Resume(s) PROVE WorkIsRunning'
    BY <1>30 DEF Resume
<1>31. ASSUME NEW s \in Stages, FailExhausted(s) PROVE WorkIsRunning'
    BY <1>31 DEF FailExhausted
<1>32. ASSUME NEW s \in Stages, ClaimOrphan(s) PROVE WorkIsRunning'
    BY <1>32 DEF ClaimOrphan
<1>33. ASSUME NEW s \in Stages, SweepRefund(s) PROVE WorkIsRunning'
    BY <1>33 DEF SweepRefund, GiveBack
<1>34. ASSUME NEW s \in Stages, SweepMark(s) PROVE WorkIsRunning'
    BY <1>34 DEF SweepMark, StopRun, StepsBecome
<1>35. ASSUME NEW s \in Stages, ReadCancel(s) PROVE WorkIsRunning'
    BY <1>35 DEF ReadCancel
<1>36. ASSUME NEW s \in Stages, WriteCancel(s) PROVE WorkIsRunning'
    BY <1>36 DEF WriteCancel, SetSession
<1>37. ASSUME NEW s \in Stages, NEW i \in Actions, Act(s, i) PROVE WorkIsRunning'
    BY <1>37 DEF Act
<1> QED
    BY <1>1, <1>2, <1>3, <1>4, <1>5, <1>6, <1>7, <1>8, <1>9, <1>10, <1>11, <1>12,
       <1>13, <1>14, <1>15, <1>16, <1>17, <1>18, <1>19, <1>20, <1>21, <1>22, <1>23,
       <1>24, <1>25, <1>26, <1>27, <1>28, <1>29, <1>30, <1>31, <1>32, <1>33, <1>34,
       <1>35, <1>36, <1>37
       DEF Next, DispatchStep, WorkerStep, SweepStep, CancelStep

\* Every step keeps earlier stages done.
LEMMA EarlierStay ==
    ASSUME Typed, RowsFit, Order, UNCHANGED fixed, Next
    PROVE  EarlierStagesDone'
<1> USE DEF Typed, PlanTyped, RowsTyped, WorkTyped, RowsFit, Order, Finals, Open, runVars,
            rowVars, wk, EarlierStagesDone, SucceededStays, Handing
<1>1. ASSUME NEW d \in Dispatchers, Observe(d) PROVE EarlierStagesDone'
    BY <1>1 DEF Observe, Plan, ToDisp
<1>2. ASSUME NEW d \in Dispatchers, Reserve(d) PROVE EarlierStagesDone'
    BY <1>2 DEF Reserve, TakeHold, ToDisp
<1>3. ASSUME NEW d \in Dispatchers, Claim(d) PROVE EarlierStagesDone'
    BY FirstStage, <1>3 DEF Claim, Plan, NewSession, ToDisp
<1>4. ASSUME NEW d \in Dispatchers, RefundClaim(d) PROVE EarlierStagesDone'
    BY <1>4 DEF RefundClaim, GiveBack, ToDisp
<1>5. ASSUME NEW d \in Dispatchers, Enqueue(d) PROVE EarlierStagesDone'
    BY <1>5 DEF Enqueue, ToDisp
<1>6. ASSUME NEW d \in Dispatchers, CrashDispatch(d) PROVE EarlierStagesDone'
    BY <1>6 DEF CrashDispatch, ToDisp
<1>7. ASSUME NEW s \in Stages, TakeJob(s) PROVE EarlierStagesDone'
    BY <1>7 DEF TakeJob, Goto
<1>8. ASSUME NEW s \in Stages, Start(s) PROVE EarlierStagesDone'
    BY <1>8 DEF Start, StartStage, Goto
<1>9. ASSUME NEW s \in Stages, AgentGone(s) PROVE EarlierStagesDone'
    BY <1>9 DEF AgentGone, SetSession, Ends
<1>10. ASSUME NEW s \in Stages, Conclude(s) PROVE EarlierStagesDone'
    BY <1>10 DEF Conclude, Ends
<1>11. ASSUME NEW s \in Stages, LeaveLost(s) PROVE EarlierStagesDone'
    BY <1>11 DEF LeaveLost, Goto
<1>12. ASSUME NEW s \in Stages, Break(s) PROVE EarlierStagesDone'
    BY <1>12 DEF Break, Goto
<1>13. ASSUME NEW s \in Stages, Charge(s) PROVE EarlierStagesDone'
    BY <1>13 DEF Charge, Goto
<1>14. ASSUME NEW s \in Stages, Refund(s) PROVE EarlierStagesDone'
    BY <1>14 DEF Refund, GiveBack, Ends
<1>15. ASSUME NEW s \in Stages, Abandon(s) PROVE EarlierStagesDone'
    BY <1>15 DEF Abandon, SetSession, Goto
<1>16. ASSUME NEW s \in Stages, Save(s) PROVE EarlierStagesDone'
    BY <1>16 DEF Save, SetSession, Goto
<1>17. ASSUME NEW s \in Stages, SaveFails(s) PROVE EarlierStagesDone'
    BY <1>17 DEF SaveFails, Goto
<1>18. ASSUME NEW s \in Stages, Mark(s) PROVE EarlierStagesDone'
    BY <1>18 DEF Mark, SucceedStage, StopRun, StepsBecome, Goto
<1>19. ASSUME NEW s \in Stages, Leave(s) PROVE EarlierStagesDone'
    BY <1>19 DEF Leave, Goto
<1>20. ASSUME NEW s \in Stages, Advance(s) PROVE EarlierStagesDone'
    BY <1>20 DEF Advance, Goto
<1>21. ASSUME NEW s \in Stages, ReserveNext(s) PROVE EarlierStagesDone'
    BY <1>21 DEF ReserveNext, TakeHold, Goto
<1>22. ASSUME NEW s \in Stages, Stop(s) PROVE EarlierStagesDone'
    BY <1>22 DEF Stop, StopRun, StepsBecome, Goto
<1>23. ASSUME NEW s \in Stages, CreateNext(s) PROVE EarlierStagesDone'
    <2>1. /\ NextStage(s) = s + 1 /\ s + 1 \in Stages /\ control[s] = "succeeded"
          /\ session[s] # "none" /\ pc[s] = "create" /\ control' = control
        BY NextIsNext, <1>23 DEF CreateNext, NextIsPlanned, runVars
    <2>2. pc'[s] \in Handing /\ \A u \in Stages : u # s => pc'[u] = pc[u]
        BY <1>23 DEF CreateNext, Goto, Handing
    <2>3. \A u \in Stages : s < u => session[u] = "none"
        BY <2>1 DEF EarlierStagesDone, Handing
    <2>4. \A u \in Stages : session'[u] = session[u] \/ u = s + 1
        BY <1>23, <2>1 DEF CreateNext, GiveBack, NewSession, Goto
    <2>5. ASSUME NEW u \in Stages, NEW v \in Stages, u < v, session'[v] # "none"
          PROVE  /\ session'[u] # "none" /\ control'[u] = "succeeded"
                 /\ pc'[u] \in {"idle"} \cup Handing
        <3>1. CASE u = s
            BY <2>1, <2>2, <2>4, <3>1, FirstStage, RowsRemain DEF RowsKept
        <3>2. CASE u # s
            <4>1. session[u] # "none" /\ control[u] = "succeeded" /\ pc[u] \in {"idle"} \cup Handing
                <5>1. CASE session[v] # "none"
                    BY <2>5, <5>1 DEF EarlierStagesDone
                <5>2. CASE session[v] = "none"
                    <6>1. v = s + 1
                        BY <2>4, <2>5, <5>2
                    <6>2. u < s
                        BY <2>5, <3>2, <6>1, FirstStage
                    <6> QED
                        BY <2>1, <6>2 DEF EarlierStagesDone
                <5> QED
                    BY <5>1, <5>2
            <4> QED
                BY <2>1, <2>2, <3>2, <4>1, RowsRemain DEF RowsKept
        <3> QED
            BY <3>1, <3>2
    <2> QED
        BY <2>5 DEF EarlierStagesDone
<1>24. ASSUME NEW s \in Stages, EnqueueNext(s) PROVE EarlierStagesDone'
    BY <1>24 DEF EnqueueNext, Goto
<1>25. ASSUME NEW s \in Stages, GiveBackNext(s) PROVE EarlierStagesDone'
    BY <1>25 DEF GiveBackNext, GiveBack, Goto
<1>26. ASSUME NEW s \in Stages, ThrowNext(s) PROVE EarlierStagesDone'
    BY <1>26 DEF ThrowNext, StopRun, StepsBecome, Goto
<1>27. ASSUME NEW s \in Stages, Tell(s) PROVE EarlierStagesDone'
    BY <1>27 DEF Tell, Goto
<1>28. ASSUME NEW s \in Stages, Crash(s) PROVE EarlierStagesDone'
    BY <1>28 DEF Crash, Goto, Driving, Reporting
<1>29. ASSUME NEW s \in Stages, Lapse(s) PROVE EarlierStagesDone'
    BY <1>29 DEF Lapse
<1>30. ASSUME NEW s \in Stages, Resume(s) PROVE EarlierStagesDone'
    BY <1>30 DEF Resume
<1>31. ASSUME NEW s \in Stages, FailExhausted(s) PROVE EarlierStagesDone'
    BY <1>31 DEF FailExhausted
<1>32. ASSUME NEW s \in Stages, ClaimOrphan(s) PROVE EarlierStagesDone'
    BY <1>32 DEF ClaimOrphan
<1>33. ASSUME NEW s \in Stages, SweepRefund(s) PROVE EarlierStagesDone'
    BY <1>33 DEF SweepRefund, GiveBack
<1>34. ASSUME NEW s \in Stages, SweepMark(s) PROVE EarlierStagesDone'
    BY <1>34 DEF SweepMark, StopRun, StepsBecome
<1>35. ASSUME NEW s \in Stages, ReadCancel(s) PROVE EarlierStagesDone'
    BY <1>35 DEF ReadCancel
<1>36. ASSUME NEW s \in Stages, WriteCancel(s) PROVE EarlierStagesDone'
    BY <1>36 DEF WriteCancel, SetSession
<1>37. ASSUME NEW s \in Stages, NEW i \in Actions, Act(s, i) PROVE EarlierStagesDone'
    BY <1>37 DEF Act
<1> QED
    BY <1>1, <1>2, <1>3, <1>4, <1>5, <1>6, <1>7, <1>8, <1>9, <1>10, <1>11, <1>12,
       <1>13, <1>14, <1>15, <1>16, <1>17, <1>18, <1>19, <1>20, <1>21, <1>22, <1>23,
       <1>24, <1>25, <1>26, <1>27, <1>28, <1>29, <1>30, <1>31, <1>32, <1>33, <1>34,
       <1>35, <1>36, <1>37
       DEF Next, DispatchStep, WorkerStep, SweepStep, CancelStep

\* No step opens a gap in what is left of the plan.
LEMMA NoGapOpens ==
    ASSUME Typed, RowsFit, Order, UNCHANGED fixed, Next
    PROVE  PlanHasNoGap'
<1> USE DEF RowsKept, Typed, PlanTyped, RowsTyped, WorkTyped, RowsFit, Order, Finals, Open,
            runVars, rowVars, wk, PlanHasNoGap
<1>1. ASSUME NEW d \in Dispatchers, Observe(d) PROVE PlanHasNoGap'
    BY RowsRemain, FirstStage, <1>1 DEF Observe, Plan, ToDisp
<1>2. ASSUME NEW d \in Dispatchers, Claim(d) PROVE PlanHasNoGap'
    BY RowsRemain, FirstStage, LastIsInt, <1>2 DEF Claim, Plan, NewSession, ToDisp
<1>3. ASSUME NEW s \in Stages, Start(s) PROVE PlanHasNoGap'
    BY RowsRemain, FirstStage, <1>3 DEF Start, StartStage, Goto
<1>4. ASSUME NEW s \in Stages, Mark(s) PROVE PlanHasNoGap'
    BY RowsRemain, FirstStage, <1>4 DEF Mark, SucceedStage, StopRun, StepsBecome, Goto
<1>5. ASSUME NEW s \in Stages, Stop(s) PROVE PlanHasNoGap'
    BY RowsRemain, FirstStage, <1>5 DEF Stop, StopRun, StepsBecome, Goto
<1>6. ASSUME NEW s \in Stages, ThrowNext(s) PROVE PlanHasNoGap'
    BY RowsRemain, FirstStage, <1>6 DEF ThrowNext, StopRun, StepsBecome, Goto
<1>7. ASSUME NEW s \in Stages, SweepMark(s) PROVE PlanHasNoGap'
    BY RowsRemain, FirstStage, <1>7 DEF SweepMark, StopRun, StepsBecome
<1>8. ASSUME NEW s \in Stages, NEW i \in Actions, Act(s, i) PROVE PlanHasNoGap'
    BY RowsRemain, FirstStage, <1>8 DEF Act
<1>9. CASE UNCHANGED runVars
    BY RowsRemain, FirstStage, <1>9
<1> QED
    BY <1>1, <1>2, <1>3, <1>4, <1>5, <1>6, <1>7, <1>8, <1>9, PlanSteps

\* Every step keeps the next stage planned for who continues with it.
LEMMA NextStaysPlanned ==
    ASSUME Typed, RowsFit, Order, UNCHANGED fixed, Next
    PROVE  NextIsPlanned'
<1> USE DEF Typed, PlanTyped, RowsTyped, WorkTyped, RowsFit, Order, Finals, Open, runVars,
            rowVars, wk, NextIsPlanned, EarlierStagesDone, SucceededStays
<1>1. ASSUME NEW d \in Dispatchers, Observe(d) PROVE NextIsPlanned'
    BY <1>1 DEF Observe, Plan, ToDisp
<1>2. ASSUME NEW d \in Dispatchers, Reserve(d) PROVE NextIsPlanned'
    BY <1>2 DEF Reserve, TakeHold, ToDisp
<1>3. ASSUME NEW d \in Dispatchers, Claim(d) PROVE NextIsPlanned'
    BY <1>3 DEF Claim, Plan, NewSession, ToDisp
<1>4. ASSUME NEW d \in Dispatchers, RefundClaim(d) PROVE NextIsPlanned'
    BY <1>4 DEF RefundClaim, GiveBack, ToDisp
<1>5. ASSUME NEW d \in Dispatchers, Enqueue(d) PROVE NextIsPlanned'
    BY <1>5 DEF Enqueue, ToDisp
<1>6. ASSUME NEW d \in Dispatchers, CrashDispatch(d) PROVE NextIsPlanned'
    BY <1>6 DEF CrashDispatch, ToDisp
<1>7. ASSUME NEW s \in Stages, TakeJob(s) PROVE NextIsPlanned'
    BY <1>7 DEF TakeJob, Goto
<1>8. ASSUME NEW s \in Stages, Start(s) PROVE NextIsPlanned'
    BY OneAtWork, FirstStage, <1>8 DEF Start, StartStage, Goto
<1>9. ASSUME NEW s \in Stages, AgentGone(s) PROVE NextIsPlanned'
    BY <1>9 DEF AgentGone, SetSession, Ends
<1>10. ASSUME NEW s \in Stages, Conclude(s) PROVE NextIsPlanned'
    BY <1>10 DEF Conclude, Ends
<1>11. ASSUME NEW s \in Stages, LeaveLost(s) PROVE NextIsPlanned'
    BY <1>11 DEF LeaveLost, Goto
<1>12. ASSUME NEW s \in Stages, Break(s) PROVE NextIsPlanned'
    BY <1>12 DEF Break, Goto
<1>13. ASSUME NEW s \in Stages, Charge(s) PROVE NextIsPlanned'
    BY <1>13 DEF Charge, Goto
<1>14. ASSUME NEW s \in Stages, Refund(s) PROVE NextIsPlanned'
    BY <1>14 DEF Refund, GiveBack, Ends
<1>15. ASSUME NEW s \in Stages, Abandon(s) PROVE NextIsPlanned'
    BY <1>15 DEF Abandon, SetSession, Goto
<1>16. ASSUME NEW s \in Stages, Save(s) PROVE NextIsPlanned'
    BY <1>16 DEF Save, SetSession, Goto
<1>17. ASSUME NEW s \in Stages, SaveFails(s) PROVE NextIsPlanned'
    BY <1>17 DEF SaveFails, Goto
<1>18. ASSUME NEW s \in Stages, Mark(s) PROVE NextIsPlanned'
    BY OneAtWork, FirstStage, <1>18 DEF Mark, SucceedStage, StopRun, StepsBecome,
       Goto
<1>19. ASSUME NEW s \in Stages, Leave(s) PROVE NextIsPlanned'
    BY <1>19 DEF Leave, Goto
<1>20. ASSUME NEW s \in Stages, Advance(s) PROVE NextIsPlanned'
    <2>1. CASE pc'[s] = "reserve"
        <3>1. control[s] = "succeeded" /\ session[s] # "none" /\ pc[s] = "advance"
            BY <1>20, <2>1 DEF Advance, Goto
        <3>2. PICK u \in Stages : u > s /\ control[u] = "planned"
            BY <1>20, <2>1 DEF Advance, Goto, NextStages
        <3>3. s + 1 \in Stages /\ (u = s + 1 \/ s + 1 < u) /\ s < s + 1
            BY <3>2, AutomationRunAssumption DEF Stages
        <3>4. session[s + 1] = "none"
            BY <3>1, <3>3 DEF Handing
        <3>5. control[s + 1] = "planned"
            BY <3>2, <3>3, <3>4 DEF PlanHasNoGap
        <3> QED
            BY <1>20, <3>1, <3>3, <3>5 DEF Advance, Goto
    <2>2. CASE pc'[s] # "reserve"
        BY <1>20, <2>2 DEF Advance, Goto
    <2> QED
        BY <2>1, <2>2
<1>21. ASSUME NEW s \in Stages, ReserveNext(s) PROVE NextIsPlanned'
    BY <1>21 DEF ReserveNext, TakeHold, Goto
<1>22. ASSUME NEW s \in Stages, Stop(s) PROVE NextIsPlanned'
    BY OneAtWork, FirstStage, <1>22 DEF Stop, StopRun, StepsBecome, Goto
<1>23. ASSUME NEW s \in Stages, CreateNext(s) PROVE NextIsPlanned'
    BY NextIsNext, OneAtWork, FirstStage, <1>23 DEF CreateNext, GiveBack, NewSession, Goto
<1>24. ASSUME NEW s \in Stages, EnqueueNext(s) PROVE NextIsPlanned'
    BY <1>24 DEF EnqueueNext, Goto
<1>25. ASSUME NEW s \in Stages, GiveBackNext(s) PROVE NextIsPlanned'
    BY <1>25 DEF GiveBackNext, GiveBack, Goto
<1>26. ASSUME NEW s \in Stages, ThrowNext(s) PROVE NextIsPlanned'
    BY OneAtWork, FirstStage, <1>26 DEF ThrowNext, StopRun, StepsBecome, Goto
<1>27. ASSUME NEW s \in Stages, Tell(s) PROVE NextIsPlanned'
    BY <1>27 DEF Tell, Goto
<1>28. ASSUME NEW s \in Stages, Crash(s) PROVE NextIsPlanned'
    BY <1>28 DEF Crash, Goto, Driving, Reporting
<1>29. ASSUME NEW s \in Stages, Lapse(s) PROVE NextIsPlanned'
    BY <1>29 DEF Lapse
<1>30. ASSUME NEW s \in Stages, Resume(s) PROVE NextIsPlanned'
    BY <1>30 DEF Resume
<1>31. ASSUME NEW s \in Stages, FailExhausted(s) PROVE NextIsPlanned'
    BY <1>31 DEF FailExhausted
<1>32. ASSUME NEW s \in Stages, ClaimOrphan(s) PROVE NextIsPlanned'
    BY <1>32 DEF ClaimOrphan
<1>33. ASSUME NEW s \in Stages, SweepRefund(s) PROVE NextIsPlanned'
    BY <1>33 DEF SweepRefund, GiveBack
<1>34. ASSUME NEW s \in Stages, SweepMark(s) PROVE NextIsPlanned'
    BY OneAtWork, FirstStage, <1>34 DEF SweepMark, StopRun, StepsBecome
<1>35. ASSUME NEW s \in Stages, ReadCancel(s) PROVE NextIsPlanned'
    BY <1>35 DEF ReadCancel
<1>36. ASSUME NEW s \in Stages, WriteCancel(s) PROVE NextIsPlanned'
    BY <1>36 DEF WriteCancel, SetSession
<1>37. ASSUME NEW s \in Stages, NEW i \in Actions, Act(s, i) PROVE NextIsPlanned'
    BY <1>37 DEF Act
<1> QED
    BY <1>1, <1>2, <1>3, <1>4, <1>5, <1>6, <1>7, <1>8, <1>9, <1>10, <1>11, <1>12,
       <1>13, <1>14, <1>15, <1>16, <1>17, <1>18, <1>19, <1>20, <1>21, <1>22, <1>23,
       <1>24, <1>25, <1>26, <1>27, <1>28, <1>29, <1>30, <1>31, <1>32, <1>33, <1>34,
       <1>35, <1>36, <1>37
       DEF Next, DispatchStep, WorkerStep, SweepStep, CancelStep

\* Every step queues only sessions that are there and not worked on.
LEMMA JobsStillFit ==
    ASSUME Typed, RowsFit, Order, Next
    PROVE  JobsFit'
<1> USE DEF Typed, PlanTyped, RowsTyped, WorkTyped, RowsFit, Order, Finals, Open, runVars,
            rowVars, wk, JobsFit, Handing
<1>1. ASSUME NEW d \in Dispatchers, Observe(d) PROVE JobsFit'
    BY <1>1 DEF Observe, Plan, ToDisp
<1>2. ASSUME NEW d \in Dispatchers, Reserve(d) PROVE JobsFit'
    BY <1>2 DEF Reserve, TakeHold, ToDisp
<1>3. ASSUME NEW d \in Dispatchers, Claim(d) PROVE JobsFit'
    BY <1>3 DEF Claim, Plan, NewSession, ToDisp
<1>4. ASSUME NEW d \in Dispatchers, RefundClaim(d) PROVE JobsFit'
    BY <1>4 DEF RefundClaim, GiveBack, ToDisp
<1>5. ASSUME NEW d \in Dispatchers, Enqueue(d) PROVE JobsFit'
    BY HoldsApart, FirstStage, <1>5 DEF Enqueue, ToDisp, FirstNotQueued, Unqueued
<1>6. ASSUME NEW d \in Dispatchers, CrashDispatch(d) PROVE JobsFit'
    BY <1>6 DEF CrashDispatch, ToDisp
<1>7. ASSUME NEW s \in Stages, TakeJob(s) PROVE JobsFit'
    BY <1>7 DEF TakeJob, Goto
<1>8. ASSUME NEW s \in Stages, Start(s) PROVE JobsFit'
    BY <1>8 DEF Start, StartStage, Goto
<1>9. ASSUME NEW s \in Stages, AgentGone(s) PROVE JobsFit'
    BY <1>9 DEF AgentGone, SetSession, Ends
<1>10. ASSUME NEW s \in Stages, Conclude(s) PROVE JobsFit'
    BY <1>10 DEF Conclude, Ends
<1>11. ASSUME NEW s \in Stages, LeaveLost(s) PROVE JobsFit'
    BY <1>11 DEF LeaveLost, Goto
<1>12. ASSUME NEW s \in Stages, Break(s) PROVE JobsFit'
    BY <1>12 DEF Break, Goto
<1>13. ASSUME NEW s \in Stages, Charge(s) PROVE JobsFit'
    BY <1>13 DEF Charge, Goto
<1>14. ASSUME NEW s \in Stages, Refund(s) PROVE JobsFit'
    BY <1>14 DEF Refund, GiveBack, Ends
<1>15. ASSUME NEW s \in Stages, Abandon(s) PROVE JobsFit'
    BY <1>15 DEF Abandon, SetSession, Goto
<1>16. ASSUME NEW s \in Stages, Save(s) PROVE JobsFit'
    BY <1>16 DEF Save, SetSession, Goto
<1>17. ASSUME NEW s \in Stages, SaveFails(s) PROVE JobsFit'
    BY <1>17 DEF SaveFails, Goto
<1>18. ASSUME NEW s \in Stages, Mark(s) PROVE JobsFit'
    BY <1>18 DEF Mark, SucceedStage, StopRun, StepsBecome, Goto
<1>19. ASSUME NEW s \in Stages, Leave(s) PROVE JobsFit'
    BY <1>19 DEF Leave, Goto
<1>20. ASSUME NEW s \in Stages, Advance(s) PROVE JobsFit'
    BY <1>20 DEF Advance, Goto
<1>21. ASSUME NEW s \in Stages, ReserveNext(s) PROVE JobsFit'
    BY <1>21 DEF ReserveNext, TakeHold, Goto
<1>22. ASSUME NEW s \in Stages, Stop(s) PROVE JobsFit'
    BY <1>22 DEF Stop, StopRun, StepsBecome, Goto
<1>23. ASSUME NEW s \in Stages, CreateNext(s) PROVE JobsFit'
    BY <1>23 DEF CreateNext, GiveBack, NewSession, Goto
<1>24. ASSUME NEW s \in Stages, EnqueueNext(s) PROVE JobsFit'
    BY NextIsNext, FirstStage, OneAtWork, <1>24 DEF EnqueueNext, Goto, NextIsPlanned,
       NotYetQueued, Unqueued
<1>25. ASSUME NEW s \in Stages, GiveBackNext(s) PROVE JobsFit'
    BY <1>25 DEF GiveBackNext, GiveBack, Goto
<1>26. ASSUME NEW s \in Stages, ThrowNext(s) PROVE JobsFit'
    BY <1>26 DEF ThrowNext, StopRun, StepsBecome, Goto
<1>27. ASSUME NEW s \in Stages, Tell(s) PROVE JobsFit'
    BY <1>27 DEF Tell, Goto
<1>28. ASSUME NEW s \in Stages, Crash(s) PROVE JobsFit'
    BY <1>28 DEF Crash, Goto, Driving, Reporting
<1>29. ASSUME NEW s \in Stages, Lapse(s) PROVE JobsFit'
    BY <1>29 DEF Lapse
<1>30. ASSUME NEW s \in Stages, Resume(s) PROVE JobsFit'
    BY <1>30 DEF Resume
<1>31. ASSUME NEW s \in Stages, FailExhausted(s) PROVE JobsFit'
    BY <1>31 DEF FailExhausted
<1>32. ASSUME NEW s \in Stages, ClaimOrphan(s) PROVE JobsFit'
    BY <1>32 DEF ClaimOrphan
<1>33. ASSUME NEW s \in Stages, SweepRefund(s) PROVE JobsFit'
    BY <1>33 DEF SweepRefund, GiveBack
<1>34. ASSUME NEW s \in Stages, SweepMark(s) PROVE JobsFit'
    BY <1>34 DEF SweepMark, StopRun, StepsBecome
<1>35. ASSUME NEW s \in Stages, ReadCancel(s) PROVE JobsFit'
    BY <1>35 DEF ReadCancel
<1>36. ASSUME NEW s \in Stages, WriteCancel(s) PROVE JobsFit'
    BY <1>36 DEF WriteCancel, SetSession
<1>37. ASSUME NEW s \in Stages, NEW i \in Actions, Act(s, i) PROVE JobsFit'
    BY <1>37 DEF Act
<1> QED
    BY <1>1, <1>2, <1>3, <1>4, <1>5, <1>6, <1>7, <1>8, <1>9, <1>10, <1>11, <1>12,
       <1>13, <1>14, <1>15, <1>16, <1>17, <1>18, <1>19, <1>20, <1>21, <1>22, <1>23,
       <1>24, <1>25, <1>26, <1>27, <1>28, <1>29, <1>30, <1>31, <1>32, <1>33, <1>34,
       <1>35, <1>36, <1>37
       DEF Next, DispatchStep, WorkerStep, SweepStep, CancelStep

\* Every step leaves a created session that was not handed to the queue alone.
LEMMA NotQueuedYet ==
    ASSUME Typed, RowsFit, Order, Next
    PROVE  NotYetQueued'
<1> USE DEF Typed, PlanTyped, RowsTyped, WorkTyped, RowsFit, Order, Finals, Open, runVars,
            rowVars, wk, NotYetQueued, Unqueued, Handing, JobsFit
<1>1. ASSUME NEW d \in Dispatchers, Observe(d) PROVE NotYetQueued'
    BY FirstStage, <1>1 DEF Observe, Plan, ToDisp
<1>2. ASSUME NEW d \in Dispatchers, Reserve(d) PROVE NotYetQueued'
    BY FirstStage, <1>2 DEF Reserve, TakeHold, ToDisp
<1>3. ASSUME NEW d \in Dispatchers, Claim(d) PROVE NotYetQueued'
    BY FirstStage, <1>3 DEF Claim, Plan, NewSession, ToDisp
<1>4. ASSUME NEW d \in Dispatchers, RefundClaim(d) PROVE NotYetQueued'
    BY FirstStage, <1>4 DEF RefundClaim, GiveBack, ToDisp
<1>5. ASSUME NEW d \in Dispatchers, Enqueue(d) PROVE NotYetQueued'
    BY FirstStage, <1>5 DEF Enqueue, ToDisp
<1>6. ASSUME NEW d \in Dispatchers, CrashDispatch(d) PROVE NotYetQueued'
    BY FirstStage, <1>6 DEF CrashDispatch, ToDisp
<1>7. ASSUME NEW s \in Stages, TakeJob(s) PROVE NotYetQueued'
    BY FirstStage, OneAtWork, NextIsNext, <1>7 DEF TakeJob, Goto
<1>8. ASSUME NEW s \in Stages, Start(s) PROVE NotYetQueued'
    BY FirstStage, <1>8 DEF Start, StartStage, Goto
<1>9. ASSUME NEW s \in Stages, AgentGone(s) PROVE NotYetQueued'
    BY FirstStage, <1>9 DEF AgentGone, SetSession, Ends
<1>10. ASSUME NEW s \in Stages, Conclude(s) PROVE NotYetQueued'
    BY FirstStage, <1>10 DEF Conclude, Ends
<1>11. ASSUME NEW s \in Stages, LeaveLost(s) PROVE NotYetQueued'
    BY FirstStage, <1>11 DEF LeaveLost, Goto
<1>12. ASSUME NEW s \in Stages, Break(s) PROVE NotYetQueued'
    BY FirstStage, <1>12 DEF Break, Goto
<1>13. ASSUME NEW s \in Stages, Charge(s) PROVE NotYetQueued'
    BY FirstStage, <1>13 DEF Charge, Goto
<1>14. ASSUME NEW s \in Stages, Refund(s) PROVE NotYetQueued'
    BY FirstStage, <1>14 DEF Refund, GiveBack, Ends
<1>15. ASSUME NEW s \in Stages, Abandon(s) PROVE NotYetQueued'
    BY FirstStage, <1>15 DEF Abandon, SetSession, Goto
<1>16. ASSUME NEW s \in Stages, Save(s) PROVE NotYetQueued'
    BY FirstStage, <1>16 DEF Save, SetSession, Goto
<1>17. ASSUME NEW s \in Stages, SaveFails(s) PROVE NotYetQueued'
    BY FirstStage, <1>17 DEF SaveFails, Goto
<1>18. ASSUME NEW s \in Stages, Mark(s) PROVE NotYetQueued'
    BY FirstStage, <1>18 DEF Mark, SucceedStage, StopRun, StepsBecome, Goto
<1>19. ASSUME NEW s \in Stages, Leave(s) PROVE NotYetQueued'
    BY FirstStage, <1>19 DEF Leave, Goto
<1>20. ASSUME NEW s \in Stages, Advance(s) PROVE NotYetQueued'
    BY FirstStage, <1>20 DEF Advance, Goto
<1>21. ASSUME NEW s \in Stages, ReserveNext(s) PROVE NotYetQueued'
    BY FirstStage, <1>21 DEF ReserveNext, TakeHold, Goto
<1>22. ASSUME NEW s \in Stages, Stop(s) PROVE NotYetQueued'
    BY FirstStage, <1>22 DEF Stop, StopRun, StepsBecome, Goto
<1>23. ASSUME NEW s \in Stages, CreateNext(s) PROVE NotYetQueued'
    <2>1. /\ NextStage(s) = s + 1 /\ s + 1 \in Stages /\ pc[s] = "create" /\ session[s] # "none"
        BY NextIsNext, <1>23 DEF CreateNext
    <2>2. \A u \in Stages : s < u => session[u] = "none"
        BY <2>1 DEF EarlierStagesDone
    <2>3. /\ \A u \in Stages : u # s => pc[u] = "idle" /\ pc'[u] = "idle"
          /\ jobs' = jobs /\ sweep' = sweep
        BY <2>1, OneAtWork, <1>23 DEF CreateNext, Goto
    <2>4. session[s + 1] = "none" /\ s < s + 1
        BY <2>1, <2>2, FirstStage
    <2>5. session' = session \/ session' = [session EXCEPT ![s + 1] = "queued"]
        BY <2>1, <2>4, <1>23 DEF CreateNext, NewSession
    <2> QED
        BY <2>1, <2>2, <2>3, <2>4, <2>5, FirstStage
<1>24. ASSUME NEW s \in Stages, EnqueueNext(s) PROVE NotYetQueued'
    BY FirstStage, OneAtWork, NextIsNext, <1>24 DEF EnqueueNext, Goto
<1>25. ASSUME NEW s \in Stages, GiveBackNext(s) PROVE NotYetQueued'
    BY FirstStage, <1>25 DEF GiveBackNext, GiveBack, Goto
<1>26. ASSUME NEW s \in Stages, ThrowNext(s) PROVE NotYetQueued'
    BY FirstStage, OneAtWork, NextIsNext, <1>26 DEF ThrowNext, StopRun, StepsBecome, Goto
<1>27. ASSUME NEW s \in Stages, Tell(s) PROVE NotYetQueued'
    BY FirstStage, <1>27 DEF Tell, Goto
<1>28. ASSUME NEW s \in Stages, Crash(s) PROVE NotYetQueued'
    BY FirstStage, <1>28 DEF Crash, Goto, Driving, Reporting
<1>29. ASSUME NEW s \in Stages, Lapse(s) PROVE NotYetQueued'
    BY FirstStage, <1>29 DEF Lapse
<1>30. ASSUME NEW s \in Stages, Resume(s) PROVE NotYetQueued'
    BY FirstStage, <1>30 DEF Resume
<1>31. ASSUME NEW s \in Stages, FailExhausted(s) PROVE NotYetQueued'
    BY FirstStage, <1>31 DEF FailExhausted
<1>32. ASSUME NEW s \in Stages, ClaimOrphan(s) PROVE NotYetQueued'
    BY FirstStage, <1>32 DEF ClaimOrphan
<1>33. ASSUME NEW s \in Stages, SweepRefund(s) PROVE NotYetQueued'
    BY FirstStage, <1>33 DEF SweepRefund, GiveBack
<1>34. ASSUME NEW s \in Stages, SweepMark(s) PROVE NotYetQueued'
    BY FirstStage, <1>34 DEF SweepMark, StopRun, StepsBecome
<1>35. ASSUME NEW s \in Stages, ReadCancel(s) PROVE NotYetQueued'
    BY FirstStage, <1>35 DEF ReadCancel
<1>36. ASSUME NEW s \in Stages, WriteCancel(s) PROVE NotYetQueued'
    BY FirstStage, <1>36 DEF WriteCancel, SetSession
<1>37. ASSUME NEW s \in Stages, NEW i \in Actions, Act(s, i) PROVE NotYetQueued'
    BY FirstStage, <1>37 DEF Act
<1> QED
    BY <1>1, <1>2, <1>3, <1>4, <1>5, <1>6, <1>7, <1>8, <1>9, <1>10, <1>11, <1>12,
       <1>13, <1>14, <1>15, <1>16, <1>17, <1>18, <1>19, <1>20, <1>21, <1>22, <1>23,
       <1>24, <1>25, <1>26, <1>27, <1>28, <1>29, <1>30, <1>31, <1>32, <1>33, <1>34,
       <1>35, <1>36, <1>37
       DEF Next, DispatchStep, WorkerStep, SweepStep, CancelStep

\* Every step leaves a claimed session that was not handed to the queue alone.
LEMMA FirstNotQueuedYet ==
    ASSUME Typed, RowsFit, Order, Next
    PROVE  FirstNotQueued'
<1> USE DEF Typed, PlanTyped, RowsTyped, WorkTyped, RowsFit, Order, Finals, Open, runVars,
            rowVars, wk, FirstNotQueued, Unqueued, JobsFit, Handing
<1>1. ASSUME NEW d \in Dispatchers, Observe(d) PROVE FirstNotQueued'
    BY HoldsApart, FirstStage, <1>1 DEF Observe, Plan, ToDisp
<1>2. ASSUME NEW d \in Dispatchers, Reserve(d) PROVE FirstNotQueued'
    BY HoldsApart, FirstStage, <1>2 DEF Reserve, TakeHold, ToDisp
<1>3. ASSUME NEW d \in Dispatchers, Claim(d) PROVE FirstNotQueued'
    BY HoldsApart, FirstStage, LastIsStage, <1>3 DEF Claim, Plan, NewSession, ToDisp
<1>4. ASSUME NEW d \in Dispatchers, RefundClaim(d) PROVE FirstNotQueued'
    BY HoldsApart, FirstStage, <1>4 DEF RefundClaim, GiveBack, ToDisp
<1>5. ASSUME NEW d \in Dispatchers, Enqueue(d) PROVE FirstNotQueued'
    BY HoldsApart, FirstStage, <1>5 DEF Enqueue, ToDisp
<1>6. ASSUME NEW d \in Dispatchers, CrashDispatch(d) PROVE FirstNotQueued'
    BY HoldsApart, FirstStage, <1>6 DEF CrashDispatch, ToDisp
<1>7. ASSUME NEW s \in Stages, TakeJob(s) PROVE FirstNotQueued'
    BY HoldsApart, FirstStage, <1>7 DEF TakeJob, Goto
<1>8. ASSUME NEW s \in Stages, Start(s) PROVE FirstNotQueued'
    BY HoldsApart, FirstStage, <1>8 DEF Start, StartStage, Goto
<1>9. ASSUME NEW s \in Stages, AgentGone(s) PROVE FirstNotQueued'
    BY HoldsApart, FirstStage, <1>9 DEF AgentGone, SetSession, Ends
<1>10. ASSUME NEW s \in Stages, Conclude(s) PROVE FirstNotQueued'
    BY HoldsApart, FirstStage, <1>10 DEF Conclude, Ends
<1>11. ASSUME NEW s \in Stages, LeaveLost(s) PROVE FirstNotQueued'
    BY HoldsApart, FirstStage, <1>11 DEF LeaveLost, Goto
<1>12. ASSUME NEW s \in Stages, Break(s) PROVE FirstNotQueued'
    BY HoldsApart, FirstStage, <1>12 DEF Break, Goto
<1>13. ASSUME NEW s \in Stages, Charge(s) PROVE FirstNotQueued'
    BY HoldsApart, FirstStage, <1>13 DEF Charge, Goto
<1>14. ASSUME NEW s \in Stages, Refund(s) PROVE FirstNotQueued'
    BY HoldsApart, FirstStage, <1>14 DEF Refund, GiveBack, Ends
<1>15. ASSUME NEW s \in Stages, Abandon(s) PROVE FirstNotQueued'
    BY HoldsApart, FirstStage, <1>15 DEF Abandon, SetSession, Goto
<1>16. ASSUME NEW s \in Stages, Save(s) PROVE FirstNotQueued'
    BY HoldsApart, FirstStage, <1>16 DEF Save, SetSession, Goto
<1>17. ASSUME NEW s \in Stages, SaveFails(s) PROVE FirstNotQueued'
    BY HoldsApart, FirstStage, <1>17 DEF SaveFails, Goto
<1>18. ASSUME NEW s \in Stages, Mark(s) PROVE FirstNotQueued'
    BY HoldsApart, FirstStage, <1>18 DEF Mark, SucceedStage, StopRun, StepsBecome, Goto
<1>19. ASSUME NEW s \in Stages, Leave(s) PROVE FirstNotQueued'
    BY HoldsApart, FirstStage, <1>19 DEF Leave, Goto
<1>20. ASSUME NEW s \in Stages, Advance(s) PROVE FirstNotQueued'
    BY HoldsApart, FirstStage, <1>20 DEF Advance, Goto
<1>21. ASSUME NEW s \in Stages, ReserveNext(s) PROVE FirstNotQueued'
    BY HoldsApart, FirstStage, <1>21 DEF ReserveNext, TakeHold, Goto
<1>22. ASSUME NEW s \in Stages, Stop(s) PROVE FirstNotQueued'
    BY HoldsApart, FirstStage, <1>22 DEF Stop, StopRun, StepsBecome, Goto
<1>23. ASSUME NEW s \in Stages, CreateNext(s) PROVE FirstNotQueued'
    BY HoldsApart, FirstStage, OneAtWork, NextIsNext, <1>23 DEF CreateNext, GiveBack,
       NewSession, Goto
<1>24. ASSUME NEW s \in Stages, EnqueueNext(s) PROVE FirstNotQueued'
    BY HoldsApart, FirstStage, OneAtWork, NextIsNext, <1>24 DEF EnqueueNext, Goto
<1>25. ASSUME NEW s \in Stages, GiveBackNext(s) PROVE FirstNotQueued'
    BY HoldsApart, FirstStage, <1>25 DEF GiveBackNext, GiveBack, Goto
<1>26. ASSUME NEW s \in Stages, ThrowNext(s) PROVE FirstNotQueued'
    BY HoldsApart, FirstStage, OneAtWork, NextIsNext, <1>26 DEF ThrowNext, StopRun,
       StepsBecome, Goto
<1>27. ASSUME NEW s \in Stages, Tell(s) PROVE FirstNotQueued'
    BY HoldsApart, FirstStage, <1>27 DEF Tell, Goto
<1>28. ASSUME NEW s \in Stages, Crash(s) PROVE FirstNotQueued'
    BY HoldsApart, FirstStage, <1>28 DEF Crash, Goto, Driving, Reporting
<1>29. ASSUME NEW s \in Stages, Lapse(s) PROVE FirstNotQueued'
    BY HoldsApart, FirstStage, <1>29 DEF Lapse
<1>30. ASSUME NEW s \in Stages, Resume(s) PROVE FirstNotQueued'
    BY HoldsApart, FirstStage, <1>30 DEF Resume
<1>31. ASSUME NEW s \in Stages, FailExhausted(s) PROVE FirstNotQueued'
    BY HoldsApart, FirstStage, <1>31 DEF FailExhausted
<1>32. ASSUME NEW s \in Stages, ClaimOrphan(s) PROVE FirstNotQueued'
    BY HoldsApart, FirstStage, <1>32 DEF ClaimOrphan
<1>33. ASSUME NEW s \in Stages, SweepRefund(s) PROVE FirstNotQueued'
    BY HoldsApart, FirstStage, <1>33 DEF SweepRefund, GiveBack
<1>34. ASSUME NEW s \in Stages, SweepMark(s) PROVE FirstNotQueued'
    BY HoldsApart, FirstStage, <1>34 DEF SweepMark, StopRun, StepsBecome
<1>35. ASSUME NEW s \in Stages, ReadCancel(s) PROVE FirstNotQueued'
    BY HoldsApart, FirstStage, <1>35 DEF ReadCancel
<1>36. ASSUME NEW s \in Stages, WriteCancel(s) PROVE FirstNotQueued'
    BY HoldsApart, FirstStage, <1>36 DEF WriteCancel, SetSession
<1>37. ASSUME NEW s \in Stages, NEW i \in Actions, Act(s, i) PROVE FirstNotQueued'
    BY HoldsApart, FirstStage, <1>37 DEF Act
<1> QED
    BY <1>1, <1>2, <1>3, <1>4, <1>5, <1>6, <1>7, <1>8, <1>9, <1>10, <1>11, <1>12,
       <1>13, <1>14, <1>15, <1>16, <1>17, <1>18, <1>19, <1>20, <1>21, <1>22, <1>23,
       <1>24, <1>25, <1>26, <1>27, <1>28, <1>29, <1>30, <1>31, <1>32, <1>33, <1>34,
       <1>35, <1>36, <1>37
       DEF Next, DispatchStep, WorkerStep, SweepStep, CancelStep

\* Every step gives a new session the hold of its creator.
LEMMA CarriesStillFit ==
    ASSUME Typed, RowsFit, Order, Next
    PROVE  CarriesFit'
<1> USE DEF Typed, PlanTyped, RowsTyped, WorkTyped, RowsFit, Order, Finals, Open, runVars,
            rowVars, wk, CarriesFit
<1>1. ASSUME NEW d \in Dispatchers, Observe(d) PROVE CarriesFit'
    BY <1>1 DEF Observe, Plan, ToDisp
<1>2. ASSUME NEW d \in Dispatchers, Reserve(d) PROVE CarriesFit'
    BY <1>2 DEF Reserve, TakeHold, ToDisp
<1>3. ASSUME NEW d \in Dispatchers, Claim(d) PROVE CarriesFit'
    BY <1>3 DEF Claim, Plan, NewSession, ToDisp
<1>4. ASSUME NEW d \in Dispatchers, RefundClaim(d) PROVE CarriesFit'
    BY <1>4 DEF RefundClaim, GiveBack, ToDisp
<1>5. ASSUME NEW d \in Dispatchers, Enqueue(d) PROVE CarriesFit'
    BY <1>5 DEF Enqueue, ToDisp
<1>6. ASSUME NEW d \in Dispatchers, CrashDispatch(d) PROVE CarriesFit'
    BY <1>6 DEF CrashDispatch, ToDisp
<1>7. ASSUME NEW s \in Stages, TakeJob(s) PROVE CarriesFit'
    BY <1>7 DEF TakeJob, Goto
<1>8. ASSUME NEW s \in Stages, Start(s) PROVE CarriesFit'
    BY <1>8 DEF Start, StartStage, Goto
<1>9. ASSUME NEW s \in Stages, AgentGone(s) PROVE CarriesFit'
    BY <1>9 DEF AgentGone, SetSession, Ends
<1>10. ASSUME NEW s \in Stages, Conclude(s) PROVE CarriesFit'
    BY <1>10 DEF Conclude, Ends
<1>11. ASSUME NEW s \in Stages, LeaveLost(s) PROVE CarriesFit'
    BY <1>11 DEF LeaveLost, Goto
<1>12. ASSUME NEW s \in Stages, Break(s) PROVE CarriesFit'
    BY <1>12 DEF Break, Goto
<1>13. ASSUME NEW s \in Stages, Charge(s) PROVE CarriesFit'
    BY <1>13 DEF Charge, Goto
<1>14. ASSUME NEW s \in Stages, Refund(s) PROVE CarriesFit'
    BY <1>14 DEF Refund, GiveBack, Ends
<1>15. ASSUME NEW s \in Stages, Abandon(s) PROVE CarriesFit'
    BY <1>15 DEF Abandon, SetSession, Goto
<1>16. ASSUME NEW s \in Stages, Save(s) PROVE CarriesFit'
    BY <1>16 DEF Save, SetSession, Goto
<1>17. ASSUME NEW s \in Stages, SaveFails(s) PROVE CarriesFit'
    BY <1>17 DEF SaveFails, Goto
<1>18. ASSUME NEW s \in Stages, Mark(s) PROVE CarriesFit'
    BY <1>18 DEF Mark, SucceedStage, StopRun, StepsBecome, Goto
<1>19. ASSUME NEW s \in Stages, Leave(s) PROVE CarriesFit'
    BY <1>19 DEF Leave, Goto
<1>20. ASSUME NEW s \in Stages, Advance(s) PROVE CarriesFit'
    BY <1>20 DEF Advance, Goto
<1>21. ASSUME NEW s \in Stages, ReserveNext(s) PROVE CarriesFit'
    BY <1>21 DEF ReserveNext, TakeHold, Goto
<1>22. ASSUME NEW s \in Stages, Stop(s) PROVE CarriesFit'
    BY <1>22 DEF Stop, StopRun, StepsBecome, Goto
<1>23. ASSUME NEW s \in Stages, CreateNext(s) PROVE CarriesFit'
    BY NextIsNext, FirstStage, <1>23 DEF CreateNext, GiveBack, NewSession, Goto
<1>24. ASSUME NEW s \in Stages, EnqueueNext(s) PROVE CarriesFit'
    BY <1>24 DEF EnqueueNext, Goto
<1>25. ASSUME NEW s \in Stages, GiveBackNext(s) PROVE CarriesFit'
    BY <1>25 DEF GiveBackNext, GiveBack, Goto
<1>26. ASSUME NEW s \in Stages, ThrowNext(s) PROVE CarriesFit'
    BY <1>26 DEF ThrowNext, StopRun, StepsBecome, Goto
<1>27. ASSUME NEW s \in Stages, Tell(s) PROVE CarriesFit'
    BY <1>27 DEF Tell, Goto
<1>28. ASSUME NEW s \in Stages, Crash(s) PROVE CarriesFit'
    BY <1>28 DEF Crash, Goto, Driving, Reporting
<1>29. ASSUME NEW s \in Stages, Lapse(s) PROVE CarriesFit'
    BY <1>29 DEF Lapse
<1>30. ASSUME NEW s \in Stages, Resume(s) PROVE CarriesFit'
    BY <1>30 DEF Resume
<1>31. ASSUME NEW s \in Stages, FailExhausted(s) PROVE CarriesFit'
    BY <1>31 DEF FailExhausted
<1>32. ASSUME NEW s \in Stages, ClaimOrphan(s) PROVE CarriesFit'
    BY <1>32 DEF ClaimOrphan
<1>33. ASSUME NEW s \in Stages, SweepRefund(s) PROVE CarriesFit'
    BY <1>33 DEF SweepRefund, GiveBack
<1>34. ASSUME NEW s \in Stages, SweepMark(s) PROVE CarriesFit'
    BY <1>34 DEF SweepMark, StopRun, StepsBecome
<1>35. ASSUME NEW s \in Stages, ReadCancel(s) PROVE CarriesFit'
    BY <1>35 DEF ReadCancel
<1>36. ASSUME NEW s \in Stages, WriteCancel(s) PROVE CarriesFit'
    BY <1>36 DEF WriteCancel, SetSession
<1>37. ASSUME NEW s \in Stages, NEW i \in Actions, Act(s, i) PROVE CarriesFit'
    BY <1>37 DEF Act
<1> QED
    BY <1>1, <1>2, <1>3, <1>4, <1>5, <1>6, <1>7, <1>8, <1>9, <1>10, <1>11, <1>12,
       <1>13, <1>14, <1>15, <1>16, <1>17, <1>18, <1>19, <1>20, <1>21, <1>22, <1>23,
       <1>24, <1>25, <1>26, <1>27, <1>28, <1>29, <1>30, <1>31, <1>32, <1>33, <1>34,
       <1>35, <1>36, <1>37
       DEF Next, DispatchStep, WorkerStep, SweepStep, CancelStep

\* Every step keeps a reported session ended, or without a lease.
LEMMA ReportersStillFit ==
    ASSUME Typed, RowsFit, Order, Next, UNCHANGED fixed
    PROVE  ReportersFit'
<1> USE DEF Typed, PlanTyped, RowsTyped, WorkTyped, RowsFit, Order, Finals, Open, runVars,
            rowVars, wk, ReportersFit, Reporting, Leased, Driving, SucceededStays,
            NextIsPlanned, fixed
<1>1. ASSUME NEW d \in Dispatchers, Observe(d) PROVE ReportersFit'
    BY <1>1 DEF Observe, Plan, ToDisp
<1>2. ASSUME NEW d \in Dispatchers, Reserve(d) PROVE ReportersFit'
    BY <1>2 DEF Reserve, TakeHold, ToDisp
<1>3. ASSUME NEW d \in Dispatchers, Claim(d) PROVE ReportersFit'
    BY <1>3 DEF Claim, Plan, NewSession, ToDisp
<1>4. ASSUME NEW d \in Dispatchers, RefundClaim(d) PROVE ReportersFit'
    BY <1>4 DEF RefundClaim, GiveBack, ToDisp
<1>5. ASSUME NEW d \in Dispatchers, Enqueue(d) PROVE ReportersFit'
    BY <1>5 DEF Enqueue, ToDisp
<1>6. ASSUME NEW d \in Dispatchers, CrashDispatch(d) PROVE ReportersFit'
    BY <1>6 DEF CrashDispatch, ToDisp
<1>7. ASSUME NEW s \in Stages, TakeJob(s) PROVE ReportersFit'
    BY <1>7 DEF TakeJob, Goto
<1>8. ASSUME NEW s \in Stages, Start(s) PROVE ReportersFit'
    BY <1>8 DEF Start, StartStage, Goto
<1>9. ASSUME NEW s \in Stages, AgentGone(s) PROVE ReportersFit'
    BY <1>9 DEF AgentGone, SetSession, Ends
<1>10. ASSUME NEW s \in Stages, Conclude(s) PROVE ReportersFit'
    BY <1>10 DEF Conclude, Ends
<1>11. ASSUME NEW s \in Stages, LeaveLost(s) PROVE ReportersFit'
    BY <1>11 DEF LeaveLost, Goto
<1>12. ASSUME NEW s \in Stages, Break(s) PROVE ReportersFit'
    BY <1>12 DEF Break, Goto
<1>13. ASSUME NEW s \in Stages, Charge(s) PROVE ReportersFit'
    BY <1>13 DEF Charge, Goto
<1>14. ASSUME NEW s \in Stages, Refund(s) PROVE ReportersFit'
    BY <1>14 DEF Refund, GiveBack, Ends
<1>15. ASSUME NEW s \in Stages, Abandon(s) PROVE ReportersFit'
    BY <1>15 DEF Abandon, SetSession, Goto
<1>16. ASSUME NEW s \in Stages, Save(s) PROVE ReportersFit'
    BY <1>16 DEF Save, SetSession, Goto
<1>17. ASSUME NEW s \in Stages, SaveFails(s) PROVE ReportersFit'
    BY <1>17 DEF SaveFails, Goto
<1>18. ASSUME NEW s \in Stages, Mark(s) PROVE ReportersFit'
    BY <1>18 DEF Mark, SucceedStage, StopRun, StepsBecome, Goto
<1>19. ASSUME NEW s \in Stages, Leave(s) PROVE ReportersFit'
    BY <1>19 DEF Leave, Goto
<1>20. ASSUME NEW s \in Stages, Advance(s) PROVE ReportersFit'
    BY <1>20 DEF Advance, Goto
<1>21. ASSUME NEW s \in Stages, ReserveNext(s) PROVE ReportersFit'
    BY <1>21 DEF ReserveNext, TakeHold, Goto
<1>22. ASSUME NEW s \in Stages, Stop(s) PROVE ReportersFit'
    BY <1>22 DEF Stop, StopRun, StepsBecome, Goto
<1>23. ASSUME NEW s \in Stages, CreateNext(s) PROVE ReportersFit'
    BY <1>23 DEF CreateNext, GiveBack, NewSession, Goto
<1>24. ASSUME NEW s \in Stages, EnqueueNext(s) PROVE ReportersFit'
    BY <1>24 DEF EnqueueNext, Goto
<1>25. ASSUME NEW s \in Stages, GiveBackNext(s) PROVE ReportersFit'
    BY <1>25 DEF GiveBackNext, GiveBack, Goto
<1>26. ASSUME NEW s \in Stages, ThrowNext(s) PROVE ReportersFit'
    BY <1>26 DEF ThrowNext, StopRun, StepsBecome, Goto
<1>27. ASSUME NEW s \in Stages, Tell(s) PROVE ReportersFit'
    BY <1>27 DEF Tell, Goto
<1>28. ASSUME NEW s \in Stages, Crash(s) PROVE ReportersFit'
    BY <1>28 DEF Crash, Goto, Driving, Reporting
<1>29. ASSUME NEW s \in Stages, Lapse(s) PROVE ReportersFit'
    BY <1>29 DEF Lapse
<1>30. ASSUME NEW s \in Stages, Resume(s) PROVE ReportersFit'
    BY <1>30 DEF Resume
<1>31. ASSUME NEW s \in Stages, FailExhausted(s) PROVE ReportersFit'
    BY <1>31 DEF FailExhausted
<1>32. ASSUME NEW s \in Stages, ClaimOrphan(s) PROVE ReportersFit'
    BY <1>32 DEF ClaimOrphan
<1>33. ASSUME NEW s \in Stages, SweepRefund(s) PROVE ReportersFit'
    BY <1>33 DEF SweepRefund, GiveBack
<1>34. ASSUME NEW s \in Stages, SweepMark(s) PROVE ReportersFit'
    BY <1>34 DEF SweepMark, StopRun, StepsBecome
<1>35. ASSUME NEW s \in Stages, ReadCancel(s) PROVE ReportersFit'
    BY <1>35 DEF ReadCancel
<1>36. ASSUME NEW s \in Stages, WriteCancel(s) PROVE ReportersFit'
    BY <1>36 DEF WriteCancel, SetSession
<1>37. ASSUME NEW s \in Stages, NEW i \in Actions, Act(s, i) PROVE ReportersFit'
    BY <1>37 DEF Act
<1> QED
    BY <1>1, <1>2, <1>3, <1>4, <1>5, <1>6, <1>7, <1>8, <1>9, <1>10, <1>11, <1>12,
       <1>13, <1>14, <1>15, <1>16, <1>17, <1>18, <1>19, <1>20, <1>21, <1>22, <1>23,
       <1>24, <1>25, <1>26, <1>27, <1>28, <1>29, <1>30, <1>31, <1>32, <1>33, <1>34,
       <1>35, <1>36, <1>37
       DEF Next, DispatchStep, WorkerStep, SweepStep, CancelStep

\* What a run's rows, and the order of its stages, always satisfy.
OrderInv == Typed /\ RowsFit /\ Order

\* The invariant holds initially ...
LEMMA OrderAtFirst == Init => OrderInv
<1> SUFFICES ASSUME Init PROVE OrderInv
    OBVIOUS
<1> USE DEF Init
<1>1. PlanTyped /\ RowsTyped /\ WorkTyped /\ HoldsTyped /\ ActorTyped
    BY DEF PlanTyped, RowsTyped, WorkTyped, HoldsTyped, ActorTyped, StepStatuses, Pcs
<1>2. RowsFit
    BY AutomationRunAssumption DEF RowsFit, Open, Reporting, Leased, Driving
<1>3. Order
    BY DEF Order, SucceededStays, EarlierStagesDone, PlanHasNoGap, WorkIsRunning,
       NextIsPlanned, JobsFit, NotYetQueued, FirstNotQueued, CarriesFit, ReportersFit, Handing,
       Reporting
<1> QED
    BY <1>1, <1>2, <1>3 DEF Typed, OrderInv

\* ... and always.
LEMMA OrderHolds == Spec => []OrderInv
<1>1. Init => OrderInv
    BY OrderAtFirst
<1>2. OrderInv /\ [Next]_vars => OrderInv'
    <2> SUFFICES ASSUME OrderInv, [Next]_vars PROVE OrderInv'
        OBVIOUS
    <2>1. Typed' /\ RowsFit'
        BY TypedStep DEF OrderInv
    <2>2. CASE Next
        <3>1. UNCHANGED fixed
            BY <2>2, FixedStays
        <3>2. Order'
            BY <2>2, <3>1, SucceededStaysSo, WorkStaysRunning, EarlierStay, NoGapOpens,
               NextStaysPlanned, JobsStillFit, NotQueuedYet, FirstNotQueuedYet,
               CarriesStillFit, ReportersStillFit
               DEF OrderInv, Order
        <3> QED
            BY <2>1, <3>2 DEF OrderInv
    <2>3. CASE UNCHANGED vars
        <3>1. UNCHANGED fixed
            BY <2>3 DEF vars, fixed
        <3>2. UNCHANGED <<control, step, session, lease, sweep, pc, jobs, disp, carries, faults>>
            BY <2>3 DEF vars
        <3>3. SucceededStays'
            BY <3>1, <3>2, StagesStay DEF OrderInv, Order, SucceededStays
        <3>4. /\ EarlierStagesDone' /\ PlanHasNoGap' /\ WorkIsRunning' /\ NextIsPlanned'
              /\ JobsFit' /\ NotYetQueued' /\ FirstNotQueued' /\ CarriesFit' /\ ReportersFit'
            BY <3>2
               DEF OrderInv, Order, EarlierStagesDone, PlanHasNoGap, WorkIsRunning, NextIsPlanned,
                   JobsFit, NotYetQueued, FirstNotQueued, Unqueued, CarriesFit, ReportersFit
        <3> QED
            BY <2>1, <3>3, <3>4 DEF OrderInv, Order
    <2> QED
        BY <2>2, <2>3
<1> QED
    BY <1>1, <1>2, PTL DEF Spec

\* A stage has a session only when every earlier stage, with all its actions,
\* has succeeded (automation-run-coordinator.ts), for every plan and any number
\* of dispatchers, crashes, redeliveries, sweeps, cancellations, failed updates
\* and lost replies.
THEOREM StagesAlwaysInOrder == Spec => []StagesInOrder
<1>1. OrderInv => StagesInOrder
    <2> SUFFICES ASSUME OrderInv, NEW u \in Stages, session[u] # "none"
                 PROVE  /\ \A s \in 0 .. u - 1 : control[s] = "succeeded"
                        /\ \A i \in Actions : StageOf(i) < u => step[i] = "succeeded"
                        /\ \A s \in 0 .. u - 1 :
                               pc[s] \notin {"start", "work", "charge", "save", "mark"}
        BY DEF StagesInOrder
    <2>1. Order
        BY DEF OrderInv, Typed
    <2>2. \A s \in 0 .. u - 1 : s \in Stages /\ s < u
        BY AutomationRunAssumption DEF Stages
    <2>3. \A s \in 0 .. u - 1 : control[s] = "succeeded" /\ pc[s] \in {"idle"} \cup Handing
        BY <2>1, <2>2 DEF Order, EarlierStagesDone
    <2>4. ASSUME NEW i \in Actions, StageOf(i) < u PROVE step[i] = "succeeded"
        <3>1. StageOf(i) \in 0 .. u - 1
            BY <2>4, StageIsNat, FirstStage DEF OrderInv, Typed
        <3> QED
            BY <2>1, <2>2, <2>3, <3>1 DEF Order, SucceededStays
    <2> QED
        BY <2>3, <2>4 DEF Handing
<1> QED
    BY <1>1, OrderHolds, PTL

-----------------------------------------------------------------------------
(* Holds are settled once.                                                 *)

\* Every step keeps holds with who took them.
LEMMA TakersStillHold ==
    ASSUME Typed, RowsFit, Order, LeftAlone, Settling, "lostReply" \notin faults, ~DiesUnsaved,
           Next
    PROVE  TakersHold'
<1> USE DEF Typed, RowsTyped, WorkTyped, HoldsTyped, RowsFit, Settling, Order, CarriesFit,
            ReportersFit, Finals, Open, rowVars, wk, hold, TakersHold, OneCarrier, TakenOnce,
            OneSettler, Unpaid, Fresh, Untaken, Carried, Unsettled, Unadvanced, Reporting
<1>1. ASSUME NEW d \in Dispatchers, Observe(d) PROVE TakersHold'
    BY HoldsApart, <1>1 DEF Observe, Plan, ToDisp
<1>2. ASSUME NEW d \in Dispatchers, Reserve(d) PROVE TakersHold'
    BY HoldsApart, <1>2 DEF Reserve, TakeHold, ToDisp
<1>3. ASSUME NEW d \in Dispatchers, Claim(d) PROVE TakersHold'
    BY HoldsApart, <1>3 DEF Claim, Plan, NewSession, ToDisp
<1>4. ASSUME NEW d \in Dispatchers, RefundClaim(d) PROVE TakersHold'
    BY HoldsApart, <1>4 DEF RefundClaim, GiveBack, ToDisp
<1>5. ASSUME NEW d \in Dispatchers, Enqueue(d) PROVE TakersHold'
    BY HoldsApart, <1>5 DEF Enqueue, ToDisp
<1>6. ASSUME NEW d \in Dispatchers, CrashDispatch(d) PROVE TakersHold'
    BY HoldsApart, <1>6 DEF CrashDispatch, ToDisp
<1>7. ASSUME NEW s \in Stages, TakeJob(s) PROVE TakersHold'
    BY HoldsApart, <1>7 DEF TakeJob, Goto
<1>8. ASSUME NEW s \in Stages, Start(s) PROVE TakersHold'
    BY HoldsApart, <1>8 DEF Start, StartStage, Goto
<1>9. ASSUME NEW s \in Stages, AgentGone(s) PROVE TakersHold'
    BY HoldsApart, <1>9 DEF AgentGone, SetSession, Ends
<1>10. ASSUME NEW s \in Stages, Conclude(s) PROVE TakersHold'
    BY HoldsApart, <1>10 DEF Conclude, Ends
<1>11. ASSUME NEW s \in Stages, LeaveLost(s) PROVE TakersHold'
    BY HoldsApart, <1>11 DEF LeaveLost, Goto
<1>12. ASSUME NEW s \in Stages, Break(s) PROVE TakersHold'
    BY HoldsApart, <1>12 DEF Break, Goto
<1>13. ASSUME NEW s \in Stages, Charge(s) PROVE TakersHold'
    BY HoldsApart, <1>13 DEF Charge, Goto
<1>14. ASSUME NEW s \in Stages, Refund(s) PROVE TakersHold'
    BY HoldsApart, <1>14 DEF Refund, GiveBack, Ends
<1>15. ASSUME NEW s \in Stages, Abandon(s) PROVE TakersHold'
    BY HoldsApart, <1>15 DEF Abandon, SetSession, Goto
<1>16. ASSUME NEW s \in Stages, Save(s) PROVE TakersHold'
    BY HoldsApart, <1>16 DEF Save, SetSession, Goto
<1>17. ASSUME NEW s \in Stages, SaveFails(s) PROVE TakersHold'
    BY HoldsApart, <1>17 DEF SaveFails, Goto
<1>18. ASSUME NEW s \in Stages, Mark(s) PROVE TakersHold'
    BY HoldsApart, <1>18 DEF Mark, SucceedStage, StopRun, StepsBecome, Goto
<1>19. ASSUME NEW s \in Stages, Leave(s) PROVE TakersHold'
    BY HoldsApart, <1>19 DEF Leave, Goto
<1>20. ASSUME NEW s \in Stages, Advance(s) PROVE TakersHold'
    BY HoldsApart, <1>20 DEF Advance, Goto
<1>21. ASSUME NEW s \in Stages, ReserveNext(s) PROVE TakersHold'
    <2>1. Untaken(s) /\ ~Carried(s)
        BY <1>21, HoldsApart DEF ReserveNext
    <2>2. carries' = carries /\ disp' = disp
        BY <1>21 DEF ReserveNext
    <2>3. CASE TakeHold(s) /\ Goto(s, "create")
        <3>1. /\ Fresh(s)'
              /\ \A h \in Holds \ {s} : (Fresh(h) => Fresh(h)') /\ (Untaken(h) => Untaken(h)')
            BY <2>1, <2>3, HoldsApart DEF TakeHold
        <3>2. \A t \in Stages : pc'[t] = pc[t] \/ t = s
            BY <2>3 DEF Goto
        <3> QED
            BY <2>1, <2>2, <3>1, <3>2, HoldsApart
    <2>4. CASE Goto(s, "stop") /\ UNCHANGED hold
        BY <2>2, <2>4 DEF Goto
    <2> QED
        BY <1>21, <2>3, <2>4 DEF ReserveNext
<1>22. ASSUME NEW s \in Stages, Stop(s) PROVE TakersHold'
    BY HoldsApart, <1>22 DEF Stop, StopRun, StepsBecome, Goto
<1>23. ASSUME NEW s \in Stages, CreateNext(s) PROVE TakersHold'
    BY HoldsApart, <1>23 DEF CreateNext, GiveBack, NewSession, Goto
<1>24. ASSUME NEW s \in Stages, EnqueueNext(s) PROVE TakersHold'
    BY HoldsApart, <1>24 DEF EnqueueNext, Goto
<1>25. ASSUME NEW s \in Stages, GiveBackNext(s) PROVE TakersHold'
    BY HoldsApart, <1>25 DEF GiveBackNext, GiveBack, Goto
<1>26. ASSUME NEW s \in Stages, ThrowNext(s) PROVE TakersHold'
    BY HoldsApart, <1>26 DEF ThrowNext, StopRun, StepsBecome, Goto
<1>27. ASSUME NEW s \in Stages, Tell(s) PROVE TakersHold'
    BY HoldsApart, <1>27 DEF Tell, Goto
<1>28. ASSUME NEW s \in Stages, Crash(s) PROVE TakersHold'
    BY HoldsApart, <1>28 DEF Crash, Goto, Driving, Reporting
<1>29. ASSUME NEW s \in Stages, Lapse(s) PROVE TakersHold'
    BY HoldsApart, <1>29 DEF Lapse
<1>30. ASSUME NEW s \in Stages, Resume(s) PROVE TakersHold'
    BY HoldsApart, <1>30 DEF Resume
<1>31. ASSUME NEW s \in Stages, FailExhausted(s) PROVE TakersHold'
    BY HoldsApart, <1>31 DEF FailExhausted
<1>32. ASSUME NEW s \in Stages, ClaimOrphan(s) PROVE TakersHold'
    BY HoldsApart, <1>32 DEF ClaimOrphan
<1>33. ASSUME NEW s \in Stages, SweepRefund(s) PROVE TakersHold'
    BY HoldsApart, <1>33 DEF SweepRefund, GiveBack
<1>34. ASSUME NEW s \in Stages, SweepMark(s) PROVE TakersHold'
    BY HoldsApart, <1>34 DEF SweepMark, StopRun, StepsBecome
<1>35. ASSUME NEW s \in Stages, ReadCancel(s) PROVE TakersHold'
    BY HoldsApart, <1>35 DEF ReadCancel
<1>36. ASSUME NEW s \in Stages, WriteCancel(s) PROVE TakersHold'
    BY HoldsApart, <1>36 DEF WriteCancel, SetSession
<1>37. ASSUME NEW s \in Stages, NEW i \in Actions, Act(s, i) PROVE TakersHold'
    BY HoldsApart, <1>37 DEF Act
<1> QED
    BY <1>1, <1>2, <1>3, <1>4, <1>5, <1>6, <1>7, <1>8, <1>9, <1>10, <1>11, <1>12,
       <1>13, <1>14, <1>15, <1>16, <1>17, <1>18, <1>19, <1>20, <1>21, <1>22, <1>23,
       <1>24, <1>25, <1>26, <1>27, <1>28, <1>29, <1>30, <1>31, <1>32, <1>33, <1>34,
       <1>35, <1>36, <1>37
       DEF Next, DispatchStep, WorkerStep, SweepStep, CancelStep

\* Every step keeps the next hold untaken before a stage has ended.
LEMMA StillTakenOnce ==
    ASSUME Typed, RowsFit, Order, LeftAlone, Settling, "lostReply" \notin faults, ~DiesUnsaved,
           Next
    PROVE  TakenOnce'
<1> USE DEF Typed, RowsTyped, WorkTyped, HoldsTyped, RowsFit, Settling, Order, CarriesFit,
            ReportersFit, Finals, Open, rowVars, wk, hold, TakenOnce, TakersHold, OneCarrier,
            OneSettler, Untaken, Carried, Unadvanced, Reporting
<1>1. ASSUME NEW d \in Dispatchers, Observe(d) PROVE TakenOnce'
    BY HoldsApart, <1>1 DEF Observe, Plan, ToDisp
<1>2. ASSUME NEW d \in Dispatchers, Reserve(d) PROVE TakenOnce'
    BY HoldsApart, <1>2 DEF Reserve, TakeHold, ToDisp
<1>3. ASSUME NEW d \in Dispatchers, Claim(d) PROVE TakenOnce'
    BY HoldsApart, <1>3 DEF Claim, Plan, NewSession, ToDisp
<1>4. ASSUME NEW d \in Dispatchers, RefundClaim(d) PROVE TakenOnce'
    BY HoldsApart, <1>4 DEF RefundClaim, GiveBack, ToDisp
<1>5. ASSUME NEW d \in Dispatchers, Enqueue(d) PROVE TakenOnce'
    BY HoldsApart, <1>5 DEF Enqueue, ToDisp
<1>6. ASSUME NEW d \in Dispatchers, CrashDispatch(d) PROVE TakenOnce'
    BY HoldsApart, <1>6 DEF CrashDispatch, ToDisp
<1>7. ASSUME NEW s \in Stages, TakeJob(s) PROVE TakenOnce'
    BY HoldsApart, <1>7 DEF TakeJob, Goto
<1>8. ASSUME NEW s \in Stages, Start(s) PROVE TakenOnce'
    BY HoldsApart, <1>8 DEF Start, StartStage, Goto
<1>9. ASSUME NEW s \in Stages, AgentGone(s) PROVE TakenOnce'
    BY HoldsApart, <1>9 DEF AgentGone, SetSession, Ends
<1>10. ASSUME NEW s \in Stages, Conclude(s) PROVE TakenOnce'
    BY HoldsApart, <1>10 DEF Conclude, Ends
<1>11. ASSUME NEW s \in Stages, LeaveLost(s) PROVE TakenOnce'
    BY HoldsApart, <1>11 DEF LeaveLost, Goto
<1>12. ASSUME NEW s \in Stages, Break(s) PROVE TakenOnce'
    BY HoldsApart, <1>12 DEF Break, Goto
<1>13. ASSUME NEW s \in Stages, Charge(s) PROVE TakenOnce'
    BY HoldsApart, <1>13 DEF Charge, Goto
<1>14. ASSUME NEW s \in Stages, Refund(s) PROVE TakenOnce'
    BY HoldsApart, <1>14 DEF Refund, GiveBack, Ends
<1>15. ASSUME NEW s \in Stages, Abandon(s) PROVE TakenOnce'
    BY HoldsApart, <1>15 DEF Abandon, SetSession, Goto
<1>16. ASSUME NEW s \in Stages, Save(s) PROVE TakenOnce'
    BY HoldsApart, <1>16 DEF Save, SetSession, Goto
<1>17. ASSUME NEW s \in Stages, SaveFails(s) PROVE TakenOnce'
    BY HoldsApart, <1>17 DEF SaveFails, Goto
<1>18. ASSUME NEW s \in Stages, Mark(s) PROVE TakenOnce'
    BY HoldsApart, <1>18 DEF Mark, SucceedStage, StopRun, StepsBecome, Goto
<1>19. ASSUME NEW s \in Stages, Leave(s) PROVE TakenOnce'
    BY HoldsApart, <1>19 DEF Leave, Goto
<1>20. ASSUME NEW s \in Stages, Advance(s) PROVE TakenOnce'
    BY HoldsApart, <1>20 DEF Advance, Goto
<1>21. ASSUME NEW s \in Stages, ReserveNext(s) PROVE TakenOnce'
    BY HoldsApart, <1>21 DEF ReserveNext, TakeHold, Goto
<1>22. ASSUME NEW s \in Stages, Stop(s) PROVE TakenOnce'
    BY HoldsApart, <1>22 DEF Stop, StopRun, StepsBecome, Goto
<1>23. ASSUME NEW s \in Stages, CreateNext(s) PROVE TakenOnce'
    BY HoldsApart, <1>23 DEF CreateNext, GiveBack, NewSession, Goto
<1>24. ASSUME NEW s \in Stages, EnqueueNext(s) PROVE TakenOnce'
    BY HoldsApart, <1>24 DEF EnqueueNext, Goto
<1>25. ASSUME NEW s \in Stages, GiveBackNext(s) PROVE TakenOnce'
    BY HoldsApart, <1>25 DEF GiveBackNext, GiveBack, Goto
<1>26. ASSUME NEW s \in Stages, ThrowNext(s) PROVE TakenOnce'
    BY HoldsApart, <1>26 DEF ThrowNext, StopRun, StepsBecome, Goto
<1>27. ASSUME NEW s \in Stages, Tell(s) PROVE TakenOnce'
    BY HoldsApart, <1>27 DEF Tell, Goto
<1>28. ASSUME NEW s \in Stages, Crash(s) PROVE TakenOnce'
    BY HoldsApart, <1>28 DEF Crash, Goto, Driving, Reporting
<1>29. ASSUME NEW s \in Stages, Lapse(s) PROVE TakenOnce'
    BY HoldsApart, <1>29 DEF Lapse
<1>30. ASSUME NEW s \in Stages, Resume(s) PROVE TakenOnce'
    BY HoldsApart, <1>30 DEF Resume
<1>31. ASSUME NEW s \in Stages, FailExhausted(s) PROVE TakenOnce'
    BY HoldsApart, <1>31 DEF FailExhausted
<1>32. ASSUME NEW s \in Stages, ClaimOrphan(s) PROVE TakenOnce'
    BY HoldsApart, <1>32 DEF ClaimOrphan
<1>33. ASSUME NEW s \in Stages, SweepRefund(s) PROVE TakenOnce'
    BY HoldsApart, <1>33 DEF SweepRefund, GiveBack
<1>34. ASSUME NEW s \in Stages, SweepMark(s) PROVE TakenOnce'
    BY HoldsApart, <1>34 DEF SweepMark, StopRun, StepsBecome
<1>35. ASSUME NEW s \in Stages, ReadCancel(s) PROVE TakenOnce'
    BY HoldsApart, <1>35 DEF ReadCancel
<1>36. ASSUME NEW s \in Stages, WriteCancel(s) PROVE TakenOnce'
    BY HoldsApart, <1>36 DEF WriteCancel, SetSession
<1>37. ASSUME NEW s \in Stages, NEW i \in Actions, Act(s, i) PROVE TakenOnce'
    BY HoldsApart, <1>37 DEF Act
<1> QED
    BY <1>1, <1>2, <1>3, <1>4, <1>5, <1>6, <1>7, <1>8, <1>9, <1>10, <1>11, <1>12,
       <1>13, <1>14, <1>15, <1>16, <1>17, <1>18, <1>19, <1>20, <1>21, <1>22, <1>23,
       <1>24, <1>25, <1>26, <1>27, <1>28, <1>29, <1>30, <1>31, <1>32, <1>33, <1>34,
       <1>35, <1>36, <1>37
       DEF Next, DispatchStep, WorkerStep, SweepStep, CancelStep

\* Every step keeps holds in one row.
LEMMA StillOneCarrier ==
    ASSUME Typed, RowsFit, Order, LeftAlone, Settling, "lostReply" \notin faults, ~DiesUnsaved,
           Next
    PROVE  OneCarrier'
<1> USE DEF Typed, RowsTyped, WorkTyped, HoldsTyped, RowsFit, Settling, Order, CarriesFit,
            ReportersFit, Finals, Open, rowVars, wk, hold, OneCarrier, TakersHold, Fresh,
            Carried
<1>1. ASSUME NEW d \in Dispatchers, Observe(d) PROVE OneCarrier'
    BY HoldsApart, <1>1 DEF Observe, Plan, ToDisp
<1>2. ASSUME NEW d \in Dispatchers, Reserve(d) PROVE OneCarrier'
    BY HoldsApart, <1>2 DEF Reserve, TakeHold, ToDisp
<1>3. ASSUME NEW d \in Dispatchers, Claim(d) PROVE OneCarrier'
    BY HoldsApart, <1>3 DEF Claim, Plan, NewSession, ToDisp
<1>4. ASSUME NEW d \in Dispatchers, RefundClaim(d) PROVE OneCarrier'
    BY HoldsApart, <1>4 DEF RefundClaim, GiveBack, ToDisp
<1>5. ASSUME NEW d \in Dispatchers, Enqueue(d) PROVE OneCarrier'
    BY HoldsApart, <1>5 DEF Enqueue, ToDisp
<1>6. ASSUME NEW d \in Dispatchers, CrashDispatch(d) PROVE OneCarrier'
    BY HoldsApart, <1>6 DEF CrashDispatch, ToDisp
<1>7. ASSUME NEW s \in Stages, TakeJob(s) PROVE OneCarrier'
    BY HoldsApart, <1>7 DEF TakeJob, Goto
<1>8. ASSUME NEW s \in Stages, Start(s) PROVE OneCarrier'
    BY HoldsApart, <1>8 DEF Start, StartStage, Goto
<1>9. ASSUME NEW s \in Stages, AgentGone(s) PROVE OneCarrier'
    BY HoldsApart, <1>9 DEF AgentGone, SetSession, Ends
<1>10. ASSUME NEW s \in Stages, Conclude(s) PROVE OneCarrier'
    BY HoldsApart, <1>10 DEF Conclude, Ends
<1>11. ASSUME NEW s \in Stages, LeaveLost(s) PROVE OneCarrier'
    BY HoldsApart, <1>11 DEF LeaveLost, Goto
<1>12. ASSUME NEW s \in Stages, Break(s) PROVE OneCarrier'
    BY HoldsApart, <1>12 DEF Break, Goto
<1>13. ASSUME NEW s \in Stages, Charge(s) PROVE OneCarrier'
    BY HoldsApart, <1>13 DEF Charge, Goto
<1>14. ASSUME NEW s \in Stages, Refund(s) PROVE OneCarrier'
    BY HoldsApart, <1>14 DEF Refund, GiveBack, Ends
<1>15. ASSUME NEW s \in Stages, Abandon(s) PROVE OneCarrier'
    BY HoldsApart, <1>15 DEF Abandon, SetSession, Goto
<1>16. ASSUME NEW s \in Stages, Save(s) PROVE OneCarrier'
    BY HoldsApart, <1>16 DEF Save, SetSession, Goto
<1>17. ASSUME NEW s \in Stages, SaveFails(s) PROVE OneCarrier'
    BY HoldsApart, <1>17 DEF SaveFails, Goto
<1>18. ASSUME NEW s \in Stages, Mark(s) PROVE OneCarrier'
    BY HoldsApart, <1>18 DEF Mark, SucceedStage, StopRun, StepsBecome, Goto
<1>19. ASSUME NEW s \in Stages, Leave(s) PROVE OneCarrier'
    BY HoldsApart, <1>19 DEF Leave, Goto
<1>20. ASSUME NEW s \in Stages, Advance(s) PROVE OneCarrier'
    BY HoldsApart, <1>20 DEF Advance, Goto
<1>21. ASSUME NEW s \in Stages, ReserveNext(s) PROVE OneCarrier'
    BY HoldsApart, <1>21 DEF ReserveNext, TakeHold, Goto
<1>22. ASSUME NEW s \in Stages, Stop(s) PROVE OneCarrier'
    BY HoldsApart, <1>22 DEF Stop, StopRun, StepsBecome, Goto
<1>23. ASSUME NEW s \in Stages, CreateNext(s) PROVE OneCarrier'
    BY HoldsApart, <1>23 DEF CreateNext, GiveBack, NewSession, Goto
<1>24. ASSUME NEW s \in Stages, EnqueueNext(s) PROVE OneCarrier'
    BY HoldsApart, <1>24 DEF EnqueueNext, Goto
<1>25. ASSUME NEW s \in Stages, GiveBackNext(s) PROVE OneCarrier'
    BY HoldsApart, <1>25 DEF GiveBackNext, GiveBack, Goto
<1>26. ASSUME NEW s \in Stages, ThrowNext(s) PROVE OneCarrier'
    BY HoldsApart, <1>26 DEF ThrowNext, StopRun, StepsBecome, Goto
<1>27. ASSUME NEW s \in Stages, Tell(s) PROVE OneCarrier'
    BY HoldsApart, <1>27 DEF Tell, Goto
<1>28. ASSUME NEW s \in Stages, Crash(s) PROVE OneCarrier'
    BY HoldsApart, <1>28 DEF Crash, Goto, Driving, Reporting
<1>29. ASSUME NEW s \in Stages, Lapse(s) PROVE OneCarrier'
    BY HoldsApart, <1>29 DEF Lapse
<1>30. ASSUME NEW s \in Stages, Resume(s) PROVE OneCarrier'
    BY HoldsApart, <1>30 DEF Resume
<1>31. ASSUME NEW s \in Stages, FailExhausted(s) PROVE OneCarrier'
    BY HoldsApart, <1>31 DEF FailExhausted
<1>32. ASSUME NEW s \in Stages, ClaimOrphan(s) PROVE OneCarrier'
    BY HoldsApart, <1>32 DEF ClaimOrphan
<1>33. ASSUME NEW s \in Stages, SweepRefund(s) PROVE OneCarrier'
    BY HoldsApart, <1>33 DEF SweepRefund, GiveBack
<1>34. ASSUME NEW s \in Stages, SweepMark(s) PROVE OneCarrier'
    BY HoldsApart, <1>34 DEF SweepMark, StopRun, StepsBecome
<1>35. ASSUME NEW s \in Stages, ReadCancel(s) PROVE OneCarrier'
    BY HoldsApart, <1>35 DEF ReadCancel
<1>36. ASSUME NEW s \in Stages, WriteCancel(s) PROVE OneCarrier'
    BY HoldsApart, <1>36 DEF WriteCancel, SetSession
<1>37. ASSUME NEW s \in Stages, NEW i \in Actions, Act(s, i) PROVE OneCarrier'
    BY HoldsApart, <1>37 DEF Act
<1> QED
    BY <1>1, <1>2, <1>3, <1>4, <1>5, <1>6, <1>7, <1>8, <1>9, <1>10, <1>11, <1>12,
       <1>13, <1>14, <1>15, <1>16, <1>17, <1>18, <1>19, <1>20, <1>21, <1>22, <1>23,
       <1>24, <1>25, <1>26, <1>27, <1>28, <1>29, <1>30, <1>31, <1>32, <1>33, <1>34,
       <1>35, <1>36, <1>37
       DEF Next, DispatchStep, WorkerStep, SweepStep, CancelStep

\* Every step keeps one settler to a hold.
LEMMA StillOneSettler ==
    ASSUME Typed, RowsFit, Order, LeftAlone, Settling, "lostReply" \notin faults, ~DiesUnsaved,
           Next
    PROVE  OneSettler'
<1> USE DEF Typed, RowsTyped, WorkTyped, HoldsTyped, RowsFit, Settling, Order, CarriesFit,
            ReportersFit, Finals, Open, rowVars, wk, hold, OneSettler, Unpaid, LeftAlone,
            DiesUnsaved, Leased, JobsFit, OneCarrier, TakersHold, TakenOnce, Fresh, Untaken,
            Carried, Unsettled, Unadvanced, Reporting, Driving
<1>1. ASSUME NEW d \in Dispatchers, Observe(d) PROVE OneSettler'
    BY HoldsApart, <1>1 DEF Observe, Plan, ToDisp
<1>2. ASSUME NEW d \in Dispatchers, Reserve(d) PROVE OneSettler'
    BY HoldsApart, <1>2 DEF Reserve, TakeHold, ToDisp
<1>3. ASSUME NEW d \in Dispatchers, Claim(d) PROVE OneSettler'
    BY HoldsApart, <1>3 DEF Claim, Plan, NewSession, ToDisp
<1>4. ASSUME NEW d \in Dispatchers, RefundClaim(d) PROVE OneSettler'
    BY HoldsApart, <1>4 DEF RefundClaim, GiveBack, ToDisp
<1>5. ASSUME NEW d \in Dispatchers, Enqueue(d) PROVE OneSettler'
    BY HoldsApart, <1>5 DEF Enqueue, ToDisp
<1>6. ASSUME NEW d \in Dispatchers, CrashDispatch(d) PROVE OneSettler'
    BY HoldsApart, <1>6 DEF CrashDispatch, ToDisp
<1>7. ASSUME NEW s \in Stages, TakeJob(s) PROVE OneSettler'
    BY HoldsApart, <1>7 DEF TakeJob, Goto
<1>8. ASSUME NEW s \in Stages, Start(s) PROVE OneSettler'
    BY HoldsApart, <1>8 DEF Start, StartStage, Goto
<1>9. ASSUME NEW s \in Stages, AgentGone(s) PROVE OneSettler'
    BY HoldsApart, <1>9 DEF AgentGone, SetSession, Ends
<1>10. ASSUME NEW s \in Stages, Conclude(s) PROVE OneSettler'
    BY HoldsApart, <1>10 DEF Conclude, Ends
<1>11. ASSUME NEW s \in Stages, LeaveLost(s) PROVE OneSettler'
    BY HoldsApart, <1>11 DEF LeaveLost, Goto
<1>12. ASSUME NEW s \in Stages, Break(s) PROVE OneSettler'
    BY HoldsApart, <1>12 DEF Break, Goto
<1>13. ASSUME NEW s \in Stages, Charge(s) PROVE OneSettler'
    BY HoldsApart, <1>13 DEF Charge, Goto
<1>14. ASSUME NEW s \in Stages, Refund(s) PROVE OneSettler'
    BY HoldsApart, <1>14 DEF Refund, GiveBack, Ends
<1>15. ASSUME NEW s \in Stages, Abandon(s) PROVE OneSettler'
    BY HoldsApart, <1>15 DEF Abandon, SetSession, Goto
<1>16. ASSUME NEW s \in Stages, Save(s) PROVE OneSettler'
    BY HoldsApart, <1>16 DEF Save, SetSession, Goto
<1>17. ASSUME NEW s \in Stages, SaveFails(s) PROVE OneSettler'
    BY HoldsApart, <1>17 DEF SaveFails, Goto
<1>18. ASSUME NEW s \in Stages, Mark(s) PROVE OneSettler'
    BY HoldsApart, <1>18 DEF Mark, SucceedStage, StopRun, StepsBecome, Goto
<1>19. ASSUME NEW s \in Stages, Leave(s) PROVE OneSettler'
    BY HoldsApart, <1>19 DEF Leave, Goto
<1>20. ASSUME NEW s \in Stages, Advance(s) PROVE OneSettler'
    BY HoldsApart, <1>20 DEF Advance, Goto
<1>21. ASSUME NEW s \in Stages, ReserveNext(s) PROVE OneSettler'
    <2>1. Untaken(s)
        BY <1>21 DEF ReserveNext
    <2>2. ASSUME NEW t \in Stages, Unpaid(t)' PROVE Unpaid(t)
        BY <1>21, <2>2 DEF ReserveNext, Goto
    <2>3. ASSUME NEW h \in Holds, Fresh(h) PROVE Fresh(h)'
        BY <1>21, <2>1, <2>3 DEF ReserveNext, TakeHold
    <2>4. ASSUME NEW t \in Stages, Unpaid(t) PROVE carries[t] \in Holds /\ Fresh(carries[t])
        BY <2>4
    <2>5. carries' = carries
        BY <1>21 DEF ReserveNext
    <2> QED
        BY <2>2, <2>3, <2>4, <2>5
<1>22. ASSUME NEW s \in Stages, Stop(s) PROVE OneSettler'
    BY HoldsApart, <1>22 DEF Stop, StopRun, StepsBecome, Goto
<1>23. ASSUME NEW s \in Stages, CreateNext(s) PROVE OneSettler'
    BY HoldsApart, <1>23 DEF CreateNext, GiveBack, NewSession, Goto
<1>24. ASSUME NEW s \in Stages, EnqueueNext(s) PROVE OneSettler'
    BY HoldsApart, <1>24 DEF EnqueueNext, Goto
<1>25. ASSUME NEW s \in Stages, GiveBackNext(s) PROVE OneSettler'
    BY HoldsApart, <1>25 DEF GiveBackNext, GiveBack, Goto
<1>26. ASSUME NEW s \in Stages, ThrowNext(s) PROVE OneSettler'
    BY HoldsApart, <1>26 DEF ThrowNext, StopRun, StepsBecome, Goto
<1>27. ASSUME NEW s \in Stages, Tell(s) PROVE OneSettler'
    BY HoldsApart, <1>27 DEF Tell, Goto
<1>28. ASSUME NEW s \in Stages, Crash(s) PROVE OneSettler'
    BY HoldsApart, <1>28 DEF Crash, Goto, Driving, Reporting
<1>29. ASSUME NEW s \in Stages, Lapse(s) PROVE OneSettler'
    BY HoldsApart, <1>29 DEF Lapse
<1>30. ASSUME NEW s \in Stages, Resume(s) PROVE OneSettler'
    BY HoldsApart, <1>30 DEF Resume
<1>31. ASSUME NEW s \in Stages, FailExhausted(s) PROVE OneSettler'
    BY HoldsApart, <1>31 DEF FailExhausted
<1>32. ASSUME NEW s \in Stages, ClaimOrphan(s) PROVE OneSettler'
    BY HoldsApart, <1>32 DEF ClaimOrphan
<1>33. ASSUME NEW s \in Stages, SweepRefund(s) PROVE OneSettler'
    BY HoldsApart, <1>33 DEF SweepRefund, GiveBack
<1>34. ASSUME NEW s \in Stages, SweepMark(s) PROVE OneSettler'
    BY HoldsApart, <1>34 DEF SweepMark, StopRun, StepsBecome
<1>35. ASSUME NEW s \in Stages, ReadCancel(s) PROVE OneSettler'
    BY HoldsApart, <1>35 DEF ReadCancel
<1>36. ASSUME NEW s \in Stages, WriteCancel(s) PROVE OneSettler'
    BY HoldsApart, <1>36 DEF WriteCancel, SetSession
<1>37. ASSUME NEW s \in Stages, NEW i \in Actions, Act(s, i) PROVE OneSettler'
    BY HoldsApart, <1>37 DEF Act
<1> QED
    BY <1>1, <1>2, <1>3, <1>4, <1>5, <1>6, <1>7, <1>8, <1>9, <1>10, <1>11, <1>12,
       <1>13, <1>14, <1>15, <1>16, <1>17, <1>18, <1>19, <1>20, <1>21, <1>22, <1>23,
       <1>24, <1>25, <1>26, <1>27, <1>28, <1>29, <1>30, <1>31, <1>32, <1>33, <1>34,
       <1>35, <1>36, <1>37
       DEF Next, DispatchStep, WorkerStep, SweepStep, CancelStep

\* Every step leaves a session without a lease alone.
LEMMA StillLeftAlone ==
    ASSUME Typed, RowsFit, Order, LeftAlone, ~DiesUnsaved, Next
    PROVE  LeftAlone'
<1> USE DEF Typed, RowsTyped, WorkTyped, RowsFit, Order, Finals, Open, Leased, Driving,
            Reporting, runVars, rowVars, wk, LeftAlone, DiesUnsaved, ReportersFit, JobsFit,
            NotYetQueued, FirstNotQueued, Unqueued, Handing
<1>1. ASSUME NEW d \in Dispatchers, Observe(d) PROVE LeftAlone'
    BY FirstStage, <1>1 DEF Observe, Plan, ToDisp
<1>2. ASSUME NEW d \in Dispatchers, Reserve(d) PROVE LeftAlone'
    BY FirstStage, <1>2 DEF Reserve, TakeHold, ToDisp
<1>3. ASSUME NEW d \in Dispatchers, Claim(d) PROVE LeftAlone'
    BY FirstStage, <1>3 DEF Claim, Plan, NewSession, ToDisp
<1>4. ASSUME NEW d \in Dispatchers, RefundClaim(d) PROVE LeftAlone'
    BY FirstStage, <1>4 DEF RefundClaim, GiveBack, ToDisp
<1>5. ASSUME NEW d \in Dispatchers, Enqueue(d) PROVE LeftAlone'
    BY FirstStage, <1>5 DEF Enqueue, ToDisp
<1>6. ASSUME NEW d \in Dispatchers, CrashDispatch(d) PROVE LeftAlone'
    BY FirstStage, <1>6 DEF CrashDispatch, ToDisp
<1>7. ASSUME NEW s \in Stages, TakeJob(s) PROVE LeftAlone'
    BY FirstStage, <1>7 DEF TakeJob, Goto
<1>8. ASSUME NEW s \in Stages, Start(s) PROVE LeftAlone'
    BY FirstStage, <1>8 DEF Start, StartStage, Goto
<1>9. ASSUME NEW s \in Stages, AgentGone(s) PROVE LeftAlone'
    BY FirstStage, <1>9 DEF AgentGone, SetSession, Ends
<1>10. ASSUME NEW s \in Stages, Conclude(s) PROVE LeftAlone'
    BY FirstStage, <1>10 DEF Conclude, Ends
<1>11. ASSUME NEW s \in Stages, LeaveLost(s) PROVE LeftAlone'
    BY FirstStage, <1>11 DEF LeaveLost, Goto
<1>12. ASSUME NEW s \in Stages, Break(s) PROVE LeftAlone'
    BY FirstStage, <1>12 DEF Break, Goto
<1>13. ASSUME NEW s \in Stages, Charge(s) PROVE LeftAlone'
    BY FirstStage, <1>13 DEF Charge, Goto
<1>14. ASSUME NEW s \in Stages, Refund(s) PROVE LeftAlone'
    BY FirstStage, <1>14 DEF Refund, GiveBack, Ends
<1>15. ASSUME NEW s \in Stages, Abandon(s) PROVE LeftAlone'
    BY FirstStage, <1>15 DEF Abandon, SetSession, Goto
<1>16. ASSUME NEW s \in Stages, Save(s) PROVE LeftAlone'
    BY FirstStage, <1>16 DEF Save, SetSession, Goto
<1>17. ASSUME NEW s \in Stages, SaveFails(s) PROVE LeftAlone'
    BY FirstStage, <1>17 DEF SaveFails, Goto
<1>18. ASSUME NEW s \in Stages, Mark(s) PROVE LeftAlone'
    BY FirstStage, <1>18 DEF Mark, SucceedStage, StopRun, StepsBecome, Goto
<1>19. ASSUME NEW s \in Stages, Leave(s) PROVE LeftAlone'
    BY FirstStage, <1>19 DEF Leave, Goto
<1>20. ASSUME NEW s \in Stages, Advance(s) PROVE LeftAlone'
    BY FirstStage, <1>20 DEF Advance, Goto
<1>21. ASSUME NEW s \in Stages, ReserveNext(s) PROVE LeftAlone'
    BY FirstStage, <1>21 DEF ReserveNext, TakeHold, Goto
<1>22. ASSUME NEW s \in Stages, Stop(s) PROVE LeftAlone'
    BY FirstStage, <1>22 DEF Stop, StopRun, StepsBecome, Goto
<1>23. ASSUME NEW s \in Stages, CreateNext(s) PROVE LeftAlone'
    BY FirstStage, <1>23 DEF CreateNext, GiveBack, NewSession, Goto
<1>24. ASSUME NEW s \in Stages, EnqueueNext(s) PROVE LeftAlone'
    BY FirstStage, NextIsNext, <1>24 DEF EnqueueNext, Goto, NextIsPlanned
<1>25. ASSUME NEW s \in Stages, GiveBackNext(s) PROVE LeftAlone'
    BY FirstStage, <1>25 DEF GiveBackNext, GiveBack, Goto
<1>26. ASSUME NEW s \in Stages, ThrowNext(s) PROVE LeftAlone'
    BY FirstStage, <1>26 DEF ThrowNext, StopRun, StepsBecome, Goto
<1>27. ASSUME NEW s \in Stages, Tell(s) PROVE LeftAlone'
    BY FirstStage, <1>27 DEF Tell, Goto
<1>28. ASSUME NEW s \in Stages, Crash(s) PROVE LeftAlone'
    BY FirstStage, <1>28 DEF Crash, Goto, Driving, Reporting
<1>29. ASSUME NEW s \in Stages, Lapse(s) PROVE LeftAlone'
    BY FirstStage, <1>29 DEF Lapse
<1>30. ASSUME NEW s \in Stages, Resume(s) PROVE LeftAlone'
    BY FirstStage, <1>30 DEF Resume
<1>31. ASSUME NEW s \in Stages, FailExhausted(s) PROVE LeftAlone'
    BY FirstStage, <1>31 DEF FailExhausted
<1>32. ASSUME NEW s \in Stages, ClaimOrphan(s) PROVE LeftAlone'
    BY FirstStage, <1>32 DEF ClaimOrphan
<1>33. ASSUME NEW s \in Stages, SweepRefund(s) PROVE LeftAlone'
    BY FirstStage, <1>33 DEF SweepRefund, GiveBack
<1>34. ASSUME NEW s \in Stages, SweepMark(s) PROVE LeftAlone'
    BY FirstStage, <1>34 DEF SweepMark, StopRun, StepsBecome
<1>35. ASSUME NEW s \in Stages, ReadCancel(s) PROVE LeftAlone'
    BY FirstStage, <1>35 DEF ReadCancel
<1>36. ASSUME NEW s \in Stages, WriteCancel(s) PROVE LeftAlone'
    BY FirstStage, <1>36 DEF WriteCancel, SetSession
<1>37. ASSUME NEW s \in Stages, NEW i \in Actions, Act(s, i) PROVE LeftAlone'
    BY FirstStage, <1>37 DEF Act
<1> QED
    BY <1>1, <1>2, <1>3, <1>4, <1>5, <1>6, <1>7, <1>8, <1>9, <1>10, <1>11, <1>12,
       <1>13, <1>14, <1>15, <1>16, <1>17, <1>18, <1>19, <1>20, <1>21, <1>22, <1>23,
       <1>24, <1>25, <1>26, <1>27, <1>28, <1>29, <1>30, <1>31, <1>32, <1>33, <1>34,
       <1>35, <1>36, <1>37
       DEF Next, DispatchStep, WorkerStep, SweepStep, CancelStep

\* Two sessions carry different holds.
LEMMA HoldsDiffer ==
    ASSUME CarriesFit, NEW s \in Stages, NEW t \in Stages, session[s] # "none",
           session[t] # "none", s # t
    PROVE  carries[s] # carries[t]
<1>1. \A x \in Stages : x # 0 => x - 1 \in Stages
    BY AutomationRunAssumption DEF Stages
<1>2. CASE s = 0
    BY <1>1, <1>2, HoldsApart DEF CarriesFit
<1>3. CASE t = 0
    BY <1>1, <1>3, HoldsApart DEF CarriesFit
<1>4. CASE s # 0 /\ t # 0
    BY <1>4, FirstStage DEF CarriesFit
<1> QED
    BY <1>2, <1>3, <1>4

\* What a charge changes.
LEMMA ChargeChanges ==
    ASSUME NEW s \in Stages, Charge(s)
    PROVE  /\ pc[s] = "charge" /\ pc' = [pc EXCEPT ![s] = "save"] /\ carries' = carries
           /\ charged' = [charged EXCEPT ![carries[s]] = @ + 1]
           /\ UNCHANGED <<session, lease, sweep>>
BY DEF Charge, Goto, rowVars

\* Every step charges a hold at most once.
LEMMA StillChargedOnce ==
    ASSUME Typed, RowsFit, Order, LeftAlone, ChargedOnce, ~DiesUnsaved, Next
    PROVE  ChargedOnce'
<1> USE DEF Typed, RowsTyped, WorkTyped, HoldsTyped, RowsFit, Order, Finals, Open, Leased,
            Driving, Reporting, rowVars, wk, hold, LeftAlone, DiesUnsaved, ReportersFit,
            CarriesFit, ChargedOnce, Unpaid, Unsettled, Carried
<1>1. ASSUME NEW d \in Dispatchers, Observe(d) PROVE ChargedOnce'
    BY HoldsApart, FirstStage, <1>1 DEF Observe, Plan, ToDisp
<1>2. ASSUME NEW d \in Dispatchers, Reserve(d) PROVE ChargedOnce'
    BY HoldsApart, FirstStage, <1>2 DEF Reserve, TakeHold, ToDisp
<1>3. ASSUME NEW d \in Dispatchers, Claim(d) PROVE ChargedOnce'
    BY HoldsApart, FirstStage, <1>3 DEF Claim, Plan, NewSession, ToDisp
<1>4. ASSUME NEW d \in Dispatchers, RefundClaim(d) PROVE ChargedOnce'
    BY HoldsApart, FirstStage, <1>4 DEF RefundClaim, GiveBack, ToDisp
<1>5. ASSUME NEW d \in Dispatchers, Enqueue(d) PROVE ChargedOnce'
    BY HoldsApart, FirstStage, <1>5 DEF Enqueue, ToDisp
<1>6. ASSUME NEW d \in Dispatchers, CrashDispatch(d) PROVE ChargedOnce'
    BY HoldsApart, FirstStage, <1>6 DEF CrashDispatch, ToDisp
<1>7. ASSUME NEW s \in Stages, TakeJob(s) PROVE ChargedOnce'
    BY HoldsApart, FirstStage, <1>7 DEF TakeJob, Goto
<1>8. ASSUME NEW s \in Stages, Start(s) PROVE ChargedOnce'
    BY HoldsApart, FirstStage, <1>8 DEF Start, StartStage, Goto
<1>9. ASSUME NEW s \in Stages, AgentGone(s) PROVE ChargedOnce'
    BY HoldsApart, FirstStage, <1>9 DEF AgentGone, SetSession, Ends
<1>10. ASSUME NEW s \in Stages, Conclude(s) PROVE ChargedOnce'
    BY HoldsApart, FirstStage, <1>10 DEF Conclude, Ends
<1>11. ASSUME NEW s \in Stages, LeaveLost(s) PROVE ChargedOnce'
    BY HoldsApart, FirstStage, <1>11 DEF LeaveLost, Goto
<1>12. ASSUME NEW s \in Stages, Break(s) PROVE ChargedOnce'
    BY HoldsApart, FirstStage, <1>12 DEF Break, Goto
<1>13. ASSUME NEW s \in Stages, Charge(s) PROVE ChargedOnce'
    <2>1. /\ pc[s] = "charge" /\ pc' = [pc EXCEPT ![s] = "save"] /\ carries' = carries
          /\ charged' = [charged EXCEPT ![carries[s]] = charged[carries[s]] + 1]
          /\ UNCHANGED <<session, lease, sweep>>
        BY <1>13, ChargeChanges
    <2>2. session[s] # "none" /\ session[s] # "queued" /\ sweep[s] = "idle"
        BY <2>1
    <2>3. \A t \in Stages : t # s /\ session[t] # "none" => carries[t] # carries[s]
        BY <2>2, HoldsDiffer
    <2>4. \A h \in Holds : h # carries[s] => charged'[h] = charged[h]
        BY <2>1
    <2>5. ~Unpaid(s)'
        BY <2>1, <2>2
    <2>6. \A t \in Stages : Unpaid(t)' =>
              t # s /\ Unpaid(t) /\ session[t] # "none" /\ carries[t] \in Holds
        BY <2>1, <2>5
    <2>7. \A t \in Stages : Unpaid(t)' => charged'[carries'[t]] = 0
        BY <2>1, <2>3, <2>4, <2>6
    <2>8. \A h \in Holds : ~Carried(h)' => charged'[h] = 0
        BY <2>1, <2>4
    <2> QED
        BY <2>7, <2>8
<1>14. ASSUME NEW s \in Stages, Refund(s) PROVE ChargedOnce'
    BY HoldsApart, FirstStage, <1>14 DEF Refund, GiveBack, Ends
<1>15. ASSUME NEW s \in Stages, Abandon(s) PROVE ChargedOnce'
    BY HoldsApart, FirstStage, <1>15 DEF Abandon, SetSession, Goto
<1>16. ASSUME NEW s \in Stages, Save(s) PROVE ChargedOnce'
    BY HoldsApart, FirstStage, <1>16 DEF Save, SetSession, Goto
<1>17. ASSUME NEW s \in Stages, SaveFails(s) PROVE ChargedOnce'
    BY HoldsApart, FirstStage, <1>17 DEF SaveFails, Goto
<1>18. ASSUME NEW s \in Stages, Mark(s) PROVE ChargedOnce'
    BY HoldsApart, FirstStage, <1>18 DEF Mark, SucceedStage, StopRun, StepsBecome, Goto
<1>19. ASSUME NEW s \in Stages, Leave(s) PROVE ChargedOnce'
    BY HoldsApart, FirstStage, <1>19 DEF Leave, Goto
<1>20. ASSUME NEW s \in Stages, Advance(s) PROVE ChargedOnce'
    BY HoldsApart, FirstStage, <1>20 DEF Advance, Goto
<1>21. ASSUME NEW s \in Stages, ReserveNext(s) PROVE ChargedOnce'
    BY HoldsApart, FirstStage, <1>21 DEF ReserveNext, TakeHold, Goto
<1>22. ASSUME NEW s \in Stages, Stop(s) PROVE ChargedOnce'
    BY HoldsApart, FirstStage, <1>22 DEF Stop, StopRun, StepsBecome, Goto
<1>23. ASSUME NEW s \in Stages, CreateNext(s) PROVE ChargedOnce'
    BY HoldsApart, FirstStage, NextIsNext, <1>23 DEF CreateNext, GiveBack, NewSession, Goto
<1>24. ASSUME NEW s \in Stages, EnqueueNext(s) PROVE ChargedOnce'
    BY HoldsApart, FirstStage, <1>24 DEF EnqueueNext, Goto
<1>25. ASSUME NEW s \in Stages, GiveBackNext(s) PROVE ChargedOnce'
    BY HoldsApart, FirstStage, <1>25 DEF GiveBackNext, GiveBack, Goto
<1>26. ASSUME NEW s \in Stages, ThrowNext(s) PROVE ChargedOnce'
    BY HoldsApart, FirstStage, <1>26 DEF ThrowNext, StopRun, StepsBecome, Goto
<1>27. ASSUME NEW s \in Stages, Tell(s) PROVE ChargedOnce'
    BY HoldsApart, FirstStage, <1>27 DEF Tell, Goto
<1>28. ASSUME NEW s \in Stages, Crash(s) PROVE ChargedOnce'
    BY HoldsApart, FirstStage, <1>28 DEF Crash, Goto, Driving, Reporting
<1>29. ASSUME NEW s \in Stages, Lapse(s) PROVE ChargedOnce'
    BY HoldsApart, FirstStage, <1>29 DEF Lapse
<1>30. ASSUME NEW s \in Stages, Resume(s) PROVE ChargedOnce'
    BY HoldsApart, FirstStage, <1>30 DEF Resume
<1>31. ASSUME NEW s \in Stages, FailExhausted(s) PROVE ChargedOnce'
    BY HoldsApart, FirstStage, <1>31 DEF FailExhausted
<1>32. ASSUME NEW s \in Stages, ClaimOrphan(s) PROVE ChargedOnce'
    BY HoldsApart, FirstStage, <1>32 DEF ClaimOrphan
<1>33. ASSUME NEW s \in Stages, SweepRefund(s) PROVE ChargedOnce'
    BY HoldsApart, FirstStage, <1>33 DEF SweepRefund, GiveBack
<1>34. ASSUME NEW s \in Stages, SweepMark(s) PROVE ChargedOnce'
    BY HoldsApart, FirstStage, <1>34 DEF SweepMark, StopRun, StepsBecome
<1>35. ASSUME NEW s \in Stages, ReadCancel(s) PROVE ChargedOnce'
    BY HoldsApart, FirstStage, <1>35 DEF ReadCancel
<1>36. ASSUME NEW s \in Stages, WriteCancel(s) PROVE ChargedOnce'
    BY HoldsApart, FirstStage, <1>36 DEF WriteCancel, SetSession
<1>37. ASSUME NEW s \in Stages, NEW i \in Actions, Act(s, i) PROVE ChargedOnce'
    BY HoldsApart, FirstStage, <1>37 DEF Act
<1> QED
    BY <1>1, <1>2, <1>3, <1>4, <1>5, <1>6, <1>7, <1>8, <1>9, <1>10, <1>11, <1>12,
       <1>13, <1>14, <1>15, <1>16, <1>17, <1>18, <1>19, <1>20, <1>21, <1>22, <1>23,
       <1>24, <1>25, <1>26, <1>27, <1>28, <1>29, <1>30, <1>31, <1>32, <1>33, <1>34,
       <1>35, <1>36, <1>37
       DEF Next, DispatchStep, WorkerStep, SweepStep, CancelStep

\* While no reply is lost, somebody is about to settle each hold, and nobody else.
SettleInv ==
    /\ OrderInv
    /\ ~DiesUnsaved => LeftAlone /\ ChargedOnce /\ ("lostReply" \notin faults => Settling)

\* The invariant always holds.
LEMMA SettleHolds == Spec => []SettleInv
<1>1. Init => SettleInv
    <2> SUFFICES ASSUME Init PROVE Settling /\ LeftAlone /\ ChargedOnce
        BY OrderAtFirst DEF SettleInv
    <2> QED
        BY HoldsApart
           DEF Init, Settling, TakersHold, TakenOnce, OneCarrier, OneSettler, Unpaid, Fresh,
               Untaken, Carried, Open, Unsettled, LeftAlone, ChargedOnce
<1>2. OrderInv /\ SettleInv /\ [Next]_vars /\ OrderInv' => SettleInv'
    <2> SUFFICES ASSUME OrderInv, SettleInv, [Next]_vars, OrderInv', ~DiesUnsaved'
                 PROVE  /\ LeftAlone' /\ ChargedOnce'
                        /\ "lostReply" \notin faults' => Settling'
        BY DEF SettleInv
    <2>1. CASE Next
        <3>1. UNCHANGED faults
            BY <2>1, FixedStays DEF fixed
        <3>2. Typed /\ RowsFit /\ Order /\ LeftAlone /\ ChargedOnce /\ ~DiesUnsaved
            BY <3>1 DEF OrderInv, SettleInv, DiesUnsaved
        <3>3. LeftAlone' /\ ChargedOnce'
            BY <2>1, <3>2, StillLeftAlone, StillChargedOnce
        <3>4. ASSUME "lostReply" \notin faults PROVE Settling'
            BY <2>1, <3>2, <3>4, TakersStillHold, StillTakenOnce, StillOneCarrier,
               StillOneSettler
            DEF SettleInv, Settling
        <3> QED
            BY <3>1, <3>3, <3>4
    <2>2. CASE UNCHANGED vars
        BY <2>2
        DEF vars, SettleInv, Settling, TakersHold, TakenOnce, OneCarrier, OneSettler, Unpaid,
            Fresh, Untaken, Carried, LeftAlone, ChargedOnce, DiesUnsaved
    <2> QED
        BY <2>1, <2>2
<1> QED
    BY <1>1, <1>2, OrderHolds, PTL DEF Spec

\* A step that touches one hold changes one outcome.
LEMMA OutcomeChanges ==
    ASSUME HoldsTyped, NEW h \in Holds, NEW to, Outcome'[h] = to,
           \A g \in Holds \ {h} : /\ taken'[g] = taken[g]
                                  /\ charged'[g] = charged[g]
                                  /\ returned'[g] = returned[g]
    PROVE  Outcome' = [Outcome EXCEPT ![h] = to]
<1>1. \A g \in Holds \ {h} : Outcome'[g] = Outcome[g]
    BY DEF Outcome
<1>2. Outcome' = [g \in Holds |-> Outcome'[g]] /\ Outcome = [g \in Holds |-> Outcome[g]]
    BY DEF Outcome
<1> QED
    BY <1>1, <1>2

\* Taking a hold, giving it back and charging it are steps of SettleOnce.
LEMMA SettlingIsAbstract ==
    ASSUME HoldsTyped, NEW h \in Holds
    PROVE  /\ Untaken(h) /\ TakeHold(h) => Ledger!SettleNext
           /\ Fresh(h) /\ GiveBack(h) => Ledger!SettleNext
           /\ Fresh(h) /\ charged' = [charged EXCEPT ![h] = @ + 1] /\ UNCHANGED <<taken, returned>>
                  => Ledger!SettleNext
           /\ UNCHANGED hold => UNCHANGED Outcome
<1>1. ASSUME Untaken(h), TakeHold(h) PROVE Ledger!Take(h)
    <2>1. Outcome[h] = "none" /\ Outcome'[h] = "held"
        <3>1. taken'[h] /\ charged'[h] = 0 /\ returned'[h] = 0
            BY <1>1 DEF HoldsTyped, Untaken, TakeHold
        <3>2. Outcome[h] = "none"
            BY <1>1 DEF Untaken, Outcome
        <3>3. Outcome'[h] = "held"
            BY <3>1 DEF Outcome
        <3> QED
            BY <3>2, <3>3
    <2> QED
        BY <1>1, <2>1, OutcomeChanges DEF HoldsTyped, TakeHold, Ledger!Take
<1>2. ASSUME Fresh(h), GiveBack(h) PROVE Ledger!GiveBack(h)
    <2>1. Outcome[h] = "held" /\ Outcome'[h] = "returned"
        BY <1>2 DEF HoldsTyped, Fresh, GiveBack, Outcome
    <2> QED
        BY <1>2, <2>1, OutcomeChanges DEF HoldsTyped, GiveBack, Ledger!GiveBack
<1>3. ASSUME Fresh(h), charged' = [charged EXCEPT ![h] = @ + 1], UNCHANGED <<taken, returned>>
      PROVE  Ledger!Charge(h)
    <2>1. Outcome[h] = "held" /\ Outcome'[h] = "charged"
        BY <1>3 DEF HoldsTyped, Fresh, Outcome
    <2> QED
        BY <1>3, <2>1, OutcomeChanges DEF HoldsTyped, Ledger!Charge
<1>4. ASSUME UNCHANGED hold PROVE UNCHANGED Outcome
    BY <1>4 DEF hold, Outcome
<1> QED
    BY <1>1, <1>2, <1>3, <1>4 DEF Ledger!SettleNext

\* Every step is a step of SettleOnce or changes no outcome.
LEMMA StepsSettleOnce ==
    ASSUME Typed, RowsFit, Settling, Next
    PROVE  [Ledger!SettleNext]_Outcome
<1> USE DEF Typed, Settling, RowsFit, TakersHold, OneCarrier, OneSettler, Unpaid, TakenOnce,
            Unsettled, Unadvanced
<1>1. ASSUME NEW d \in Dispatchers, Reserve(d) PROVE [Ledger!SettleNext]_Outcome
    BY HoldsApart, FirstStage, SettlingIsAbstract, <1>1 DEF Reserve, ToDisp
<1>2. ASSUME NEW d \in Dispatchers, RefundClaim(d) PROVE [Ledger!SettleNext]_Outcome
    BY HoldsApart, FirstStage, SettlingIsAbstract, <1>2 DEF RefundClaim,
       ToDisp
<1>3. ASSUME NEW s \in Stages, Charge(s) PROVE [Ledger!SettleNext]_Outcome
    BY HoldsApart, FirstStage, SettlingIsAbstract, <1>3 DEF Charge, Goto
<1>4. ASSUME NEW s \in Stages, Refund(s) PROVE [Ledger!SettleNext]_Outcome
    BY HoldsApart, FirstStage, SettlingIsAbstract, <1>4 DEF Refund, Ends
<1>5. ASSUME NEW s \in Stages, ReserveNext(s) PROVE [Ledger!SettleNext]_Outcome
    BY HoldsApart, FirstStage, SettlingIsAbstract, <1>5 DEF ReserveNext,
       Goto
<1>6. ASSUME NEW s \in Stages, CreateNext(s) PROVE [Ledger!SettleNext]_Outcome
    BY HoldsApart, FirstStage, SettlingIsAbstract, <1>6 DEF CreateNext,
       NewSession, Goto
<1>7. ASSUME NEW s \in Stages, GiveBackNext(s) PROVE [Ledger!SettleNext]_Outcome
    BY HoldsApart, FirstStage, SettlingIsAbstract, <1>7 DEF GiveBackNext,
       Goto
<1>8. ASSUME NEW s \in Stages, SweepRefund(s) PROVE [Ledger!SettleNext]_Outcome
    BY HoldsApart, FirstStage, SettlingIsAbstract, <1>8 DEF SweepRefund
<1>9. CASE UNCHANGED hold
    BY HoldsApart, FirstStage, SettlingIsAbstract, <1>9
<1> QED
    BY <1>1, <1>2, <1>3, <1>4, <1>5, <1>6, <1>7, <1>8, <1>9, HoldSteps

\* The holds of a run implement SettleOnce: whoever took one, it is charged or
\* given back at most once, and never both (automation-run-coordinator.ts,
\* runner.ts, run-reaper.ts), unless a last update of a worker fails and the
\* process that goes on without it dies: the resumed worker settles again.
THEOREM HoldsAlwaysSettleOnce ==
    ASSUME \A f \in FaultSets : "lostReply" \in f \/ ~({"saveFails", "crashReporting"} \subseteq f)
    PROVE  Spec => HoldSettlesOnce
<1>1. SettleInv /\ [Next]_vars => ["lostReply" \in faults \/ Ledger!SettleNext]_Outcome
    <2> SUFFICES ASSUME SettleInv, [Next]_vars, "lostReply" \notin faults
                 PROVE  [Ledger!SettleNext]_Outcome
        OBVIOUS
    <2>1. Typed /\ RowsFit /\ Settling
        BY DEF SettleInv, OrderInv, Typed, DiesUnsaved
    <2>2. CASE Next
        BY <2>1, <2>2, StepsSettleOnce
    <2>3. CASE UNCHANGED vars
        BY <2>3 DEF vars, Outcome
    <2> QED
        BY <2>2, <2>3
<1> QED
    BY <1>1, SettleHolds, PTL DEF Spec, HoldSettlesOnce

-----------------------------------------------------------------------------
(* A run ends once, and is told once.                                      *)

\* Nothing of a stage that could write an ended run is under way any more: a
\* session that is left open will not be begun.
Quiet(s) ==
    /\ sweep[s] \in {"idle", "refundOrphan"}
    /\ pc[s] \in {"idle", "leave", "advance", "tell"}
    /\ session[s] \in Open => lease[s] = "null" /\ s \notin jobs

Still(s) == pc[s] = "idle" /\ Quiet(s)

NobodyEnqueues == \A d \in Dispatchers : disp[d] # "enqueue"

AllQuiet == NobodyEnqueues /\ \A s \in Stages : Quiet(s)

AllStill == NobodyEnqueues /\ \A s \in Stages : Still(s)

EndedIsQuiet == run \in Ended => AllQuiet

\* Only an ended run is told of, ...
TellersWait == \A s \in Stages : pc[s] = "tell" => run \in Ended

Spoken == \E n \in News : told[n] # 0

\* ... and who told was the last to write it.
StoryFits ==
    /\ told \in [News -> Nat]
    /\ Spoken => run \in Ended /\ AllStill
    /\ OneStory

\* While a run has not ended, the stages without a session are still ahead.
PlanAhead ==
    /\ run = "observed" => \A s \in Stages : session[s] = "none"
    /\ run \notin Ended \cup {"none", "observed"} =>
           \A s \in Stages : s <= Last /\ session[s] = "none" => control[s] = "planned"

\* A stage that succeeded, or is about to be marked so, was charged.
ChargedStages ==
    \A s \in Stages :
        control[s] = "succeeded" \/ (pc[s] \in {"save", "mark"} /\ final[s] = "completed") =>
            carries[s] # NoHold /\ charged[carries[s]] = 1

WholeRun == EndedIsQuiet /\ PlanAhead /\ ChargedStages /\ SucceededMeansDone

\* While somebody works on a stage, reports or sweeps it, the others are still.
LEMMA Alone ==
    ASSUME Typed, RowsFit, Order, NEW s \in Stages,
           pc[s] # "idle" \/ sweep[s] \in {"refundExhausted", "mark"},
           NEW t \in Stages, t # s
    PROVE  /\ Still(t)
           /\ t < s => control[t] = "succeeded"
           /\ t > s => session[t] = "none" \/ pc[s] \in Handing
<1>1. session[s] # "none" /\ lease[s] \in {"null", "live", "lapsed"}
    BY DEF RowsFit, Typed, RowsTyped
<1>2. CASE t < s
    <2>1. control[t] = "succeeded" /\ pc[t] \in {"idle"} \cup Handing
        BY <1>1, <1>2 DEF Order, EarlierStagesDone
    <2>2. session[t] \in Finals /\ sweep[t] = "idle"
        BY <2>1 DEF Order, SucceededStays
    <2>3. pc[t] = "idle"
        <3>1. CASE pc[s] # "idle"
            BY <1>2, <3>1, OneAtWork, FirstStage DEF Order
        <3>2. CASE pc[t] \in Handing
            BY <1>1, <1>2, <3>2, OneAtWork, FirstStage DEF Order, Handing
        <3> QED
            BY <2>1, <3>2
    <2> QED
        BY <1>2, <2>1, <2>2, <2>3, FirstStage DEF Finals, Open, Still, Quiet
<1>3. CASE t > s
    <2>1. CASE session[t] = "none"
        BY <1>3, <2>1, FirstStage DEF RowsFit, Open, Still, Quiet
    <2>2. CASE session[t] # "none"
        <3>1. control[s] = "succeeded" /\ pc[s] \in {"idle"} \cup Handing
            BY <1>3, <2>2, FirstStage DEF Order, EarlierStagesDone
        <3>2. pc[s] \in Handing
            BY <3>1 DEF Order, SucceededStays
        <3>3. Unqueued(t)
            BY <1>3, <2>2, <3>2, FirstStage DEF Order, NotYetQueued
        <3>4. session[t] \in Open => lease[t] = "null"
            BY <3>3 DEF Unqueued, Open, RowsFit
        <3> QED
            BY <1>3, <3>2, <3>3, <3>4, FirstStage DEF Unqueued, Still, Quiet
    <2> QED
        BY <2>1, <2>2
<1> QED
    BY <1>2, <1>3, FirstStage

\* Nor does a dispatcher still have to enqueue the first stage.
LEMMA NobodyHandsFirst ==
    ASSUME RowsFit, Order, NEW s \in Stages,
           pc[s] # "idle" \/ sweep[s] \in {"refundExhausted", "mark"}
    PROVE  NobodyEnqueues
<1> SUFFICES ASSUME NEW d \in Dispatchers, disp[d] = "enqueue" PROVE FALSE
    BY DEF NobodyEnqueues
<1>1. control[0] = "planned" /\ Unqueued(0)
    BY DEF Order, FirstNotQueued
<1>2. session[s] # "none" /\ s # 0
    BY <1>1 DEF RowsFit, Unqueued
<1> QED
    BY <1>1, <1>2, FirstStage DEF Order, EarlierStagesDone

\* Where the worker of a stage may come from.
ComesFrom(t) ==
    /\ pc'[t] = "tell" => pc[t] = "tell" \/ Advance(t) \/ Stop(t)
    /\ pc'[t] \in {"save", "mark"} /\ final'[t] = "completed" =>
           Charge(t) \/ (pc[t] \in {"save", "mark"} /\ final[t] = "completed")

LEMMA WorkersComeFrom ==
    ASSUME WorkTyped, Next, NEW t \in Stages
    PROVE  ComesFrom(t)
<1> USE DEF ComesFrom, WorkTyped
<1>1. ASSUME NEW s \in Stages, TakeJob(s) PROVE ComesFrom(t)
    BY <1>1 DEF TakeJob, Goto, wk
<1>2. ASSUME NEW s \in Stages, Start(s) PROVE ComesFrom(t)
    BY <1>2 DEF Start, StartStage, Goto
<1>3. ASSUME NEW s \in Stages, AgentGone(s) PROVE ComesFrom(t)
    BY <1>3 DEF AgentGone, SetSession, Ends
<1>4. ASSUME NEW s \in Stages, Conclude(s) PROVE ComesFrom(t)
    BY <1>4 DEF Conclude, Ends
<1>5. ASSUME NEW s \in Stages, LeaveLost(s) PROVE ComesFrom(t)
    BY <1>5 DEF LeaveLost, Goto
<1>6. ASSUME NEW s \in Stages, Break(s) PROVE ComesFrom(t)
    BY <1>6 DEF Break, Goto
<1>7. ASSUME NEW s \in Stages, Charge(s) PROVE ComesFrom(t)
    BY <1>7 DEF Charge, Goto
<1>8. ASSUME NEW s \in Stages, Refund(s) PROVE ComesFrom(t)
    BY <1>8 DEF Refund, GiveBack, Ends
<1>9. ASSUME NEW s \in Stages, Abandon(s) PROVE ComesFrom(t)
    BY <1>9 DEF Abandon, SetSession, Goto
<1>10. ASSUME NEW s \in Stages, Save(s) PROVE ComesFrom(t)
    BY <1>10 DEF Save, SetSession, Goto
<1>11. ASSUME NEW s \in Stages, SaveFails(s) PROVE ComesFrom(t)
    BY <1>11 DEF SaveFails, Goto
<1>12. ASSUME NEW s \in Stages, Mark(s) PROVE ComesFrom(t)
    BY <1>12 DEF Mark, Goto
<1>13. ASSUME NEW s \in Stages, Leave(s) PROVE ComesFrom(t)
    BY <1>13 DEF Leave, Goto
<1>14. ASSUME NEW s \in Stages, Advance(s) PROVE ComesFrom(t)
    BY <1>14 DEF Advance, Goto
<1>15. ASSUME NEW s \in Stages, ReserveNext(s) PROVE ComesFrom(t)
    BY <1>15 DEF ReserveNext, Goto
<1>16. ASSUME NEW s \in Stages, Stop(s) PROVE ComesFrom(t)
    BY <1>16 DEF Stop, Goto
<1>17. ASSUME NEW s \in Stages, CreateNext(s) PROVE ComesFrom(t)
    BY <1>17 DEF CreateNext, Goto
<1>18. ASSUME NEW s \in Stages, EnqueueNext(s) PROVE ComesFrom(t)
    BY <1>18 DEF EnqueueNext, Goto
<1>19. ASSUME NEW s \in Stages, GiveBackNext(s) PROVE ComesFrom(t)
    BY <1>19 DEF GiveBackNext, Goto
<1>20. ASSUME NEW s \in Stages, ThrowNext(s) PROVE ComesFrom(t)
    BY <1>20 DEF ThrowNext, Goto
<1>21. ASSUME NEW s \in Stages, Tell(s) PROVE ComesFrom(t)
    BY <1>21 DEF Tell, Goto
<1>22. ASSUME NEW s \in Stages, Crash(s) PROVE ComesFrom(t)
    BY <1>22 DEF Crash, Goto, Driving, Reporting
<1>50. CASE UNCHANGED wk
    BY <1>50 DEF wk
<1>51. \/ UNCHANGED wk
       \/ \E s \in Stages : TakeJob(s) \/ WorkerStep(s) \/ Crash(s)
    BY DEF Next, DispatchStep, SweepStep, CancelStep, Observe, Reserve, Claim, RefundClaim,
           Enqueue, CrashDispatch, Lapse, Resume, FailExhausted, ClaimOrphan, SweepRefund,
           SweepMark, ReadCancel, WriteCancel, Act, wk
<1> QED
    BY <1>1, <1>2, <1>3, <1>4, <1>5, <1>6, <1>7, <1>8, <1>9, <1>10, <1>11, <1>12, <1>13,
       <1>14, <1>15, <1>16, <1>17, <1>18, <1>19, <1>20, <1>21, <1>22, <1>50, <1>51 DEF WorkerStep

\* A session keeps its hold, and only a new one has none before.
RowKeeps(t) ==
    /\ session[t] # "none" => carries'[t] = carries[t]
    /\ session[t] = "none" /\ session'[t] # "none" =>
           run = "none" \/ \E s \in Stages : pc[s] = "create"

LEMMA RowsKeepHolds ==
    ASSUME RowsTyped, WorkTyped, RowsFit, Next, NEW t \in Stages
    PROVE  RowKeeps(t)
<1> USE DEF RowsTyped, WorkTyped, RowsFit, Finals, Open, rowVars, RowKeeps
<1>1. ASSUME NEW d \in Dispatchers, Claim(d) PROVE RowKeeps(t)
    BY <1>1 DEF Claim, Plan, NewSession, ToDisp
<1>2. ASSUME NEW s \in Stages, TakeJob(s) PROVE RowKeeps(t)
    BY <1>2 DEF TakeJob, Goto
<1>3. ASSUME NEW s \in Stages, AgentGone(s) PROVE RowKeeps(t)
    BY <1>3 DEF AgentGone, SetSession, Ends
<1>4. ASSUME NEW s \in Stages, Abandon(s) PROVE RowKeeps(t)
    BY <1>4 DEF Abandon, SetSession, Goto
<1>5. ASSUME NEW s \in Stages, Save(s) PROVE RowKeeps(t)
    BY <1>5 DEF Save, SetSession, Goto
<1>6. ASSUME NEW s \in Stages, CreateNext(s) PROVE RowKeeps(t)
    BY <1>6 DEF CreateNext, GiveBack, NewSession, Goto
<1>7. ASSUME NEW s \in Stages, FailExhausted(s) PROVE RowKeeps(t)
    BY <1>7 DEF FailExhausted
<1>8. ASSUME NEW s \in Stages, ClaimOrphan(s) PROVE RowKeeps(t)
    BY <1>8 DEF ClaimOrphan
<1>9. ASSUME NEW s \in Stages, SweepRefund(s) PROVE RowKeeps(t)
    BY <1>9 DEF SweepRefund
<1>10. ASSUME NEW s \in Stages, SweepMark(s) PROVE RowKeeps(t)
    BY <1>10 DEF SweepMark
<1>11. ASSUME NEW s \in Stages, WriteCancel(s) PROVE RowKeeps(t)
    BY <1>11 DEF WriteCancel, SetSession
<1>50. CASE UNCHANGED <<session, carries, sweep>>
    BY <1>50
<1>51. \/ UNCHANGED <<session, carries, sweep>>
       \/ \E d \in Dispatchers : Claim(d)
       \/ \E s \in Stages : TakeJob(s) \/ AgentGone(s) \/ Abandon(s) \/ Save(s) \/
          CreateNext(s) \/ FailExhausted(s) \/ ClaimOrphan(s) \/ SweepRefund(s) \/
          SweepMark(s) \/ WriteCancel(s)
    BY DEF Next, DispatchStep, WorkerStep, SweepStep, CancelStep, Observe, Reserve, RefundClaim,
           Enqueue, CrashDispatch, Start, Conclude, LeaveLost, Break, Charge, Refund, SaveFails,
           Mark, Leave, Advance, ReserveNext, Stop, EnqueueNext, GiveBackNext, ThrowNext, Tell,
           Crash, Lapse, Resume, ReadCancel, Act, wk, hold, runVars, rowVars, fixed
<1> QED
    BY <1>1, <1>2, <1>3, <1>4, <1>5, <1>6, <1>7, <1>8, <1>9, <1>10, <1>11, <1>50, <1>51

\* The run's status is changed by who works on a stage, or where there is none.
LEMMA RunChanges ==
    ASSUME Typed, RowsFit, Next, run' # run
    PROVE  \/ run = "none" /\ run' \in {"planned", "observed"}
           \/ \E s \in Stages :
                 /\ pc[s] # "idle" \/ sweep[s] = "mark"
                 /\ Start(s) \/ Mark(s) \/ Stop(s) \/ ThrowNext(s) \/ SweepMark(s)
<1>1. ASSUME NEW d \in Dispatchers, Observe(d) \/ Claim(d)
      PROVE  run = "none" /\ run' \in {"planned", "observed"}
    BY <1>1 DEF Observe, Claim, Plan, ToDisp, runVars
<1>2. ASSUME NEW s \in Stages, Start(s) \/ Mark(s) \/ Stop(s) \/ ThrowNext(s) \/ SweepMark(s)
      PROVE  pc[s] # "idle" \/ sweep[s] = "mark"
    BY <1>2 DEF Start, Mark, Stop, ThrowNext, SweepMark
<1>3. ASSUME NEW s \in Stages, NEW i \in Actions, Act(s, i) PROVE FALSE
    BY <1>3 DEF Act
<1> QED
    BY <1>1, <1>2, <1>3, PlanSteps DEF runVars

\* Where all is quiet an ended run stays as it is.
LEMMA EndedStays ==
    ASSUME Typed, RowsFit, AllQuiet, Next, run \in Ended
    PROVE  run' = run
<1>1. run # "none"
    BY DEF Ended
<1>2. ASSUME NEW s \in Stages
      PROVE  ~(Start(s) \/ Mark(s) \/ Stop(s) \/ ThrowNext(s) \/ SweepMark(s))
    BY DEF AllQuiet, Quiet, Start, Mark, Stop, ThrowNext, SweepMark
<1> QED
    BY <1>1, <1>2, RunChanges

\* An ended run that is quiet stays so.
LEMMA QuietStays ==
    ASSUME Typed, RowsFit, Order, AllQuiet, ~DiesUnsaved, run \in Ended, Next
    PROVE  AllQuiet'
<1> USE DEF Typed, RowsTyped, WorkTyped, RowsFit, Finals, Open, Leased, Driving, Reporting,
            runVars, rowVars, wk, Ended, NobodyEnqueues, AllQuiet, Quiet, Order, JobsFit,
            ReportersFit, DiesUnsaved
<1>1. ASSUME NEW d \in Dispatchers, Observe(d) PROVE AllQuiet'
    BY <1>1 DEF Observe, Plan, ToDisp
<1>2. ASSUME NEW d \in Dispatchers, Reserve(d) PROVE AllQuiet'
    BY <1>2 DEF Reserve, TakeHold, ToDisp
<1>3. ASSUME NEW d \in Dispatchers, Claim(d) PROVE AllQuiet'
    BY <1>3 DEF Claim, Plan, NewSession, ToDisp
<1>4. ASSUME NEW d \in Dispatchers, RefundClaim(d) PROVE AllQuiet'
    BY <1>4 DEF RefundClaim, GiveBack, ToDisp
<1>5. ASSUME NEW d \in Dispatchers, Enqueue(d) PROVE AllQuiet'
    BY <1>5 DEF Enqueue, ToDisp
<1>6. ASSUME NEW d \in Dispatchers, CrashDispatch(d) PROVE AllQuiet'
    BY <1>6 DEF CrashDispatch, ToDisp
<1>7. ASSUME NEW s \in Stages, TakeJob(s) PROVE AllQuiet'
    BY <1>7 DEF TakeJob, Goto
<1>8. ASSUME NEW s \in Stages, Start(s) PROVE AllQuiet'
    BY <1>8 DEF Start, StartStage, Goto
<1>9. ASSUME NEW s \in Stages, AgentGone(s) PROVE AllQuiet'
    BY <1>9 DEF AgentGone, SetSession, Ends
<1>10. ASSUME NEW s \in Stages, Conclude(s) PROVE AllQuiet'
    BY <1>10 DEF Conclude, Ends
<1>11. ASSUME NEW s \in Stages, LeaveLost(s) PROVE AllQuiet'
    BY <1>11 DEF LeaveLost, Goto
<1>12. ASSUME NEW s \in Stages, Break(s) PROVE AllQuiet'
    BY <1>12 DEF Break, Goto
<1>13. ASSUME NEW s \in Stages, Charge(s) PROVE AllQuiet'
    BY <1>13 DEF Charge, Goto
<1>14. ASSUME NEW s \in Stages, Refund(s) PROVE AllQuiet'
    BY <1>14 DEF Refund, GiveBack, Ends
<1>15. ASSUME NEW s \in Stages, Abandon(s) PROVE AllQuiet'
    BY <1>15 DEF Abandon, SetSession, Goto
<1>16. ASSUME NEW s \in Stages, Save(s) PROVE AllQuiet'
    BY <1>16 DEF Save, SetSession, Goto
<1>17. ASSUME NEW s \in Stages, SaveFails(s) PROVE AllQuiet'
    BY <1>17 DEF SaveFails, Goto
<1>18. ASSUME NEW s \in Stages, Mark(s) PROVE AllQuiet'
    BY <1>18 DEF Mark, SucceedStage, StopRun, StepsBecome, Goto
<1>19. ASSUME NEW s \in Stages, Leave(s) PROVE AllQuiet'
    BY <1>19 DEF Leave, Goto
<1>20. ASSUME NEW s \in Stages, Advance(s) PROVE AllQuiet'
    BY <1>20 DEF Advance, Goto
<1>21. ASSUME NEW s \in Stages, ReserveNext(s) PROVE AllQuiet'
    BY <1>21 DEF ReserveNext, TakeHold, Goto
<1>22. ASSUME NEW s \in Stages, Stop(s) PROVE AllQuiet'
    BY <1>22 DEF Stop, StopRun, StepsBecome, Goto
<1>23. ASSUME NEW s \in Stages, CreateNext(s) PROVE AllQuiet'
    BY <1>23 DEF CreateNext, GiveBack, NewSession, Goto
<1>24. ASSUME NEW s \in Stages, EnqueueNext(s) PROVE AllQuiet'
    BY <1>24 DEF EnqueueNext, Goto
<1>25. ASSUME NEW s \in Stages, GiveBackNext(s) PROVE AllQuiet'
    BY <1>25 DEF GiveBackNext, GiveBack, Goto
<1>26. ASSUME NEW s \in Stages, ThrowNext(s) PROVE AllQuiet'
    BY <1>26 DEF ThrowNext, StopRun, StepsBecome, Goto
<1>27. ASSUME NEW s \in Stages, Tell(s) PROVE AllQuiet'
    BY <1>27 DEF Tell, Goto
<1>28. ASSUME NEW s \in Stages, Crash(s) PROVE AllQuiet'
    BY <1>28 DEF Crash, Goto, Driving, Reporting
<1>29. ASSUME NEW s \in Stages, Lapse(s) PROVE AllQuiet'
    BY <1>29 DEF Lapse
<1>30. ASSUME NEW s \in Stages, Resume(s) PROVE AllQuiet'
    BY <1>30 DEF Resume
<1>31. ASSUME NEW s \in Stages, FailExhausted(s) PROVE AllQuiet'
    BY <1>31 DEF FailExhausted
<1>32. ASSUME NEW s \in Stages, ClaimOrphan(s) PROVE AllQuiet'
    BY <1>32 DEF ClaimOrphan
<1>33. ASSUME NEW s \in Stages, SweepRefund(s) PROVE AllQuiet'
    BY <1>33 DEF SweepRefund, GiveBack
<1>34. ASSUME NEW s \in Stages, SweepMark(s) PROVE AllQuiet'
    BY <1>34 DEF SweepMark, StopRun, StepsBecome
<1>35. ASSUME NEW s \in Stages, ReadCancel(s) PROVE AllQuiet'
    BY <1>35 DEF ReadCancel
<1>36. ASSUME NEW s \in Stages, WriteCancel(s) PROVE AllQuiet'
    BY <1>36 DEF WriteCancel, SetSession
<1>37. ASSUME NEW s \in Stages, NEW i \in Actions, Act(s, i) PROVE AllQuiet'
    BY <1>37 DEF Act
<1> QED
    BY <1>1, <1>2, <1>3, <1>4, <1>5, <1>6, <1>7, <1>8, <1>9, <1>10, <1>11, <1>12,
       <1>13, <1>14, <1>15, <1>16, <1>17, <1>18, <1>19, <1>20, <1>21, <1>22, <1>23,
       <1>24, <1>25, <1>26, <1>27, <1>28, <1>29, <1>30, <1>31, <1>32, <1>33, <1>34,
       <1>35, <1>36, <1>37
       DEF Next, DispatchStep, WorkerStep, SweepStep, CancelStep

\* And one that is still stays still, whatever fails.
LEMMA StillnessStays ==
    ASSUME Typed, RowsFit, AllStill, run \in Ended, Next
    PROVE  AllStill'
<1> USE DEF Typed, RowsTyped, WorkTyped, RowsFit, Finals, Open, Leased, Driving, Reporting,
            runVars, rowVars, wk, Ended, NobodyEnqueues, AllStill, Still, Quiet
<1>1. ASSUME NEW d \in Dispatchers, Observe(d) PROVE AllStill'
    BY <1>1 DEF Observe, Plan, ToDisp
<1>2. ASSUME NEW d \in Dispatchers, Reserve(d) PROVE AllStill'
    BY <1>2 DEF Reserve, TakeHold, ToDisp
<1>3. ASSUME NEW d \in Dispatchers, Claim(d) PROVE AllStill'
    BY <1>3 DEF Claim, Plan, NewSession, ToDisp
<1>4. ASSUME NEW d \in Dispatchers, RefundClaim(d) PROVE AllStill'
    BY <1>4 DEF RefundClaim, GiveBack, ToDisp
<1>5. ASSUME NEW d \in Dispatchers, Enqueue(d) PROVE AllStill'
    BY <1>5 DEF Enqueue, ToDisp
<1>6. ASSUME NEW d \in Dispatchers, CrashDispatch(d) PROVE AllStill'
    BY <1>6 DEF CrashDispatch, ToDisp
<1>7. ASSUME NEW s \in Stages, TakeJob(s) PROVE AllStill'
    BY <1>7 DEF TakeJob, Goto
<1>8. ASSUME NEW s \in Stages, Start(s) PROVE AllStill'
    BY <1>8 DEF Start, StartStage, Goto
<1>9. ASSUME NEW s \in Stages, AgentGone(s) PROVE AllStill'
    BY <1>9 DEF AgentGone, SetSession, Ends
<1>10. ASSUME NEW s \in Stages, Conclude(s) PROVE AllStill'
    BY <1>10 DEF Conclude, Ends
<1>11. ASSUME NEW s \in Stages, LeaveLost(s) PROVE AllStill'
    BY <1>11 DEF LeaveLost, Goto
<1>12. ASSUME NEW s \in Stages, Break(s) PROVE AllStill'
    BY <1>12 DEF Break, Goto
<1>13. ASSUME NEW s \in Stages, Charge(s) PROVE AllStill'
    BY <1>13 DEF Charge, Goto
<1>14. ASSUME NEW s \in Stages, Refund(s) PROVE AllStill'
    BY <1>14 DEF Refund, GiveBack, Ends
<1>15. ASSUME NEW s \in Stages, Abandon(s) PROVE AllStill'
    BY <1>15 DEF Abandon, SetSession, Goto
<1>16. ASSUME NEW s \in Stages, Save(s) PROVE AllStill'
    BY <1>16 DEF Save, SetSession, Goto
<1>17. ASSUME NEW s \in Stages, SaveFails(s) PROVE AllStill'
    BY <1>17 DEF SaveFails, Goto
<1>18. ASSUME NEW s \in Stages, Mark(s) PROVE AllStill'
    BY <1>18 DEF Mark, SucceedStage, StopRun, StepsBecome, Goto
<1>19. ASSUME NEW s \in Stages, Leave(s) PROVE AllStill'
    BY <1>19 DEF Leave, Goto
<1>20. ASSUME NEW s \in Stages, Advance(s) PROVE AllStill'
    BY <1>20 DEF Advance, Goto
<1>21. ASSUME NEW s \in Stages, ReserveNext(s) PROVE AllStill'
    BY <1>21 DEF ReserveNext, TakeHold, Goto
<1>22. ASSUME NEW s \in Stages, Stop(s) PROVE AllStill'
    BY <1>22 DEF Stop, StopRun, StepsBecome, Goto
<1>23. ASSUME NEW s \in Stages, CreateNext(s) PROVE AllStill'
    BY <1>23 DEF CreateNext, GiveBack, NewSession, Goto
<1>24. ASSUME NEW s \in Stages, EnqueueNext(s) PROVE AllStill'
    BY <1>24 DEF EnqueueNext, Goto
<1>25. ASSUME NEW s \in Stages, GiveBackNext(s) PROVE AllStill'
    BY <1>25 DEF GiveBackNext, GiveBack, Goto
<1>26. ASSUME NEW s \in Stages, ThrowNext(s) PROVE AllStill'
    BY <1>26 DEF ThrowNext, StopRun, StepsBecome, Goto
<1>27. ASSUME NEW s \in Stages, Tell(s) PROVE AllStill'
    BY <1>27 DEF Tell, Goto
<1>28. ASSUME NEW s \in Stages, Crash(s) PROVE AllStill'
    BY <1>28 DEF Crash, Goto, Driving, Reporting
<1>29. ASSUME NEW s \in Stages, Lapse(s) PROVE AllStill'
    BY <1>29 DEF Lapse
<1>30. ASSUME NEW s \in Stages, Resume(s) PROVE AllStill'
    BY <1>30 DEF Resume
<1>31. ASSUME NEW s \in Stages, FailExhausted(s) PROVE AllStill'
    BY <1>31 DEF FailExhausted
<1>32. ASSUME NEW s \in Stages, ClaimOrphan(s) PROVE AllStill'
    BY <1>32 DEF ClaimOrphan
<1>33. ASSUME NEW s \in Stages, SweepRefund(s) PROVE AllStill'
    BY <1>33 DEF SweepRefund, GiveBack
<1>34. ASSUME NEW s \in Stages, SweepMark(s) PROVE AllStill'
    BY <1>34 DEF SweepMark, StopRun, StepsBecome
<1>35. ASSUME NEW s \in Stages, ReadCancel(s) PROVE AllStill'
    BY <1>35 DEF ReadCancel
<1>36. ASSUME NEW s \in Stages, WriteCancel(s) PROVE AllStill'
    BY <1>36 DEF WriteCancel, SetSession
<1>37. ASSUME NEW s \in Stages, NEW i \in Actions, Act(s, i) PROVE AllStill'
    BY <1>37 DEF Act
<1> QED
    BY <1>1, <1>2, <1>3, <1>4, <1>5, <1>6, <1>7, <1>8, <1>9, <1>10, <1>11, <1>12,
       <1>13, <1>14, <1>15, <1>16, <1>17, <1>18, <1>19, <1>20, <1>21, <1>22, <1>23,
       <1>24, <1>25, <1>26, <1>27, <1>28, <1>29, <1>30, <1>31, <1>32, <1>33, <1>34,
       <1>35, <1>36, <1>37
       DEF Next, DispatchStep, WorkerStep, SweepStep, CancelStep

\* Whoever ends a run leaves nobody else at it.
LEMMA StillQuiet ==
    ASSUME Typed, RowsFit, Order, ~DiesUnsaved, EndedIsQuiet, Next
    PROVE  EndedIsQuiet'
<1> SUFFICES ASSUME run' \in Ended PROVE AllQuiet'
    BY DEF EndedIsQuiet
<1>1. CASE run' = run
    BY <1>1, QuietStays DEF EndedIsQuiet
<1>2. CASE run' # run
    <2>1. PICK s \in Stages :
              /\ pc[s] # "idle" \/ sweep[s] = "mark"
              /\ Start(s) \/ Mark(s) \/ Stop(s) \/ ThrowNext(s) \/ SweepMark(s)
        BY <1>2, RunChanges DEF Ended
    <2>2. session' = session /\ lease' = lease /\ disp' = disp /\ ~Start(s)
        BY <2>1 DEF Start, StartStage, Mark, Stop, ThrowNext, SweepMark, rowVars, Ended
    <2>3. NobodyEnqueues'
        BY <2>1, <2>2, NobodyHandsFirst DEF NobodyEnqueues
    <2>4. Quiet(s)'
        <3>1. CASE SweepMark(s)
            BY <3>1 DEF SweepMark, RowsFit, Quiet, Typed, RowsTyped, wk, rowVars
        <3>2. CASE Stop(s)
            <4>1. /\ sweep'[s] = "idle" /\ pc'[s] = "tell" /\ s \notin jobs'
                  /\ session[s] \in Open => lease[s] = "null"
                BY <3>2 DEF Stop, Goto, Order, ReportersFit, JobsFit, RowsFit, Reporting, Typed,
                            WorkTyped
            <4> QED
                BY <2>2, <4>1 DEF Quiet
        <3>3. CASE Mark(s) \/ ThrowNext(s)
            <4>1. session[s] \notin Open /\ sweep'[s] = "idle" /\ pc'[s] \in {"leave", "idle"}
                BY <3>3 DEF Mark, ThrowNext, Goto, Order, ReportersFit, RowsFit, Reporting,
                   Typed, WorkTyped
            <4> QED
                BY <2>2, <4>1 DEF Quiet
        <3> QED
            BY <2>1, <2>2, <3>1, <3>2, <3>3
    <2>5. ASSUME NEW t \in Stages, t # s PROVE Quiet(t)'
        <3>1. Still(t)
            BY <2>1, <2>5, Alone
        <3>2. pc'[t] = pc[t] /\ sweep'[t] = sweep[t] /\ (t \in jobs' => t \in jobs)
            BY <2>1, <2>2, <2>5 DEF Typed, WorkTyped, RowsTyped, Mark, Stop, ThrowNext,
                                    SweepMark, Goto, wk
        <3> QED
            BY <2>2, <3>1, <3>2 DEF Still, Quiet
    <2> QED
        BY <2>3, <2>4, <2>5 DEF AllQuiet
<1> QED
    BY <1>1, <1>2

\* While somebody is to tell of a run nobody else writes it.
LEMMA TellersStillWait ==
    ASSUME Typed, RowsFit, Order, TellersWait, Next
    PROVE  TellersWait'
<1> SUFFICES ASSUME NEW t \in Stages, pc'[t] = "tell" PROVE run' \in Ended
    BY DEF TellersWait
<1>1. pc[t] = "tell" \/ Advance(t) \/ Stop(t)
    BY WorkersComeFrom DEF Typed, ComesFrom
<1>2. CASE pc[t] = "tell"
    <2>1. run \in Ended
        BY <1>2 DEF TellersWait
    <2>2. ASSUME NEW s \in Stages,
                 Start(s) \/ Mark(s) \/ Stop(s) \/ ThrowNext(s) \/ SweepMark(s)
          PROVE  FALSE
        <3>1. s = t
            BY <1>2, <2>2, OneAtWork DEF Order, Start, Mark, Stop, ThrowNext, SweepMark
        <3> QED
            BY <1>2, <2>2, <3>1 DEF Start, Mark, Stop, ThrowNext, SweepMark, RowsFit
    <2>3. run # "none"
        BY <2>1 DEF Ended
    <2> QED
        BY <2>1, <2>2, <2>3, RunChanges
<1>3. CASE Advance(t)
    BY <1>3 DEF Advance, Goto, Typed, WorkTyped, runVars
<1>4. CASE Stop(t)
    BY <1>4 DEF Stop, StopRun, Ended
<1> QED
    BY <1>1, <1>2, <1>3, <1>4

\* The last worker tells, or the sweep that ended the run.
LEMMA StoryStillFits ==
    ASSUME Typed, RowsFit, Order, TellersWait, StoryFits, Next
    PROVE  StoryFits'
<1>1. CASE told' = told
    <2>1. CASE ~Spoken
        <3>1. told["result"] = 0 /\ told["sorry"] = 0 /\ told["stopped"] = 0
            BY <2>1 DEF Spoken, News
        <3>2. OneStory'
            BY <1>1, <3>1 DEF OneStory
        <3> QED
            BY <1>1, <2>1, <3>2 DEF StoryFits, Spoken
    <2>2. CASE Spoken
        <3>1. run \in Ended /\ AllStill
            BY <2>2 DEF StoryFits
        <3>2. run' = run
            BY <3>1, EndedStays DEF AllStill, Still, AllQuiet
        <3>3. AllStill'
            BY <3>1, StillnessStays
        <3> QED
            BY <1>1, <3>1, <3>2, <3>3 DEF StoryFits, Spoken, OneStory
    <2> QED
        BY <2>1, <2>2
<1>2. CASE told' # told
    <2>1. PICK s \in Stages : Tell(s) \/ SweepMark(s)
        BY <1>2
        DEF Next, DispatchStep, WorkerStep, SweepStep, CancelStep, Observe, Reserve, Claim,
            RefundClaim, Enqueue, CrashDispatch, TakeJob, Start, AgentGone, Conclude, LeaveLost,
            Break, Charge, Refund, Abandon, Save, SaveFails, Mark, Leave, Advance, ReserveNext,
            Stop, CreateNext, EnqueueNext, GiveBackNext, ThrowNext, Crash, Lapse, Resume,
            FailExhausted, ClaimOrphan, SweepRefund, ReadCancel, WriteCancel, Act
    <2>2. ~Spoken /\ (pc[s] # "idle" \/ sweep[s] = "mark")
        BY <2>1 DEF Tell, SweepMark, StoryFits, AllStill, Still, Quiet
    <2>3. \A n \in News : told[n] = 0
        BY <2>2 DEF Spoken
    <2>4. \E n \in News :
              /\ told' = [told EXCEPT ![n] = @ + 1]
              /\ n = "result" <=> run' = "succeeded"
              /\ run' \in Ended
        <3>1. CASE Tell(s)
            <4>1. run \in Ended /\ run' = run
                BY <3>1 DEF Tell, TellersWait, runVars
            <4> QED
                BY <3>1, <4>1 DEF Tell, News
        <3>2. CASE SweepMark(s)
            BY <3>2 DEF SweepMark, StopRun, News, Ended
        <3> QED
            BY <2>1, <3>1, <3>2
    <2>5. AllStill'
        <3>1. session' = session /\ lease' = lease /\ disp' = disp /\ jobs' = jobs
            BY <2>1 DEF Tell, SweepMark, rowVars
        <3>2. ASSUME NEW t \in Stages, t # s PROVE Still(t)'
            <4>1. Still(t)
                BY <2>2, <3>2, Alone
            <4>2. pc'[t] = pc[t] /\ sweep'[t] = sweep[t]
                BY <2>1, <3>2 DEF Tell, SweepMark, Goto, wk, Typed, WorkTyped, RowsTyped
            <4> QED
                BY <3>1, <4>1, <4>2 DEF Still, Quiet
        <3>3. pc'[s] = "idle" /\ sweep'[s] = "idle"
            BY <2>1 DEF Tell, SweepMark, Goto, wk, Typed, WorkTyped, RowsTyped, RowsFit
        <3>4. session[s] \in Open => lease[s] = "null" /\ s \notin jobs
            BY <2>1 DEF Tell, SweepMark, RowsFit, Order, ReportersFit, JobsFit, Reporting
        <3>5. NobodyEnqueues'
            BY <2>2, <3>1, NobodyHandsFirst DEF NobodyEnqueues
        <3> QED
            BY <3>1, <3>2, <3>3, <3>4, <3>5 DEF AllStill, Still, Quiet
    <2>6. told' \in [News -> Nat] /\ OneStory'
        <3>1. PICK n \in News : /\ told' = [told EXCEPT ![n] = @ + 1]
                                /\ n = "result" <=> run' = "succeeded"
                                /\ run' \in Ended
            BY <2>4
        <3>2. told \in [News -> Nat]
            BY DEF StoryFits
        <3>3. told'[n] = 1 /\ \A k \in News : k # n => told'[k] = 0
            BY <2>3, <3>1, <3>2
        <3>4. told' \in [News -> Nat]
            <4>1. told[n] + 1 \in Nat
                BY <2>3
            <4> QED
                BY <3>1, <3>2, <4>1
        <3>5. OneStory'
            BY <3>1, <3>3 DEF OneStory, News, Ended
        <3> QED
            BY <3>4, <3>5
    <2> QED
        BY <2>4, <2>5, <2>6 DEF StoryFits
<1> QED
    BY <1>1, <1>2

\* Every step keeps what is ahead of a run planned.
LEMMA PlanStaysAhead ==
    ASSUME Typed, RowsFit, EndedIsQuiet, PlanAhead, UNCHANGED fixed, Next
    PROVE  PlanAhead'
<1>1. ASSUME NEW t \in Stages, session'[t] = "none" PROVE session[t] = "none"
    BY <1>1, RowsRemain DEF Typed, RowsKept
<1>2. Last' = Last
    BY DEF fixed, Last, StageOf, Actions
<1>3. CASE run = "none"
    <2>1. \A t \in Stages : session[t] = "none" /\ pc[t] = "idle" /\ sweep[t] = "idle"
        BY <1>3 DEF RowsFit
    <2>2. CASE run' = "none"
        BY <2>2 DEF PlanAhead
    <2>3. CASE run' # "none"
        <3>1. PICK d \in Dispatchers : Observe(d) \/ Claim(d)
            BY <1>3, <2>1, <2>3, PlanSteps
            DEF Start, Mark, Stop, ThrowNext, SweepMark, Act, runVars
        <3>2. CASE Observe(d)
            BY <1>3, <2>1, <3>2 DEF Observe, Plan, ToDisp, rowVars, PlanAhead
        <3>3. CASE Claim(d)
            <4>1. /\ run' = "planned"
                  /\ control' = [s \in Stages |-> IF s <= Last THEN "planned" ELSE "none"]
                BY <1>3, <2>3, <3>3 DEF Claim, Plan, runVars
            <4> QED
                BY <1>2, <4>1 DEF PlanAhead
        <3> QED
            BY <3>1, <3>2, <3>3
    <2> QED
        BY <2>2, <2>3
<1>4. CASE run # "none"
    <2>1. ASSUME run' = "observed" PROVE \A t \in Stages : session'[t] = "none"
        <3>1. run = "observed"
            BY <1>4, <2>1, RunChanges
            DEF Start, StartStage, Mark, SucceedStage, StopRun, Stop, ThrowNext, SweepMark,
                Typed, WorkTyped, Finals, RowsFit
        <3>2. \A t \in Stages : session[t] = "none" /\ pc[t] = "idle"
            BY <3>1 DEF PlanAhead, RowsFit
        <3> QED
            BY <1>4, <3>2, RowsKeepHolds DEF Typed, RowKeeps
    <2>2. ASSUME run' \notin Ended \cup {"none", "observed"}, NEW t \in Stages, t <= Last,
                 session'[t] = "none"
          PROVE  control'[t] = "planned"
        <3>1. session[t] = "none" /\ pc[t] = "idle" /\ sweep[t] = "idle"
            BY <1>1, <2>2 DEF RowsFit
        <3>2. CASE run' = run
            <4>1. control[t] = "planned"
                BY <1>4, <2>2, <3>1, <3>2 DEF PlanAhead
            <4>2. control'[t] = control[t] \/ control'[t] = "planned"
                BY <3>1, <3>2, PlanSteps, <1>4, <2>2
                DEF Observe, Claim, Start, StartStage, Mark, SucceedStage, StopRun, Stop,
                    ThrowNext, SweepMark, Act, runVars, Ended, Typed, PlanTyped, RowsFit, Finals,
                    ToDisp, Plan
            <4> QED
                BY <4>1, <4>2
        <3>3. CASE run' # run
            <4>1. PICK s \in Stages :
                      /\ Start(s) \/ Mark(s)
                BY <1>4, <2>2, <3>3, RunChanges DEF Stop, ThrowNext, SweepMark, StopRun, Ended
            <4>2. t # s
                BY <3>1, <4>1 DEF Start, Mark
            <4>3. control'[t] = control[t]
                BY <2>2, <4>1, <4>2
                DEF Start, StartStage, Mark, SucceedStage, StopRun, Typed, PlanTyped, RowsFit,
                    Finals, Ended
            <4>4. run \notin Ended \cup {"none", "observed"}
                <5>1. run \notin Ended
                    BY <3>3, EndedStays DEF EndedIsQuiet
                <5>2. session[s] # "none"
                    BY <4>1 DEF Start, Mark, RowsFit
                <5> QED
                    BY <1>4, <5>1, <5>2 DEF PlanAhead
            <4> QED
                BY <2>2, <3>1, <4>3, <4>4 DEF PlanAhead
        <3> QED
            BY <3>2, <3>3
    <2> QED
        BY <1>2, <2>1, <2>2 DEF PlanAhead
<1> QED
    BY <1>3, <1>4

\* Every step that lets a stage succeed finds it charged.
LEMMA ChargedStay ==
    ASSUME Typed, RowsFit, Order, ChargedOnce, ChargedStages, Next
    PROVE  ChargedStages'
<1> USE DEF Typed, WorkTyped, PlanTyped
<1>1. ASSUME NEW t \in Stages, carries[t] # NoHold, charged[carries[t]] = 1
      PROVE  carries'[t] # NoHold /\ charged'[carries'[t]] = 1
    <2>1. session[t] # "none" /\ carries[t] \in Holds
        BY <1>1 DEF RowsFit
    <2>2. carries'[t] = carries[t]
        BY <2>1, RowsKeepHolds DEF RowKeeps
    <2>3. charged'[carries[t]] = charged[carries[t]]
        <3>1. CASE charged' = charged
            BY <3>1
        <3>2. ASSUME NEW s \in Stages, Charge(s) PROVE charged'[carries[t]] = charged[carries[t]]
            <4>1. charged[carries[s]] = 0
                BY <3>2 DEF Charge, ChargedOnce, Unpaid, Unsettled
            <4> QED
                BY <1>1, <2>1, <3>2, <4>1 DEF Charge, HoldsTyped
        <3> QED
            BY <3>1, <3>2, HoldSteps
            DEF hold, Reserve, RefundClaim, Refund, ReserveNext, CreateNext, GiveBackNext,
                SweepRefund, TakeHold, GiveBack
    <2> QED
        BY <1>1, <2>1, <2>2, <2>3
<1>2. ASSUME NEW t \in Stages, Charge(t)
      PROVE  carries'[t] # NoHold /\ charged'[carries'[t]] = 1
    <2>1. charged[carries[t]] = 0 /\ carries[t] \in Holds
        BY <1>2 DEF Charge, ChargedOnce, Unpaid, Unsettled, RowsFit
    <2>2. carries' = carries /\ charged' = [charged EXCEPT ![carries[t]] = @ + 1]
        BY <1>2 DEF Charge, rowVars
    <2> QED
        BY <2>1, <2>2, HoldsApart DEF HoldsTyped
<1>3. ASSUME NEW t \in Stages, control'[t] = "succeeded"
      PROVE  carries'[t] # NoHold /\ charged'[carries'[t]] = 1
    <2>1. control[t] = "succeeded" \/ (pc[t] = "mark" /\ final[t] = "completed")
        BY <1>3, PlanSteps
        DEF runVars, Observe, Claim, Plan, ToDisp, Start, StartStage, Mark, SucceedStage, StopRun,
            Stop, ThrowNext, SweepMark, Act, RowsFit, Finals
    <2> QED
        BY <1>1, <2>1 DEF ChargedStages
<1>4. ASSUME NEW t \in Stages, pc'[t] \in {"save", "mark"}, final'[t] = "completed"
      PROVE  carries'[t] # NoHold /\ charged'[carries'[t]] = 1
    <2>1. Charge(t) \/ (pc[t] \in {"save", "mark"} /\ final[t] = "completed")
        BY <1>4, WorkersComeFrom DEF ComesFrom
    <2> QED
        BY <1>1, <1>2, <2>1 DEF ChargedStages
<1> QED
    BY <1>3, <1>4 DEF ChargedStages

\* The last stage is marked when every one before it has succeeded and none is
\* ahead; and then nobody writes a step, a stage or a charge any more.
LEMMA SuccessIsWhole ==
    ASSUME Typed, RowsFit, Order, EndedIsQuiet, PlanAhead, SucceededMeansDone, UNCHANGED fixed,
           Next, SucceededStays', ChargedStages'
    PROVE  SucceededMeansDone'
<1> USE DEF Typed, WorkTyped, PlanTyped
<1>1. SUFFICES ASSUME run' = "succeeded" PROVE SucceededMeansDone'
    BY DEF SucceededMeansDone
<1>2. Last' = Last /\ Actions' = Actions /\ \A i \in Actions : StageOf(i)' = StageOf(i)
    BY StagesStay DEF fixed, Last, StageOf, Actions
<1>3. Last \in Stages /\ \A i \in Actions : StageOf(i) \in 0 .. Last
    BY LastIsStage
<1>4. \A u \in 0 .. Last : u \in Stages
    BY <1>3, AutomationRunAssumption DEF Stages
<1>5. SUFFICES \A u \in 0 .. Last : control'[u] = "succeeded"
    <2>1. ASSUME NEW i \in Actions, \A u \in 0 .. Last : control'[u] = "succeeded"
          PROVE  step'[i] = "succeeded"
        BY <1>2, <1>3, <1>4, <2>1 DEF SucceededStays
    <2>2. ASSUME \A u \in 0 .. Last : control'[u] = "succeeded"
          PROVE  \A u \in 0 .. Last : carries'[u] # NoHold /\ charged'[carries'[u]] = 1
        BY <1>4, <2>2 DEF ChargedStages
    <2> QED
        BY <1>2, <2>1, <2>2 DEF SucceededMeansDone
<1>6. CASE run' = run
    <2>1. \A u \in 0 .. Last : control[u] = "succeeded"
        BY <1>1, <1>6 DEF SucceededMeansDone
    <2>2. \A s \in Stages : Quiet(s)
        BY <1>1, <1>6 DEF EndedIsQuiet, AllQuiet, Ended
    <2>3. control' = control
        BY <1>1, <1>6, <2>2, PlanSteps
        DEF Quiet, runVars, Observe, Claim, ToDisp, Start, Mark, Stop, ThrowNext, SweepMark, Act,
            StopRun
    <2> QED
        BY <2>1, <2>3
<1>7. CASE run' # run
    <2>1. /\ run \notin Ended
          /\ \E s \in Stages :
                /\ pc[s] # "idle" \/ sweep[s] = "mark"
                /\ Start(s) \/ Mark(s) \/ Stop(s) \/ ThrowNext(s) \/ SweepMark(s)
        BY <1>1, <1>7, RunChanges, EndedStays DEF EndedIsQuiet, Ended
    <2>2. PICK s \in Stages : Mark(s) /\ pc[s] = "mark"
        BY <1>1, <2>1 DEF Start, StartStage, Mark, Stop, ThrowNext, SweepMark, StopRun
    <2>3. /\ control' = [control EXCEPT ![s] = "succeeded"]
          /\ NextStages(s) = {}
        BY <1>1, <2>2 DEF Mark, SucceedStage, StopRun, RowsFit, Finals
    <2>4. ASSUME NEW u \in 0 .. Last PROVE control'[u] = "succeeded"
        <3>1. CASE u = s
            BY <1>4, <2>3, <3>1
        <3>2. CASE u # s
            <4>1. /\ u < s => control[u] = "succeeded"
                  /\ u > s => session[u] = "none"
                BY <1>4, <2>2, <3>2, Alone DEF Handing
            <4>2. ~(u > s)
                <5>1. SUFFICES ASSUME u > s PROVE FALSE
                    OBVIOUS
                <5>2. run \notin {"none", "observed"}
                    BY <2>2 DEF RowsFit, PlanAhead
                <5>3. control[u] = "planned"
                    BY <1>3, <1>4, <2>1, <4>1, <5>1, <5>2, FirstStage DEF PlanAhead
                <5> QED
                    BY <1>4, <2>3, <5>1, <5>3 DEF NextStages
            <4>3. control[u] = "succeeded"
                BY <1>4, <3>2, <4>1, <4>2, FirstStage
            <4> QED
                BY <1>4, <2>3, <3>2, <4>3
        <3> QED
            BY <3>1, <3>2
    <2> QED
        BY <2>4
<1> QED
    BY <1>6, <1>7

\* What was told fits the run; and the run its stages, unless a process may die
\* that goes on without its last update.
RunFits == TellersWait /\ StoryFits /\ (~DiesUnsaved => WholeRun)

RunInv == OrderInv /\ SettleInv /\ RunFits

\* It holds at first.
LEMMA RunAtFirst == Init => RunFits
<1> SUFFICES ASSUME Init PROVE RunFits
    OBVIOUS
<1> USE DEF Init
<1>1. EndedIsQuiet /\ TellersWait /\ PlanAhead /\ SucceededMeansDone
    BY DEF EndedIsQuiet, TellersWait, PlanAhead, SucceededMeansDone, Ended
<1>2. ChargedStages
    BY DEF ChargedStages
<1>3. StoryFits
    BY DEF StoryFits, OneStory, Spoken, News
<1> QED
    BY <1>1, <1>2, <1>3 DEF RunFits, WholeRun

\* And every step keeps it.
LEMMA RunHolds == Spec => []RunInv
<1>1. Init => RunFits
    BY RunAtFirst
<1>2. OrderInv /\ SettleInv /\ RunInv /\ [Next]_vars /\ OrderInv' /\ SettleInv' => RunInv'
    <2> SUFFICES ASSUME OrderInv, SettleInv, RunInv, [Next]_vars, OrderInv', SettleInv'
                 PROVE  RunFits'
        BY DEF RunInv
    <2>1. CASE Next
        <3>1. UNCHANGED fixed
            BY <2>1, FixedStays
        <3>2. /\ Typed /\ RowsFit /\ Order /\ TellersWait /\ StoryFits
              /\ Order' /\ SucceededStays'
            BY DEF RunInv, RunFits, OrderInv, Order
        <3>3. TellersWait' /\ StoryFits'
            BY <2>1, <3>2, TellersStillWait, StoryStillFits
        <3>4. ASSUME ~DiesUnsaved PROVE WholeRun'
            <4>1. ChargedOnce /\ EndedIsQuiet /\ PlanAhead /\ ChargedStages /\ SucceededMeansDone
                BY <3>4 DEF RunInv, RunFits, WholeRun, SettleInv
            <4>2. EndedIsQuiet' /\ PlanAhead' /\ ChargedStages'
                BY <2>1, <3>1, <3>2, <3>4, <4>1, StillQuiet, PlanStaysAhead, ChargedStay
            <4> QED
                BY <2>1, <3>1, <3>2, <4>1, <4>2, SuccessIsWhole DEF WholeRun
        <3>5. DiesUnsaved' <=> DiesUnsaved
            BY <3>1 DEF DiesUnsaved, fixed
        <3> QED
            BY <3>3, <3>4, <3>5 DEF RunFits
    <2>2. CASE UNCHANGED vars
        <3>1. RunFits
            BY DEF RunInv
        <3>2. UNCHANGED <<faults, run, session, sweep, pc, final, told, control, step, carries,
                          charged, actor, disp, lease, jobs>>
            BY <2>2 DEF vars
        <3>3. TellersWait' /\ StoryFits' /\ DiesUnsaved' = DiesUnsaved
            BY <3>1, <3>2 DEF RunFits, TellersWait, StoryFits, OneStory, Spoken, AllStill,
               Still, Quiet, NobodyEnqueues, DiesUnsaved
        <3>4. Last' = Last /\ Actions' = Actions
            BY <3>2 DEF Last, StageOf, Actions
        <3>5. WholeRun => WholeRun'
            BY <3>2, <3>4 DEF WholeRun, EndedIsQuiet, AllQuiet, Quiet, NobodyEnqueues,
               PlanAhead, ChargedStages, SucceededMeansDone
        <3> QED
            BY <3>1, <3>3, <3>5 DEF RunFits
    <2> QED
        BY <2>1, <2>2
<1> QED
    BY <1>1, <1>2, OrderHolds, SettleHolds, PTL DEF Spec, RunInv

\* A run that reports success did all of its declared actions, stage by stage,
\* and each stage was charged once (automation-run-coordinator.ts), for every plan
\* and however many dispatchers, crashes, redeliveries, sweeps, cancellations and
\* lost replies; except where a last update of a worker fails and the process that
\* goes on without it dies: then a completed stage is charged again.
THEOREM SuccessMeansDone ==
    ASSUME \A f \in FaultSets : ~({"saveFails", "crashReporting"} \subseteq f)
    PROVE  Spec => []SucceededMeansDone
<1>1. RunInv => SucceededMeansDone
    BY DEF RunInv, RunFits, WholeRun, OrderInv, Typed, DiesUnsaved
<1> QED
    BY <1>1, RunHolds, PTL

\* The person hears of a run once at most, from the last worker or from the sweep
\* that failed it, and hears what the run became, whatever fails.
THEOREM RunsTellOneStory == Spec => []OneStory
<1>1. RunInv => OneStory
    BY DEF RunInv, RunFits, StoryFits
<1> QED
    BY <1>1, RunHolds, PTL

\* A run that ended is not begun again, failed after a success or reported done
\* after a failure: when it ends nobody else is at it, and nobody can come to it;
\* with the exception of SuccessMeansDone, whose resumed worker writes it again.
THEOREM EndedRunsStay ==
    ASSUME \A f \in FaultSets : ~({"saveFails", "crashReporting"} \subseteq f)
    PROVE  Spec => EndedRunStays
<1>1. RunInv /\ [Next]_vars => [(run \in Ended) => run' = run]_vars
    <2> SUFFICES ASSUME RunInv, Next, run \in Ended PROVE run' = run
        BY DEF vars
    <2>1. Typed /\ RowsFit /\ AllQuiet
        BY DEF RunInv, RunFits, WholeRun, EndedIsQuiet, OrderInv, Typed, DiesUnsaved
    <2> QED
        BY <2>1, EndedStays
<1> QED
    BY <1>1, RunHolds, PTL DEF Spec, EndedRunStays

=============================================================================
