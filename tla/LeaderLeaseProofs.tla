------------------------- MODULE LeaderLeaseProofs -------------------------
(***************************************************************************)
(* The election, for any number of instances, any heartbeat shorter than   *)
(* the lease and any delay shorter than the heartbeat: how far a leader    *)
(* can outlive its lease, and what a stopped instance leaves behind.       *)
(***************************************************************************)
EXTENDS LeaderLease, TLAPS

LEMMA CapBounds == Cap \in Nat /\ Cap > TTL
BY LeaseAssumption DEF Cap

\* What time does to an interval that is no longer told apart beyond Cap.
LEMMA OlderBounds ==
    ASSUME NEW t \in 0 .. Cap
    PROVE  /\ Older(t) \in 0 .. Cap
           /\ Older(t) =< t + 1
           /\ t < Cap => Older(t) = t + 1
BY CapBounds DEF Older

LEMMA OlderMonotone ==
    ASSUME NEW s \in 0 .. Cap, NEW t \in 0 .. Cap
    PROVE  /\ s >= t => Older(s) >= Older(t)
           /\ \A d \in Nat : s =< t + d => Older(s) =< Older(t) + d
BY CapBounds DEF Older

-----------------------------------------------------------------------------
(* Types.                                                                  *)

LEMMA InitTyped == Init => TypeOK
BY LeaseAssumption, CapBounds DEF Init, TypeOK, Phases, Answers, Mishaps

LEMMA StepTyped == TypeOK /\ [Next]_vars => TypeOK'
<1> SUFFICES ASSUME TypeOK, [Next]_vars PROVE TypeOK'
  OBVIOUS
<1> USE LeaseAssumption, CapBounds
<1>1. CASE Tick
  <2>1. waited' \in [Inst -> 0 .. Delay]
    BY <1>1 DEF TypeOK, Tick, Overdue
  <2>2. clock' \in [Inst -> 0 .. Heartbeat]
    <3> SUFFICES ASSUME NEW i \in Inst
                 PROVE  (IF phase[i] = "on" THEN clock[i] + 1 ELSE clock[i]) \in 0 .. Heartbeat
      BY <1>1 DEF Tick
    <3>1. clock[i] \in 0 .. Heartbeat /\ (phase[i] = "on" => clock[i] # Heartbeat)
      BY <1>1 DEF TypeOK, Tick, Overdue, Due
    <3>2. QED
      BY <3>1
  <2>3. quiet' \in [Inst -> 0 .. Cap] /\ age' \in [Inst -> 0 .. Cap]
    BY <1>1, OlderBounds DEF TypeOK, Tick
  <2>4. left' \in -1 .. TTL
    BY <1>1 DEF TypeOK, Tick
  <2>5. QED
    BY <1>1, <2>1, <2>2, <2>3, <2>4 DEF TypeOK, Tick, engineVars, failVars
<1>2. ASSUME NEW i \in Inst, Scheduler(i) PROVE TypeOK'
  <2>1. CASE Started(i)
    BY <2>1 DEF TypeOK, Started, rowVars, electionVars, failVars
  <2>2. CASE StartFails(i)
    <3>1. fails' \in 0 .. MaxFails /\ mishaps' \in [Inst -> SUBSET Mishaps]
      BY <2>2 DEF TypeOK, StartFails, Fails, Mishaps
    <3>2. starts' \in [Inst -> 0 .. MaxStarts]
      BY <2>2 DEF TypeOK, StartFails
    <3>3. UNCHANGED <<rowVars, electionVars, timer, age>>
      BY <2>2 DEF StartFails
    <3>4. QED
      BY <3>1, <3>2, <3>3 DEF TypeOK, rowVars, electionVars
  <2>3. QED
    BY <1>2, <2>1, <2>2 DEF Scheduler
<1>3. ASSUME NEW i \in Inst, Election(i) PROVE TypeOK'
  <2>1. CASE Launch(i) \/ Pulse(i)
    <3>1. clock' \in [Inst -> 0 .. Heartbeat] /\ waited' \in [Inst -> 0 .. Delay]
      BY <2>1 DEF TypeOK, Launch, Pulse, Beat
    <3>2. ask' \in [Inst -> Answers]
      BY <2>1 DEF TypeOK, Launch, Pulse, Beat, Answers
    <3>3. phase' \in [Inst -> Phases] /\ quiet' \in [Inst -> 0 .. Cap]
      BY <2>1 DEF TypeOK, Launch, Pulse, Phases
    <3>4. QED
      BY <2>1, <3>1, <3>2, <3>3
      DEF TypeOK, Launch, Pulse, rowVars, engineVars, failVars
  <2>2. CASE Execute(i)
    <3>1. ask' \in [Inst -> Answers]
      BY <2>2 DEF TypeOK, Execute, Answers
    <3>2. /\ holder' \in Inst \cup {None} /\ left' \in -1 .. TTL
          /\ age' \in [Inst -> 0 .. Cap]
      BY <2>2 DEF TypeOK, Execute, rowVars
    <3>3. QED
      BY <2>2, <3>1, <3>2 DEF TypeOK, Execute, engineVars, failVars
  <2>3. CASE Reply(i)
    <3>1. starts' \in [Inst -> 0 .. MaxStarts] /\ timer' \in [Inst -> BOOLEAN]
      <4>1. UNCHANGED engineVars \/ Start(i) \/ StopAll(i)
        BY <2>3 DEF Reply
      <4>2. CASE UNCHANGED engineVars \/ StopAll(i)
        BY <4>2 DEF TypeOK, StopAll, engineVars
      <4>3. CASE Start(i)
        BY <4>3 DEF TypeOK, Start
      <4>4. QED
        BY <4>1, <4>2, <4>3
    <3>2. leader' \in [Inst -> BOOLEAN]
      BY <2>3 DEF TypeOK, Reply
    <3>3. ask' \in [Inst -> Answers] /\ waited' \in [Inst -> 0 .. Delay]
      BY <2>3 DEF TypeOK, Reply, Answered, Answers
    <3>4. quiet' \in [Inst -> 0 .. Cap]
      BY <2>3 DEF TypeOK, Reply
    <3>5. UNCHANGED <<rowVars, phase, clock, failVars, age>>
      BY <2>3 DEF Reply
    <3>6. QED
      BY <3>1, <3>2, <3>3, <3>4, <3>5 DEF TypeOK, rowVars, failVars
  <2>4. CASE Fail(i)
    <3>1. /\ starts' \in [Inst -> 0 .. MaxStarts] /\ timer' \in [Inst -> BOOLEAN]
          /\ leader' \in [Inst -> BOOLEAN]
      BY <2>4 DEF TypeOK, Fail, StopAll, engineVars
    <3>2. fails' \in 0 .. MaxFails /\ mishaps' \in [Inst -> SUBSET Mishaps]
      BY <2>4 DEF TypeOK, Fail, Fails, Mishaps
    <3>3. ask' \in [Inst -> Answers] /\ waited' \in [Inst -> 0 .. Delay]
      BY <2>4 DEF TypeOK, Fail, Answered, Answers
    <3>4. UNCHANGED <<rowVars, phase, clock, quiet, age>>
      BY <2>4 DEF Fail
    <3>5. QED
      BY <3>1, <3>2, <3>3, <3>4 DEF TypeOK, rowVars
  <2>5. QED
    BY <1>3, <2>1, <2>2, <2>3, <2>4 DEF Election
<1>4. ASSUME NEW i \in Inst, Shutdown(i) PROVE TypeOK'
  <2>1. CASE Crash(i) \/ Unheard(i)
    <3>1. ask' \in [Inst -> Answers] /\ waited' \in [Inst -> 0 .. Delay]
      <4>1. UNCHANGED <<ask, waited>> \/ Answered(i)
        BY <2>1 DEF Crash, Unheard, Answered
      <4>2. QED
        BY <4>1 DEF TypeOK, Answered, Answers
    <3>2. starts' \in [Inst -> 0 .. MaxStarts] /\ timer' \in [Inst -> BOOLEAN]
      <4>1. CASE Crash(i)
        BY <4>1 DEF TypeOK, Crash
      <4>2. CASE Unheard(i)
        BY <4>2 DEF TypeOK, Unheard, engineVars
      <4>3. QED
        BY <2>1, <4>1, <4>2
    <3>3. phase' \in [Inst -> Phases] /\ leader' \in [Inst -> BOOLEAN]
      BY <2>1 DEF TypeOK, Crash, Unheard, Phases
    <3>4. /\ clock' \in [Inst -> 0 .. Heartbeat]
          /\ quiet' \in [Inst -> 0 .. Cap] /\ age' \in [Inst -> 0 .. Cap]
      BY <2>1 DEF TypeOK, Crash, Unheard, Forgotten
    <3>5. UNCHANGED <<rowVars, failVars>>
      BY <2>1 DEF Crash, Unheard
    <3>6. QED
      BY <3>1, <3>2, <3>3, <3>4, <3>5 DEF TypeOK, rowVars, failVars
  <2>2. CASE Stop(i)
    BY <2>2 DEF TypeOK, Stop, rowVars, engineVars, failVars, Phases
  <2>3. CASE Depart(i)
    <3>1. quiet' \in [Inst -> 0 .. Cap] /\ age' \in [Inst -> 0 .. Cap]
      BY <2>3 DEF TypeOK, Depart, Forgotten
    <3>2. phase' \in [Inst -> Phases] /\ leader' \in [Inst -> BOOLEAN]
      BY <2>3 DEF TypeOK, Depart, Phases
    <3>3. starts' \in [Inst -> 0 .. MaxStarts] /\ timer' \in [Inst -> BOOLEAN]
      BY <2>3 DEF TypeOK, Depart, StopAll, engineVars
    <3>4. UNCHANGED <<rowVars, clock, ask, waited, failVars>>
      BY <2>3 DEF Depart
    <3>5. QED
      BY <3>1, <3>2, <3>3, <3>4 DEF TypeOK, rowVars, failVars
  <2>4. CASE Release(i) \/ ReleaseFails(i)
    BY <2>4 DEF TypeOK, Release, ReleaseFails, rowVars, engineVars, failVars, Phases
  <2>5. QED
    BY <1>4, <2>1, <2>2, <2>3, <2>4 DEF Shutdown
<1>5. CASE UNCHANGED vars
  BY <1>5 DEF TypeOK, vars, rowVars, electionVars, engineVars, failVars
<1>6. QED
  BY <1>1, <1>2, <1>3, <1>4, <1>5 DEF Next

\* Every state of the election is well typed.
THEOREM LeaseTypes == Spec => []TypeOK
<1>1. Init => TypeOK
  BY InitTyped
<1>2. TypeOK /\ [Next]_vars => TypeOK'
  BY StepTyped
<1>3. QED
  BY <1>1, <1>2, PTL DEF Spec

-----------------------------------------------------------------------------
(* How long a leader can outlive its lease.  Between two heartbeats it has *)
(* heard from the database, or failed to and found that recent enough; and *)
(* what it heard last was the confirmation of a renewal.                   *)

LeadInv(i) ==
    /\ phase[i] = "off" => ~leader[i]
    /\ ask[i] = "held" => age[i] =< waited[i]
    /\ phase[i] = "on" /\ ask[i] # "none" => waited[i] = clock[i]
    /\ leader[i] /\ phase[i] = "on" =>
           /\ age[i] =< quiet[i] + Delay
           /\ ask[i] = "none" => quiet[i] < TTL - Heartbeat + clock[i]
           /\ ask[i] # "none" => quiet[i] < TTL + waited[i]

LeadersInv == \A i \in Inst : LeadInv(i)

\* What a step of instance j leaves of another's clocks and answers.
Elsewhere(i) == UNCHANGED <<phase[i], clock[i], ask[i], waited[i], quiet[i],
                            leader[i], age[i], mishaps[i]>>

LEMMA StepsAreLocal ==
    ASSUME TypeOK, NEW j \in Inst, NEW i \in Inst \ {j},
           Scheduler(j) \/ Election(j) \/ Shutdown(j)
    PROVE  Elsewhere(i)
<1>1. CASE Scheduler(j)
  BY <1>1 DEF TypeOK, Elsewhere, Scheduler, Started, StartFails, Fails, electionVars, failVars
<1>2. CASE Launch(j) \/ Pulse(j) \/ Execute(j)
  BY <1>2 DEF TypeOK, Elsewhere, Launch, Pulse, Execute, Beat, failVars
<1>3. CASE Reply(j)
  BY <1>3 DEF TypeOK, Elsewhere, Reply, Answered, failVars
<1>4. CASE Fail(j)
  BY <1>4 DEF TypeOK, Elsewhere, Fail, Fails, Answered
<1>5. CASE Stop(j) \/ Depart(j) \/ Release(j) \/ ReleaseFails(j)
  BY <1>5 DEF TypeOK, Elsewhere, Stop, Depart, Release, ReleaseFails, Forgotten, failVars
<1>6. CASE Crash(j) \/ Unheard(j)
  BY <1>6 DEF TypeOK, Elsewhere, Crash, Unheard, Answered, Forgotten, failVars
<1>7. QED
  BY <1>1, <1>2, <1>3, <1>4, <1>5, <1>6 DEF Election, Shutdown

LEMMA InitLeaders == Init => LeadersInv
BY DEF Init, LeadersInv, LeadInv

LEMMA TickLeaders ==
    ASSUME TypeOK, Tick, NEW i \in Inst, LeadInv(i)
    PROVE  LeadInv(i)'
<1> USE LeaseAssumption, CapBounds
<1> DEFINE q == quiet[i]
           a == age[i]
<1>1. /\ phase[i] = "on" => quiet'[i] = Older(q)
      /\ age'[i] = Older(a) \/ age'[i] = a
      /\ phase[i] = "on" => age'[i] = Older(a)
      /\ UNCHANGED <<phase[i], ask[i], leader[i]>>
      /\ waited'[i] = IF ask[i] = "none" THEN 0 ELSE waited[i] + 1
      /\ phase[i] = "on" => clock'[i] = clock[i] + 1
  BY DEF Tick, TypeOK, Awaiting
<1>2. /\ q \in 0 .. Cap /\ a \in 0 .. Cap
      /\ waited[i] \in 0 .. Delay /\ clock[i] \in 0 .. Heartbeat
  BY DEF TypeOK
<1>3. Older(q) =< q + 1 /\ Older(a) =< a + 1
  BY <1>2, OlderBounds
<1>4. a =< q + Delay => Older(a) =< Older(q) + Delay
  BY <1>2, OlderMonotone
<1>5. Older(q) \in Int /\ Older(a) \in Int
  BY <1>2, OlderBounds
<1> HIDE DEF q, a
<1>6. ask[i] = "held" => age'[i] =< waited'[i]
  BY <1>1, <1>2, <1>3, <1>5 DEF LeadInv, a
<1>7. QED
  BY <1>1, <1>2, <1>3, <1>4, <1>5, <1>6 DEF LeadInv, a, q

LEMMA OwnStepLeads ==
    ASSUME TypeOK, NEW i \in Inst, LeadInv(i), Scheduler(i) \/ Election(i) \/ Shutdown(i)
    PROVE  LeadInv(i)'
<1> USE LeaseAssumption, CapBounds
<1>0. /\ quiet[i] \in 0 .. Cap /\ age[i] \in 0 .. Cap
      /\ waited[i] \in 0 .. Delay /\ clock[i] \in 0 .. Heartbeat
      /\ ask[i] \in Answers /\ leader[i] \in BOOLEAN
  BY DEF TypeOK
<1>1. CASE Scheduler(i)
  BY <1>1 DEF LeadInv, Scheduler, Started, StartFails, electionVars
<1>2. CASE Launch(i)
  <2>1. /\ ~leader'[i] /\ phase'[i] = "on" /\ ask'[i] = "sent"
        /\ waited'[i] = 0 /\ clock'[i] = 0
    BY <1>2 DEF TypeOK, Launch, Beat, LeadInv
  <2>2. QED
    BY <2>1 DEF LeadInv
<1>3. CASE Pulse(i)
  <2>1. /\ clock[i] = Heartbeat /\ phase[i] = "on" /\ ask'[i] = "sent"
        /\ waited'[i] = 0 /\ clock'[i] = 0
        /\ UNCHANGED <<phase, quiet, leader, age>>
    BY <1>3 DEF TypeOK, Pulse, Due, Beat
  <2>2. leader[i] => quiet[i] < TTL
    <3>1. CASE ask[i] = "none"
      BY <1>0, <2>1, <3>1 DEF LeadInv
    <3>2. CASE ask[i] # "none"
      BY <1>0, <2>1, <3>2 DEF LeadInv   \* it would have waited a heartbeat
    <3>3. QED
      BY <3>1, <3>2
  <2>3. QED
    BY <1>0, <2>1, <2>2 DEF LeadInv
<1>4. CASE Execute(i)
  <2>1. /\ ask[i] = "sent" /\ ask'[i] \in {"held", "refused"}
        /\ UNCHANGED <<phase, clock, waited, quiet, leader>>
    BY <1>4 DEF TypeOK, Execute
  <2>2. age'[i] = 0 \/ (ask'[i] = "refused" /\ age'[i] = age[i])
    <3>1. CASE MayTake(i)
      BY <1>4, <3>1 DEF TypeOK, Execute
    <3>2. CASE ~MayTake(i)
      BY <1>4, <3>2 DEF TypeOK, Execute
    <3>3. QED
      BY <3>1, <3>2
  <2>3. QED
    BY <1>0, <2>1, <2>2 DEF LeadInv
<1>5. CASE Reply(i)
  <2>1. /\ ask'[i] = "none" /\ quiet'[i] = 0
        /\ leader'[i] <=> ask[i] = "held"
        /\ UNCHANGED <<phase, clock, age>>
    BY <1>5 DEF TypeOK, Reply, Answered
  <2>2. phase'[i] # "off"
    BY <1>5 DEF Reply, Awaiting
  <2>3. QED
    BY <1>0, <2>1, <2>2 DEF LeadInv
<1>6. CASE Fail(i)
  <2>1. /\ ask'[i] = "none" /\ leader'[i] \in BOOLEAN
        /\ leader'[i] => leader[i] /\ ~Lapsing(i)
        /\ UNCHANGED <<phase, clock, quiet, age>>
    BY <1>6 DEF TypeOK, Fail, Answered
  <2>2. QED
    BY <1>0, <2>1 DEF LeadInv, Lapsing
<1>7. CASE Shutdown(i)
  <2>1. CASE Stop(i) \/ Depart(i) \/ Release(i) \/ ReleaseFails(i)
    <3>1. phase'[i] \notin {"on", "off"} /\ UNCHANGED <<ask, waited>>
      BY <2>1 DEF TypeOK, Stop, Depart, Release, ReleaseFails
    <3>2. age'[i] \in {0, age[i]}
      BY <2>1 DEF TypeOK, Stop, Depart, Release, ReleaseFails, Forgotten
    <3>3. QED
      BY <1>0, <3>1, <3>2 DEF LeadInv
  <2>2. CASE Crash(i) \/ Unheard(i)
    <3>1. phase'[i] = "crashed" /\ ask'[i] # "held"
      BY <2>2 DEF TypeOK, Crash, Unheard, Answered
    <3>2. QED
      BY <3>1 DEF LeadInv
  <2>3. QED
    BY <1>7, <2>1, <2>2 DEF Shutdown
<1>8. QED
  BY <1>1, <1>2, <1>3, <1>4, <1>5, <1>6, <1>7 DEF Election

LEMMA StepLeaders == TypeOK /\ LeadersInv /\ [Next]_vars => LeadersInv'
<1> SUFFICES ASSUME TypeOK, LeadersInv, [Next]_vars, NEW i \in Inst PROVE LeadInv(i)'
  BY DEF LeadersInv
<1>1. LeadInv(i)
  BY DEF LeadersInv
<1>2. CASE Tick
  BY <1>1, <1>2, TickLeaders
<1>3. CASE Scheduler(i) \/ Election(i) \/ Shutdown(i)
  BY <1>1, <1>3, OwnStepLeads
<1>4. ASSUME NEW j \in Inst \ {i}, Scheduler(j) \/ Election(j) \/ Shutdown(j)
      PROVE  LeadInv(i)'
  <2>1. Elsewhere(i)
    BY <1>4, StepsAreLocal
  <2>2. QED
    BY <1>1, <2>1 DEF LeadInv, Elsewhere
<1>5. CASE UNCHANGED vars
  BY <1>1, <1>5 DEF LeadInv, vars, electionVars
<1>6. QED
  BY <1>2, <1>3, <1>4, <1>5 DEF Next

\* However heartbeats are delayed or fail, a competing leader took its lease
\* less than the lease's length and two delays ago.
THEOREM LeaderIsNearItsLease == Spec => []LeaderNearLease
<1>1. TypeOK /\ LeadersInv => LeaderNearLease
  <2> SUFFICES ASSUME TypeOK, LeadersInv, NEW i \in Inst, leader[i], phase[i] = "on"
               PROVE  age[i] < TTL + 2 * Delay
    BY DEF LeaderNearLease
  <2>1. /\ quiet[i] \in 0 .. Cap /\ age[i] \in 0 .. Cap
        /\ waited[i] \in 0 .. Delay /\ clock[i] \in 0 .. Heartbeat
    BY DEF TypeOK
  <2>2. age[i] =< quiet[i] + Delay /\ quiet[i] < TTL + Delay
    BY <2>1, LeaseAssumption, CapBounds DEF LeadersInv, LeadInv
  <2>3. QED
    BY <2>1, <2>2, LeaseAssumption, CapBounds
<1>2. QED
  BY <1>1, InitTyped, StepTyped, InitLeaders, StepLeaders, PTL DEF Spec

-----------------------------------------------------------------------------
(* What a stopped instance leaves.  While it leads, its last renewal is at *)
(* least as old as the answer that confirmed it, so that when it gives up  *)
(* on the database there is no more than a heartbeat left of its lease.    *)

Heard(i)  == "lostReply" \notin mishaps[i]
Mine(i)   == holder = i /\ left >= 0

StopInv(i) ==
    /\ Mine(i) /\ Awaiting(i) => left + age[i] = TTL
    /\ ask[i] = "refused" => holder # i
    /\ phase[i] = "off" => holder # i
    /\ phase[i] \notin {"on", "stopping"} => ~leader[i]
    /\ phase[i] \notin {"on", "stopping", "crashed"} => ask[i] = "none"
    /\ phase[i] \in {"on", "stopping"} /\ Heard(i) /\ leader[i] /\ ask[i] # "held"
           => age[i] >= quiet[i]
    /\ phase[i] \in {"on", "stopping", "stopped"} /\ Heard(i) /\ ~leader[i]
           /\ ask[i] # "held" /\ holder = i => left =< Heartbeat

StopsInv == \A i \in Inst : StopInv(i)

LEMMA InitStops == Init => StopsInv
BY LeaseAssumption DEF Init, StopsInv, StopInv, Mine, Heard

LEMMA TickStops ==
    ASSUME TypeOK, Tick, NEW i \in Inst, StopInv(i)
    PROVE  StopInv(i)'
<1> USE LeaseAssumption, CapBounds
<1>1. /\ Awaiting(i) => quiet'[i] = Older(quiet[i]) /\ age'[i] = Older(age[i])
      /\ UNCHANGED <<holder, phase, ask, leader, mishaps>>
      /\ left' = IF left < 0 THEN left ELSE left - 1
  BY DEF Tick, TypeOK, failVars
<1>2. quiet[i] \in 0 .. Cap /\ age[i] \in 0 .. Cap /\ left \in -1 .. TTL
  BY DEF TypeOK
<1>3. (Mine(i) /\ Awaiting(i) => left + age[i] = TTL)'
  <2> SUFFICES ASSUME Mine(i)', Awaiting(i)' PROVE left' + age'[i] = TTL
    OBVIOUS
  <2>1. Mine(i) /\ Awaiting(i) /\ left' = left - 1
    BY <1>1, <1>2 DEF Mine, Awaiting
  <2>2. age[i] < Cap
    BY <1>2, <2>1 DEF StopInv, Mine
  <2>3. age'[i] = age[i] + 1
    BY <1>1, <1>2, <2>1, <2>2, OlderBounds
  <2>4. QED
    BY <1>2, <2>1, <2>3 DEF StopInv
<1>4. Awaiting(i) /\ age[i] >= quiet[i] => age'[i] >= quiet'[i]
  BY <1>1, <1>2, OlderMonotone
<1>5. left =< Heartbeat => left' =< Heartbeat
  BY <1>1, <1>2
<1>6. QED
  BY <1>1, <1>3, <1>4, <1>5 DEF StopInv, Heard, Awaiting

\* The step of another instance: it takes the lease, or leaves it alone.
LEMMA OthersStop ==
    ASSUME TypeOK, NEW i \in Inst, NEW j \in Inst \ {i}, StopInv(i),
           Scheduler(j) \/ Election(j) \/ Shutdown(j)
    PROVE  StopInv(i)'
<1>1. Elsewhere(i)
  BY StepsAreLocal
<1>2. holder' # i \/ (UNCHANGED holder /\ holder = i /\ UNCHANGED left)
  <2>1. CASE Scheduler(j)
    BY <2>1 DEF Scheduler, Started, StartFails, rowVars
  <2>2. CASE Launch(j) \/ Pulse(j) \/ Reply(j) \/ Fail(j)
    BY <2>2 DEF Launch, Pulse, Reply, Fail, rowVars
  <2>3. CASE Execute(j)
    BY <2>3 DEF Execute, rowVars
  <2>4. CASE Shutdown(j)
    BY <2>4 DEF Shutdown, Stop, Depart, Release, ReleaseFails, Crash, Unheard, rowVars
  <2>5. QED
    BY <2>1, <2>2, <2>3, <2>4 DEF Election
<1>3. CASE holder' # i
  BY <1>1, <1>3 DEF StopInv, Elsewhere, Mine, Heard, Awaiting
<1>4. CASE UNCHANGED <<holder, left>>
  BY <1>1, <1>4 DEF StopInv, Elsewhere, Mine, Heard, Awaiting
<1>5. QED
  BY <1>2, <1>3, <1>4

LEMMA OwnStepStops ==
    ASSUME TypeOK, NEW i \in Inst, LeadInv(i), StopInv(i),
           Scheduler(i) \/ Election(i) \/ Shutdown(i)
    PROVE  StopInv(i)'
<1> USE LeaseAssumption, CapBounds
<1>0. /\ quiet[i] \in 0 .. Cap /\ age[i] \in 0 .. Cap /\ left \in -1 .. TTL
      /\ ask[i] \in Answers /\ leader[i] \in BOOLEAN /\ phase[i] \in Phases
  BY DEF TypeOK
<1>1. CASE Scheduler(i)
  <2>1. /\ UNCHANGED <<rowVars, electionVars, age>>
        /\ Heard(i)' => Heard(i)
    BY <1>1 DEF TypeOK, Scheduler, Started, StartFails, Fails, Heard, failVars
  <2>2. QED
    BY <2>1 DEF StopInv, Mine, Awaiting, rowVars, electionVars
<1>2. CASE Launch(i) \/ Pulse(i)
  <2>1. ask'[i] = "sent" /\ phase'[i] = "on" /\ UNCHANGED <<rowVars, leader, mishaps, age>>
    BY <1>2 DEF TypeOK, Launch, Pulse, Due, Beat, failVars
  <2>2. CASE Launch(i)
    <3>1. holder # i /\ ~leader[i]
      BY <2>2 DEF Launch, StopInv
    <3>2. QED
      BY <2>1, <3>1 DEF StopInv, Mine, Awaiting, rowVars
  <2>3. CASE Pulse(i)
    <3>1. phase[i] = "on" /\ UNCHANGED quiet
      BY <2>3 DEF Pulse, Due
    <3>2. clock[i] = Heartbeat
      BY <2>3 DEF Pulse, Due
    <3>3. ask[i] = "none"
      BY <3>1, <3>2 DEF TypeOK, LeadInv   \* or it would have waited a heartbeat
    <3>4. QED
      BY <2>1, <3>1, <3>3 DEF StopInv, Mine, Awaiting, Heard, rowVars
  <2>4. QED
    BY <1>2, <2>2, <2>3
<1>3. CASE Execute(i)
  <2>0. ask[i] = "sent" /\ UNCHANGED <<phase, quiet, leader, mishaps>>
    BY <1>3 DEF Execute, failVars
  <2>1. CASE MayTake(i)
    <3>1. ask'[i] = "held" /\ holder' = i /\ left' = TTL /\ age'[i] = 0
      BY <1>3, <2>1 DEF TypeOK, Execute
    <3>2. phase[i] # "off" /\ phase[i] \in {"on", "stopping", "crashed"}
      BY <2>0 DEF StopInv
    <3>3. QED
      BY <1>0, <2>0, <3>1, <3>2 DEF StopInv, Mine, Awaiting
  <2>2. CASE ~MayTake(i)
    <3>1. ask'[i] = "refused" /\ holder # i /\ UNCHANGED <<holder, left, age>>
      BY <1>3, <2>2 DEF TypeOK, Execute, MayTake, rowVars
    <3>2. phase[i] \in {"on", "stopping", "crashed"}
      BY <2>0 DEF StopInv
    <3>3. QED
      BY <1>0, <2>0, <3>1, <3>2 DEF StopInv, Mine, Awaiting, Heard
  <2>3. QED
    BY <2>1, <2>2
<1>4. CASE Reply(i)
  <2>1. /\ ask'[i] = "none" /\ quiet'[i] = 0
        /\ leader'[i] <=> ask[i] = "held"
        /\ ~leader'[i] => ask[i] = "refused"
        /\ UNCHANGED <<holder, left, phase, mishaps, age>>
    BY <1>4 DEF TypeOK, Reply, Answered, rowVars, failVars
  <2>2. phase[i] \in {"on", "stopping"}
    BY <1>4 DEF Reply, Awaiting
  <2>3. QED
    BY <1>0, <2>1, <2>2 DEF StopInv, Mine, Awaiting
<1>5. CASE Fail(i)
  <2>1. /\ ask'[i] = "none"
        /\ UNCHANGED <<holder, left, phase, quiet, age>>
        /\ phase[i] \in {"on", "stopping"}
    BY <1>5 DEF TypeOK, Fail, Answered, Awaiting, rowVars
  <2>2. Heard(i)' => Heard(i) /\ ask[i] = "sent"
    BY <1>5 DEF TypeOK, Fail, Fails, Heard
  <2>3. \/ leader[i] /\ ~leader'[i] /\ quiet[i] >= TTL - Heartbeat
        \/ leader'[i] = leader[i]
    BY <1>5 DEF TypeOK, Fail, Lapsing
  <2>4. CASE leader[i] /\ ~leader'[i] /\ quiet[i] >= TTL - Heartbeat
    <3>1. Heard(i)' /\ holder = i => left =< Heartbeat
      <4> SUFFICES ASSUME Heard(i)', holder = i, left >= 0 PROVE left =< Heartbeat
        BY <1>0
      <4>1. left + age[i] = TTL /\ age[i] >= quiet[i]
        BY <2>1, <2>2, <2>4 DEF StopInv, Mine, Awaiting
      <4>2. QED
        BY <1>0, <2>4, <4>1
    <3>2. QED
      BY <2>1, <2>4, <3>1 DEF StopInv, Mine, Awaiting
  <2>5. CASE leader'[i] = leader[i]
    BY <2>1, <2>2, <2>5 DEF StopInv, Mine, Awaiting
  <2>6. QED
    BY <2>3, <2>4, <2>5
<1>6. CASE Stop(i)
  <2>1. phase[i] = "on" /\ phase'[i] = "stopping"
        /\ UNCHANGED <<holder, left, ask, quiet, leader, mishaps, age>>
    BY <1>6 DEF TypeOK, Stop, rowVars, failVars
  <2>2. QED
    BY <2>1 DEF StopInv, Mine, Heard, Awaiting
<1>7. CASE Depart(i)
  <2>1. /\ phase[i] = "stopping" /\ ask[i] = "none" /\ ~leader'[i]
        /\ phase'[i] = IF leader[i] THEN "releasing" ELSE "stopped"
        /\ UNCHANGED <<holder, left, ask, mishaps>>
    BY <1>7 DEF TypeOK, Depart, Settled, rowVars, failVars
  <2>2. QED
    BY <2>1 DEF StopInv, Mine, Heard, Awaiting
<1>8. CASE Release(i)
  <2>1. /\ phase[i] = "releasing" /\ phase'[i] = "stopped"
        /\ left' = IF holder = i THEN -1 ELSE left
        /\ UNCHANGED <<holder, ask, leader, mishaps, age>>
    BY <1>8 DEF TypeOK, Release, failVars
  <2>2. QED
    BY <1>0, <2>1 DEF StopInv, Mine, Heard, Awaiting
<1>9. CASE ReleaseFails(i)
  <2>1. /\ phase[i] = "releasing" /\ phase'[i] = "unreleased"
        /\ UNCHANGED <<holder, left, ask, leader, mishaps, age>>
    BY <1>9 DEF TypeOK, ReleaseFails, rowVars, failVars
  <2>2. QED
    BY <2>1 DEF StopInv, Mine, Awaiting
<1>10. CASE Crash(i) \/ Unheard(i)
  <2>1. /\ phase'[i] = "crashed" /\ ~leader'[i]
        /\ ask'[i] = "refused" => ask[i] = "refused"
        /\ UNCHANGED <<holder, left>>
    <3>1. CASE Crash(i)
      BY <3>1 DEF TypeOK, Crash, Answered, rowVars
    <3>2. CASE Unheard(i)
      BY <3>2 DEF TypeOK, Unheard, Answered, rowVars, StopInv
    <3>3. QED
      BY <1>10, <3>1, <3>2
  <2>2. QED
    BY <2>1 DEF StopInv, Mine, Awaiting
<1>11. QED
  BY <1>1, <1>2, <1>3, <1>4, <1>5, <1>6, <1>7, <1>8, <1>9, <1>10 DEF Election, Shutdown

LEMMA StepStops == TypeOK /\ LeadersInv /\ StopsInv /\ [Next]_vars => StopsInv'
<1> SUFFICES ASSUME TypeOK, LeadersInv, StopsInv, [Next]_vars, NEW i \in Inst
             PROVE  StopInv(i)'
  BY DEF StopsInv
<1>1. LeadInv(i) /\ StopInv(i)
  BY DEF LeadersInv, StopsInv
<1>2. CASE Tick
  BY <1>1, <1>2, TickStops
<1>3. CASE Scheduler(i) \/ Election(i) \/ Shutdown(i)
  BY <1>1, <1>3, OwnStepStops
<1>4. ASSUME NEW j \in Inst \ {i}, Scheduler(j) \/ Election(j) \/ Shutdown(j)
      PROVE  StopInv(i)'
  BY <1>1, <1>4, OthersStop
<1>5. CASE UNCHANGED vars
  BY <1>1, <1>5 DEF StopInv, Mine, Heard, Awaiting, vars, rowVars, electionVars, failVars
<1>6. QED
  BY <1>2, <1>3, <1>4, <1>5 DEF Next

\* A stopped instance that heard every answer leaves its successor at most a
\* heartbeat of its lease to wait.
THEOREM StoppingLeavesLittle == Spec => []StopLeavesLittle
<1>1. TypeOK /\ StopsInv => StopLeavesLittle
  BY DEF TypeOK, StopsInv, StopInv, StopLeavesLittle, Heard
<1>2. QED
  BY <1>1, InitTyped, StepTyped, InitLeaders, StepLeaders, InitStops, StepStops, PTL DEF Spec

-----------------------------------------------------------------------------
(* The scheduler.  Only leaving the lead stops it.                         *)

LEMMA StepSchedules == TypeOK /\ LeaderHasScheduler /\ [Next]_vars => LeaderHasScheduler'
<1> SUFFICES ASSUME TypeOK, LeaderHasScheduler, [Next]_vars, NEW i \in Inst, leader'[i]
             PROVE  (timer[i] \/ starts[i] > 0 \/ "startFailed" \in mishaps[i])'
  BY DEF LeaderHasScheduler
<1> DEFINE Kept == /\ timer[i] => timer'[i]
                   /\ starts[i] > 0 => starts'[i] > 0
                   /\ "startFailed" \in mishaps[i] => "startFailed" \in mishaps'[i]
<1>1. leader[i] /\ Kept => (timer[i] \/ starts[i] > 0 \/ "startFailed" \in mishaps[i])'
  BY DEF LeaderHasScheduler
<1>2. CASE Tick \/ UNCHANGED vars
  <2>1. UNCHANGED <<leader, timer, starts, mishaps>>
    BY <1>2 DEF Tick, vars, electionVars, engineVars, failVars
  <2>2. QED
    BY <1>1, <2>1
<1>3. ASSUME NEW j \in Inst, Scheduler(j)
      PROVE  (timer[i] \/ starts[i] > 0 \/ "startFailed" \in mishaps[i])'
  <2>1. leader[i]
    BY <1>3 DEF Scheduler, Started, StartFails, electionVars
  <2>2. CASE Started(j)
    BY <1>1, <2>1, <2>2 DEF TypeOK, Started, failVars
  <2>3. CASE StartFails(j)
    BY <1>1, <2>1, <2>3 DEF TypeOK, StartFails, Fails
  <2>4. QED
    BY <1>3, <2>2, <2>3 DEF Scheduler
<1>4. ASSUME NEW j \in Inst, Election(j)
      PROVE  (timer[i] \/ starts[i] > 0 \/ "startFailed" \in mishaps[i])'
  <2>1. CASE Launch(j) \/ Pulse(j) \/ Execute(j)
    BY <1>1, <2>1 DEF Launch, Pulse, Execute, engineVars, failVars
  <2>2. CASE Reply(j)
    <3>1. CASE UNCHANGED engineVars /\ UNCHANGED leader[i]
      BY <1>1, <2>2, <3>1 DEF Reply, engineVars, failVars
    <3>2. CASE j # i
      <4>1. UNCHANGED <<leader[i], timer[i], starts[i], mishaps>>
        BY <2>2, <3>2 DEF TypeOK, Reply, Start, StopAll, engineVars, failVars
      <4>2. QED
        BY <1>1, <4>1
    <3>3. CASE j = i /\ Start(i)
      BY <3>3 DEF TypeOK, Start
    <3>4. QED
      BY <2>2, <3>1, <3>2, <3>3 DEF Reply
  <2>3. CASE Fail(j)
    <3>1. leader[i] /\ timer'[i] = timer[i] /\ UNCHANGED starts
      BY <2>3 DEF TypeOK, Fail, StopAll, engineVars
    <3>2. "startFailed" \in mishaps[i] => "startFailed" \in mishaps'[i]
      BY <2>3 DEF TypeOK, Fail, Fails
    <3>3. QED
      BY <1>1, <3>1, <3>2
  <2>4. QED
    BY <1>4, <2>1, <2>2, <2>3 DEF Election
<1>5. ASSUME NEW j \in Inst, Shutdown(j)
      PROVE  (timer[i] \/ starts[i] > 0 \/ "startFailed" \in mishaps[i])'
  <2>1. leader[i] /\ UNCHANGED <<timer[i], starts[i], mishaps>>
    <3>1. CASE Stop(j) \/ Release(j) \/ ReleaseFails(j) \/ Unheard(j)
      BY <1>5, <3>1 DEF Stop, Release, ReleaseFails, Unheard, engineVars, failVars
    <3>2. CASE Depart(j)
      BY <3>2 DEF TypeOK, Depart, StopAll, engineVars, failVars
    <3>3. CASE Crash(j)
      BY <3>3 DEF TypeOK, Crash, failVars
    <3>4. QED
      BY <1>5, <3>1, <3>2, <3>3 DEF Shutdown
  <2>2. QED
    BY <1>1, <2>1
<1>6. QED
  BY <1>2, <1>3, <1>4, <1>5 DEF Next

\* A leader has its scheduler, or a start of it in progress, unless one threw.
THEOREM LeadersSchedule == Spec => []LeaderHasScheduler
<1>1. Init => LeaderHasScheduler
  BY DEF Init, LeaderHasScheduler
<1>2. QED
  BY <1>1, InitTyped, StepTyped, StepSchedules, PTL DEF Spec

=============================================================================
