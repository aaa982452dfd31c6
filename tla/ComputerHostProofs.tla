------------------------- MODULE ComputerHostProofs -------------------------
(***************************************************************************)
(* Proofs about ComputerHost, for every number of calls, actors and        *)
(* operations, whatever the calls ask for.                                 *)
(***************************************************************************)
EXTENDS ComputerHost, FiniteSetTheorems, TLAPS

\* Where a call of each kind can be, and what it knows by then.
Fits(c) ==
    /\ pc[c] \in {"lookup", "judging", "stale"} => Kind(c) \in Commands \cup {"read"}
    /\ pc[c] \in {"inserting", "confirming"} => Kind(c) \in Commands
    /\ pc[c] \in {"waiting", "checking"} => Kind(c) \in Commands \cup {"file", "start"}
    /\ pc[c] = "creating" => Kind(c) = "start"
    /\ pc[c] \in {"launching", "ran"} => Kind(c) \in Commands \cup {"file"}
    /\ pc[c] = "running" => Kind(c) \in {"command", "file"}
    /\ pc[c] = "releasing" => Kind(c) \in Commands \cup {"file", "start"}
    /\ pc[c] = "lost" => Kind(c) = "command"
    /\ pc[c] \in {"peeking", "claiming", "preempting", "marking"} => Kind(c) \in Stops
    /\ pc[c] \in Ending => Kind(c) \in Stops \cup {"command"}
    /\ pc[c] \in {"listing", "deciding"} => Kind(c) = "drain"
    /\ Kind(c) = "read" => pc[c] \notin {"done", "gone"}
    /\ Kind(c) \in Commands /\ pc[c] \in {"lost", "ran"} \cup Ending => said[c] \in Final

Wide == HostTypeOK /\ \A c \in Calls : Fits(c)

\* What is asked for never changes.
Same == request' = request

LEMMA Asked ==
    ASSUME request \in Scenarios, NEW c \in Calls
    PROVE  /\ Kind(c) \in Kinds
           /\ Actor(c) \in Actors
           /\ Op(c) \in Ops \cup {NoOp}
           /\ Kind(c) \in Commands \cup {"read"} <=> Op(c) \in Ops
BY HostAssumption DEF Kind, Actor, Op

LEMMA SameActors ==
    ASSUME request \in Scenarios, NEW c \in Calls, NEW d \in Calls,
           Op(c) = Op(d), Kind(c) \in Commands \cup {"read"}
    PROVE  Actor(c) = Actor(d) /\ Kind(d) \in Commands \cup {"read"}
BY HostAssumption, Asked DEF Kind, Actor, Op

LEMMA SameRequests ==
    ASSUME Same, NEW c
    PROVE  Kind(c)' = Kind(c) /\ Actor(c)' = Actor(c) /\ Op(c)' = Op(c)
BY DEF Same, Kind, Actor, Op

LEMMA AlwaysSame == [Next]_vars => Same
BY DEF Next, Begin, Step, Asking, Queueing, Commanding, Stopping, Draining, Same, vars,
       Arrive, Read, Lookup, Judge, GiveUpOn, Acquire, GiveUp, Release, Check, CheckSlot,
       Create, Insert, Confirm, Land, LandFails, Exit, Lose, Leave, StopOwn, Finish, Sweep,
       Peek, Claim, Preempt, Mark, Halt, HaltFails, Free, Prune, DrainAsks, DrainLists,
       DrainDecides, DrainEnds, Lapse, Crash

-----------------------------------------------------------------------------
(* Types: the rows, containers and counters first, then the calls.         *)

Stored ==
    /\ token \in [Actors -> Calls \cup {NoCall}]
    /\ live \in [Actors -> BOOLEAN]
    /\ stopping \in [Actors -> BOOLEAN]
    /\ receipt \in [Ops -> Statuses]
    /\ author \in [Ops -> Calls \cup {NoCall}]
    /\ box \in [Actors -> {"none", "running", "exited"}]
    /\ inside \subseteq Calls
    /\ draining \in BOOLEAN
    /\ calm \subseteq Calls
    /\ runs \in [Ops -> Nat]
    /\ mishaps \subseteq FaultKinds

LEMMA FaultsKnown == Faults \subseteq FaultKinds
BY HostAssumption

LEMMA StoredStep ==
    ASSUME Wide, NEW c \in Calls, Begin(c) \/ Step(c)
    PROVE  Stored'
<1> USE Asked, FaultsKnown DEF Wide, HostTypeOK, Stored, Fits, Statuses, Final
<1>1. CASE Arrive(c)
    BY <1>1 DEF Arrive, Tells, Goes, leaseVars, receiptVars, boxVars
<1>2. CASE Read(c)
    BY <1>2 DEF Read, Goes, leaseVars, receiptVars, boxVars, hostVars
<1>3. CASE Lookup(c)
    BY <1>3 DEF Lookup, receiptVars, Done, Goes, leaseVars, boxVars, hostVars,
        Tells
<1>4. CASE Judge(c)
    BY <1>4 DEF Judge, receiptVars, Done, Goes, leaseVars, boxVars, hostVars,
        Tells
<1>5. CASE GiveUpOn(c)
    BY <1>5 DEF GiveUpOn, Interrupt, Done, leaseVars, boxVars, hostVars, Tells
<1>6. CASE Acquire(c)
    BY <1>6 DEF Acquire, Win, Goes, Tells, receiptVars, boxVars, hostVars
<1>7. CASE GiveUp(c)
    BY <1>7 DEF GiveUp, Tells, leaseVars, receiptVars, boxVars, hostVars
<1>8. CASE Release(c)
    BY <1>8 DEF Release, Goes, receiptVars, boxVars, hostVars
<1>9. CASE Check(c)
    BY <1>9 DEF Check, Goes, Tells, leaseVars, receiptVars, boxVars, hostVars
<1>10. CASE CheckSlot(c)
    BY <1>10 DEF CheckSlot, Tells, Goes, leaseVars, receiptVars, hostVars
<1>11. CASE Create(c)
    BY <1>11 DEF Create, Tells, leaseVars, receiptVars, hostVars
<1>12. CASE Insert(c)
    BY <1>12 DEF Insert, Goes, Tells, receiptVars, leaseVars, boxVars,
        hostVars
<1>13. CASE Confirm(c)
    BY <1>13 DEF Confirm, Goes, receiptVars, Settles, Tells, leaseVars,
        boxVars, hostVars
<1>14. CASE Land(c)
    BY <1>14 DEF Land, Goes, Tells, leaseVars, receiptVars, hostVars
<1>15. CASE LandFails(c)
    BY <1>15 DEF LandFails, Tells, leaseVars, receiptVars, boxVars, hostVars
<1>16. CASE Exit(c)
    BY <1>16 DEF Exit, Tells, leaseVars, receiptVars, hostVars
<1>17. CASE Lose(c)
    BY <1>17 DEF Lose, Tells, Mishap, leaseVars, receiptVars, boxVars,
        hostVars
<1>18. CASE Leave(c)
    BY <1>18 DEF Leave, leaseVars, receiptVars, hostVars
<1>19. CASE StopOwn(c)
    BY <1>19 DEF StopOwn, TakeOver, Goes, leaseVars, receiptVars, boxVars,
        hostVars
<1>20. CASE Finish(c)
    BY <1>20 DEF Finish, Settles, Tells, receiptVars, leaseVars, boxVars,
        hostVars
<1>21. CASE Sweep(c)
    BY <1>21 DEF Sweep, Goes, leaseVars, receiptVars, boxVars, hostVars
<1>22. CASE Peek(c)
    BY <1>22 DEF Peek, Goes, Tells, leaseVars, receiptVars, boxVars, hostVars
<1>23. CASE Claim(c)
    <2>1. UNCHANGED <<receiptVars, boxVars, hostVars, mishaps>>
        BY <1>23 DEF Claim
    <2>2. Win(c) \/ UNCHANGED leaseVars
        BY <1>23 DEF Claim
    <2>3. CASE Win(c)
        BY <2>1, <2>3 DEF Win, receiptVars, boxVars, hostVars
    <2>4. CASE UNCHANGED leaseVars
        BY <2>1, <2>4 DEF leaseVars, receiptVars, boxVars, hostVars
    <2> QED
        BY <2>2, <2>3, <2>4
<1>24. CASE Preempt(c)
    BY <1>24 DEF Preempt, TakeOver, Goes, leaseVars, receiptVars, boxVars,
        hostVars
<1>25. CASE Mark(c)
    BY <1>25 DEF Mark, Interrupt, Goes, leaseVars, boxVars, hostVars
<1>26. CASE Halt(c)
    BY <1>26 DEF Halt, Mishap, Tells, leaseVars, receiptVars, hostVars
<1>27. CASE HaltFails(c)
    BY <1>27 DEF HaltFails, Mishap, Tells, leaseVars, receiptVars, boxVars,
        hostVars
<1>28. CASE Free(c)
    BY <1>28 DEF Free, receiptVars, boxVars, hostVars
<1>29. CASE DrainAsks(c)
    BY <1>29 DEF DrainAsks, Goes, leaseVars, receiptVars, boxVars
<1>30. CASE DrainLists(c)
    BY <1>30 DEF DrainLists, Goes, Tells, leaseVars, receiptVars, boxVars,
        hostVars
<1>31. CASE DrainDecides(c)
    BY <1>31 DEF DrainDecides, Tells, leaseVars, receiptVars, boxVars
<1> QED
    BY <1>1, <1>2, <1>3, <1>4, <1>5, <1>6, <1>7, <1>8, <1>9, <1>10, <1>11,
        <1>12, <1>13, <1>14, <1>15, <1>16, <1>17, <1>18, <1>19, <1>20, <1>21,
        <1>22, <1>23, <1>24, <1>25, <1>26, <1>27, <1>28, <1>29, <1>30, <1>31
        DEF Begin, Step, Asking, Queueing, Commanding, Stopping, Draining

Called ==
    /\ pc \in [Calls -> Places]
    /\ grip \in [Calls -> Calls \cup {NoCall}]
    /\ said \in [Calls -> Answers]

\* The other calls stay where they are.
Alone(c) ==
    \A d \in Calls \ {c} : pc'[d] = pc[d] /\ grip'[d] = grip[d] /\ said'[d] = said[d]

LEMMA CalledStep ==
    ASSUME Wide, Stored', NEW c \in Calls, Begin(c) \/ Step(c)
    PROVE  Called' /\ Alone(c)
<1> USE Asked DEF Wide, HostTypeOK, Stored, Called, Alone, Fits, Answers, Statuses,
        Final, Places, Over, Working, Ending
<1>1. CASE Arrive(c)
    BY <1>1 DEF Arrive, Tells, Goes, First
<1>2. CASE Read(c)
    BY <1>2 DEF Read, Goes
<1>3. CASE Lookup(c)
    BY <1>3 DEF Lookup, Done, Goes, Known, Tells
<1>4. CASE Judge(c)
    BY <1>4 DEF Judge, Done, Known, Goes, Tells
<1>5. CASE GiveUpOn(c)
    BY <1>5 DEF GiveUpOn, Interrupt, Done, Known, Tells
<1>6. CASE Acquire(c)
    BY <1>6 DEF Acquire, Goes, Tells
<1>7. CASE GiveUp(c)
    BY <1>7 DEF GiveUp, Tells
<1>8. CASE Release(c)
    BY <1>8 DEF Release, Goes
<1>9. CASE Check(c)
    BY <1>9 DEF Check, Goes, Tells
<1>10. CASE CheckSlot(c)
    <2>1. \/ Tells(c, "checking", "releasing", "ok")
          \/ Tells(c, "checking", "releasing", "refused")
          \/ Goes(c, "checking", "creating")
        BY <1>10 DEF CheckSlot
    <2>2. Kind(c) = "start"
        BY <1>10 DEF CheckSlot
    <2> QED
        BY <2>1, <2>2 DEF Tells, Goes
<1>11. CASE Create(c)
    BY <1>11 DEF Create, Tells
<1>12. CASE Insert(c)
    BY <1>12 DEF Insert, Goes, Tells
<1>13. CASE Confirm(c)
    BY <1>13 DEF Confirm, Goes, Settles, Tells
<1>14. CASE Land(c)
    BY <1>14 DEF Land, Goes, Tells
<1>15. CASE LandFails(c)
    BY <1>15 DEF LandFails, Tells
<1>16. CASE Exit(c)
    BY <1>16 DEF Exit, Tells
<1>17. CASE Lose(c)
    BY <1>17 DEF Lose, Tells
<1>18. CASE Leave(c)
    BY <1>18 DEF Leave, callVars
<1>19. CASE StopOwn(c)
    BY <1>19 DEF StopOwn, Goes
<1>20. CASE Finish(c)
    BY <1>20 DEF Finish, Settles, Tells
<1>21. CASE Sweep(c)
    BY <1>21 DEF Sweep, Goes
<1>22. CASE Peek(c)
    BY <1>22 DEF Peek, Goes, Tells
<1>23. CASE Claim(c)
    BY <1>23 DEF Claim, Tells
<1>24. CASE Preempt(c)
    BY <1>24 DEF Preempt, Goes
<1>25. CASE Mark(c)
    BY <1>25 DEF Mark, Interrupt, Goes
<1>26. CASE Halt(c)
    BY <1>26 DEF Halt, Tells
<1>27. CASE HaltFails(c)
    BY <1>27 DEF HaltFails, Tells
<1>28. CASE Free(c)
    BY <1>28 DEF Free
<1>29. CASE DrainAsks(c)
    BY <1>29 DEF DrainAsks, Goes
<1>30. CASE DrainLists(c)
    BY <1>30 DEF DrainLists, Goes, Tells
<1>31. CASE DrainDecides(c)
    BY <1>31 DEF DrainDecides, Tells
<1> QED
    BY <1>1, <1>2, <1>3, <1>4, <1>5, <1>6, <1>7, <1>8, <1>9, <1>10, <1>11,
        <1>12, <1>13, <1>14, <1>15, <1>16, <1>17, <1>18, <1>19, <1>20, <1>21,
        <1>22, <1>23, <1>24, <1>25, <1>26, <1>27, <1>28, <1>29, <1>30, <1>31
        DEF Begin, Step, Asking, Queueing, Commanding, Stopping, Draining

LEMMA FitsStep ==
    ASSUME Wide, Stored', Called', NEW c \in Calls, Begin(c) \/ Step(c), Same
    PROVE  Fits(c)'
<1> USE Asked, SameRequests DEF Wide, HostTypeOK, Called, Stored, Fits, Statuses, Final,
        Over, Ending, Commands, Stops, Kinds
<1>1. CASE Arrive(c)
    BY <1>1 DEF Arrive, Tells, Goes, First
<1>2. CASE Read(c)
    BY <1>2 DEF Read, Goes
<1>3. CASE Lookup(c)
    BY <1>3 DEF Lookup, Done, Goes, Known, Tells
<1>4. CASE Judge(c)
    BY <1>4 DEF Judge, Done, Known, Goes, Tells
<1>5. CASE GiveUpOn(c)
    BY <1>5 DEF GiveUpOn, Interrupt, Done, Known, Tells
<1>6. CASE Acquire(c)
    BY <1>6 DEF Acquire, Goes, Tells
<1>7. CASE GiveUp(c)
    BY <1>7 DEF GiveUp, Tells
<1>8. CASE Release(c)
    BY <1>8 DEF Release, Goes
<1>9. CASE Check(c)
    BY <1>9 DEF Check, Goes, Tells
<1>10. CASE CheckSlot(c)
    <2>1. \/ Tells(c, "checking", "releasing", "ok")
          \/ Tells(c, "checking", "releasing", "refused")
          \/ Goes(c, "checking", "creating")
        BY <1>10 DEF CheckSlot
    <2>2. Kind(c) = "start"
        BY <1>10 DEF CheckSlot
    <2> QED
        BY <2>1, <2>2 DEF Tells, Goes
<1>11. CASE Create(c)
    BY <1>11 DEF Create, Tells
<1>12. CASE Insert(c)
    BY <1>12 DEF Insert, Goes, Tells
<1>13. CASE Confirm(c)
    BY <1>13 DEF Confirm, Goes, Settles, Tells
<1>14. CASE Land(c)
    BY <1>14 DEF Land, Goes, Tells
<1>15. CASE LandFails(c)
    BY <1>15 DEF LandFails, Tells
<1>16. CASE Exit(c)
    BY <1>16 DEF Exit, Tells
<1>17. CASE Lose(c)
    BY <1>17 DEF Lose, Tells
<1>18. CASE Leave(c)
    BY <1>18 DEF Leave, callVars
<1>19. CASE StopOwn(c)
    BY <1>19 DEF StopOwn, TakeOver, Goes
<1>20. CASE Finish(c)
    BY <1>20 DEF Finish, Settles, Tells
<1>21. CASE Sweep(c)
    BY <1>21 DEF Sweep, Goes
<1>22. CASE Peek(c)
    BY <1>22 DEF Peek, Goes, Tells
<1>23. CASE Claim(c)
    BY <1>23 DEF Claim, Tells
<1>24. CASE Preempt(c)
    BY <1>24 DEF Preempt, TakeOver, Goes
<1>25. CASE Mark(c)
    BY <1>25 DEF Mark, Interrupt, Goes
<1>26. CASE Halt(c)
    BY <1>26 DEF Halt, Tells
<1>27. CASE HaltFails(c)
    BY <1>27 DEF HaltFails, Tells
<1>28. CASE Free(c)
    BY <1>28 DEF Free
<1>29. CASE DrainAsks(c)
    BY <1>29 DEF DrainAsks, Goes
<1>30. CASE DrainLists(c)
    BY <1>30 DEF DrainLists, Goes, Tells
<1>31. CASE DrainDecides(c)
    BY <1>31 DEF DrainDecides, Tells
<1> QED
    BY <1>1, <1>2, <1>3, <1>4, <1>5, <1>6, <1>7, <1>8, <1>9, <1>10, <1>11,
        <1>12, <1>13, <1>14, <1>15, <1>16, <1>17, <1>18, <1>19, <1>20, <1>21,
        <1>22, <1>23, <1>24, <1>25, <1>26, <1>27, <1>28, <1>29, <1>30, <1>31
        DEF Begin, Step, Asking, Queueing, Commanding, Stopping, Draining

-----------------------------------------------------------------------------
(* Every call is where its kind can be.                                    *)

LEMMA WideInit == Init => Wide
<1> SUFFICES ASSUME Init PROVE Wide
    OBVIOUS
<1>1. MaxFaults \in Nat
    BY HostAssumption
<1>2. HostTypeOK
    <2>1. Stored /\ Called
        BY DEF Init, Stored, Called, Statuses, Places, Over, Answers
    <2>2. request \in Scenarios /\ crashes = 0
        BY DEF Init
    <2> QED
        BY <1>1, <2>1, <2>2 DEF HostTypeOK, Stored, Called
<1>3. \A c \in Calls : Fits(c)
    BY DEF Init, Fits, Ending
<1> QED
    BY <1>2, <1>3 DEF Wide

LEMMA CrashesStayFew ==
    ASSUME Wide, [Next]_vars
    PROVE  crashes' \in 0 .. MaxFaults
<1>1. Cardinality(mishaps) \in Nat
    <2>1. IsFiniteSet(FaultKinds)
        <3>1. \A T, x : IsFiniteSet(T) => IsFiniteSet(T \cup {x})
            BY FS_AddElement
        <3>2. FaultKinds = ((({} \cup {"slow"}) \cup {"late"}) \cup {"stuck"}) \cup {"adrift"}
            BY DEF FaultKinds
        <3> QED
            BY <3>1, <3>2, FS_EmptySet
    <2> QED
        BY <2>1, FS_Subset, FS_CardinalityType DEF Wide, HostTypeOK
<1>2. crashes' = crashes \/ Crash
    BY DEF Next, Begin, Step, Asking, Queueing, Commanding, Stopping, Draining, vars,
        hostVars, Arrive, Read, Lookup, Judge, GiveUpOn, Acquire, GiveUp, Release, Check,
        CheckSlot, Create, Insert, Confirm, Land, LandFails, Exit, Lose, Leave, StopOwn,
        Finish, Sweep, Peek, Claim, Preempt, Mark, Halt, HaltFails, Free, Prune,
        DrainAsks, DrainLists, DrainDecides, DrainEnds, Lapse
<1>3. CASE Crash
    <2>1. Luck /\ crashes' = crashes + 1
        BY <1>3 DEF Crash
    <2>2. MaxFaults \in Nat /\ crashes \in Nat
        BY HostAssumption DEF Wide, HostTypeOK
    <2> QED
        BY <1>1, <2>1, <2>2 DEF Luck
<1> QED
    BY <1>2, <1>3 DEF Wide, HostTypeOK

\* The steps that belong to no call.
Outer == (\E a \in Actors : Lapse(a)) \/ (\E o \in Ops : Prune(o)) \/ DrainEnds \/ Crash

LEMMA OuterStep ==
    ASSUME Wide, Outer, Same
    PROVE  Stored' /\ Called' /\ \A c \in Calls : Fits(c)'
<1> USE SameRequests, FaultsKnown DEF Wide, HostTypeOK, Stored, Called
<1>1. CASE \E a \in Actors : Lapse(a)
    BY <1>1 DEF Lapse, Mishap, Fits, receiptVars, boxVars, callVars, hostVars
<1>2. CASE \E o \in Ops : Prune(o)
    BY <1>2 DEF Prune, Fits, Statuses, leaseVars, boxVars, callVars, hostVars
<1>3. CASE DrainEnds
    BY <1>3 DEF DrainEnds, Fits, leaseVars, receiptVars, boxVars, callVars
<1>4. CASE Crash
    <2>1. Stored'
        BY <1>4 DEF Crash, leaseVars, receiptVars
    <2>2. Called'
        BY <1>4 DEF Crash, Places, Over, Answers, Statuses
    <2>3. \A c \in Calls : Fits(c)'
        BY <1>4 DEF Crash, Fits, Over, Ending, Commands, Stops
    <2> QED
        BY <2>1, <2>2, <2>3
<1> QED
    BY <1>1, <1>2, <1>3, <1>4 DEF Outer

LEMMA WideStep == Wide /\ [Next]_vars => Wide'
<1> SUFFICES ASSUME Wide, [Next]_vars PROVE Wide'
    OBVIOUS
<1>1. Same /\ crashes' \in 0 .. MaxFaults
    BY AlwaysSame, CrashesStayFew
<1>2. CASE \E c \in Calls : Begin(c) \/ Step(c)
    <2>1. PICK c \in Calls : Begin(c) \/ Step(c)
        BY <1>2
    <2>2. Stored' /\ Called' /\ Alone(c)
        BY <2>1, StoredStep, CalledStep
    <2>3. Fits(c)'
        BY <1>1, <2>1, <2>2, FitsStep
    <2>4. ASSUME NEW d \in Calls \ {c} PROVE Fits(d)'
        BY <1>1, <2>2, SameRequests DEF Alone, Fits, Wide
    <2> QED
        BY <1>1, <2>2, <2>3, <2>4 DEF Wide, HostTypeOK, Stored, Called, Same
<1>3. CASE Outer
    BY <1>1, <1>3, OuterStep DEF Wide, HostTypeOK, Stored, Called, Same
<1>4. CASE UNCHANGED vars
    BY <1>4 DEF Wide, HostTypeOK, Fits, Kind, vars, leaseVars, receiptVars, boxVars,
        callVars, hostVars
<1> QED
    BY <1>2, <1>3, <1>4 DEF Next, Outer

\* Type correctness: every variable keeps its type in every reachable state.
THEOREM WellTyped == Spec => []HostTypeOK
<1>1. Wide => HostTypeOK
    BY DEF Wide
<1> QED
    BY <1>1, WideInit, WideStep, PTL DEF Spec

-----------------------------------------------------------------------------
(* A command is run at most once.                                          *)

\* Whoever is about to run a command wrote its receipt, and nobody ran it yet.
Fresh(c) ==
    pc[c] \in {"confirming", "launching"} /\ Kind(c) \in Commands =>
        author[Op(c)] = c /\ receipt[Op(c)] # "none" /\ runs[Op(c)] = 0

Unrun(o) == runs[o] =< 1 /\ (receipt[o] = "none" => runs[o] = 0)

Once == (\A o \in Ops : Unrun(o)) /\ \A c \in Calls : Fresh(c)

\* What all steps but two have in common: no receipt appears, nothing is run.
Quiet ==
    /\ UNCHANGED <<author, runs>>
    /\ \A o \in Ops : receipt'[o] = "none" <=> receipt[o] = "none"
    /\ \A c \in Calls :
          pc'[c] \in {"confirming", "launching"} /\ Kind(c) \in Commands =>
              pc[c] \in {"confirming", "launching"}

LEMMA QuietKeepsOnce == ASSUME Wide, Once, Same, Quiet PROVE Once'
<1>1. \A o \in Ops : Unrun(o)'
    BY DEF Once, Unrun, Quiet
<1>2. ASSUME NEW c \in Calls PROVE Fresh(c)'
    BY SameRequests, Asked DEF Once, Fresh, Quiet, Wide, HostTypeOK
<1> QED
    BY <1>1, <1>2 DEF Once

LEMMA OuterIsQuiet == ASSUME Wide, Outer PROVE Quiet
BY DEF Wide, HostTypeOK, Outer, Quiet, Lapse, Prune, DrainEnds, Crash, Over, Final,
    leaseVars, receiptVars, boxVars, callVars, hostVars

LEMMA OthersAreQuiet ==
    ASSUME Wide, NEW c \in Calls, Begin(c) \/ Step(c), ~Insert(c), ~Land(c)
    PROVE  Quiet
<1> USE Asked DEF Wide, HostTypeOK, Quiet, Fits, Commands, Final
<1>1. CASE Arrive(c)
    BY <1>1 DEF Arrive, Tells, Goes, First, leaseVars, receiptVars, boxVars
<1>2. CASE Read(c)
    BY <1>2 DEF Read, Goes, leaseVars, receiptVars, boxVars, hostVars
<1>3. CASE Lookup(c)
    BY <1>3 DEF Lookup, receiptVars, Done, Goes, leaseVars, boxVars, hostVars,
        Tells
<1>4. CASE Judge(c)
    BY <1>4 DEF Judge, receiptVars, Done, Goes, leaseVars, boxVars, hostVars,
        Tells
<1>5. CASE GiveUpOn(c)
    BY <1>5 DEF GiveUpOn, Interrupt, Done, leaseVars, boxVars, hostVars, Tells
<1>6. CASE Acquire(c)
    BY <1>6 DEF Acquire, Goes, Tells, receiptVars, boxVars, hostVars
<1>7. CASE GiveUp(c)
    BY <1>7 DEF GiveUp, Tells, leaseVars, receiptVars, boxVars, hostVars
<1>8. CASE Release(c)
    BY <1>8 DEF Release, Goes, receiptVars, boxVars, hostVars
<1>9. CASE Check(c)
    BY <1>9 DEF Check, Goes, Tells, leaseVars, receiptVars, boxVars, hostVars
<1>10. CASE CheckSlot(c)
    <2>1. UNCHANGED <<receiptVars, runs>>
        BY <1>10 DEF CheckSlot
    <2>2. \E to \in {"releasing", "creating"} : pc' = [pc EXCEPT ![c] = to]
        BY <1>10 DEF CheckSlot, Tells, Goes
    <2> QED
        BY <2>1, <2>2 DEF receiptVars
<1>11. CASE Create(c)
    BY <1>11 DEF Create, Tells, leaseVars, receiptVars, hostVars
<1>12. CASE Confirm(c)
    BY <1>12 DEF Confirm, Goes, receiptVars, Settles, Tells, leaseVars,
        boxVars, hostVars
<1>13. CASE LandFails(c)
    BY <1>13 DEF LandFails, Tells, leaseVars, receiptVars, boxVars, hostVars
<1>14. CASE Exit(c)
    BY <1>14 DEF Exit, Tells, leaseVars, receiptVars, hostVars
<1>15. CASE Lose(c)
    BY <1>15 DEF Lose, Tells, leaseVars, receiptVars, boxVars, hostVars
<1>16. CASE Leave(c)
    BY <1>16 DEF Leave, leaseVars, receiptVars, callVars, hostVars
<1>17. CASE StopOwn(c)
    BY <1>17 DEF StopOwn, Goes, leaseVars, receiptVars, boxVars, hostVars
<1>18. CASE Finish(c)
    BY <1>18 DEF Finish, Settles, Tells, receiptVars, leaseVars, boxVars,
        hostVars
<1>19. CASE Sweep(c)
    BY <1>19 DEF Sweep, Goes, leaseVars, receiptVars, boxVars, hostVars
<1>20. CASE Peek(c)
    BY <1>20 DEF Peek, Goes, Tells, leaseVars, receiptVars, boxVars, hostVars
<1>21. CASE Claim(c)
    BY <1>21 DEF Claim, Tells, leaseVars, receiptVars, boxVars, hostVars
<1>22. CASE Preempt(c)
    BY <1>22 DEF Preempt, Goes, leaseVars, receiptVars, boxVars, hostVars
<1>23. CASE Mark(c)
    BY <1>23 DEF Mark, Interrupt, Goes, leaseVars, boxVars, hostVars
<1>24. CASE Halt(c)
    BY <1>24 DEF Halt, Tells, leaseVars, receiptVars, hostVars
<1>25. CASE HaltFails(c)
    BY <1>25 DEF HaltFails, Tells, leaseVars, receiptVars, boxVars, hostVars
<1>26. CASE Free(c)
    BY <1>26 DEF Free, receiptVars, boxVars, hostVars
<1>27. CASE DrainAsks(c)
    BY <1>27 DEF DrainAsks, Goes, leaseVars, receiptVars, boxVars
<1>28. CASE DrainLists(c)
    BY <1>28 DEF DrainLists, Goes, Tells, leaseVars, receiptVars, boxVars,
        hostVars
<1>29. CASE DrainDecides(c)
    BY <1>29 DEF DrainDecides, Tells, leaseVars, receiptVars, boxVars
<1> QED
    BY <1>1, <1>2, <1>3, <1>4, <1>5, <1>6, <1>7, <1>8, <1>9, <1>10, <1>11,
        <1>12, <1>13, <1>14, <1>15, <1>16, <1>17, <1>18, <1>19, <1>20, <1>21,
        <1>22, <1>23, <1>24, <1>25, <1>26, <1>27, <1>28, <1>29
        DEF Begin, Step, Asking, Queueing, Commanding, Stopping, Draining

LEMMA InsertKeepsOnce ==
    ASSUME Wide, Once, Same, NEW c \in Calls, Insert(c)
    PROVE  Once'
<1> USE SameRequests, Asked DEF Wide, HostTypeOK, Fits
<1>1. Kind(c) \in Commands /\ Op(c) \in Ops
    BY DEF Insert
<1>2. CASE receipt[Op(c)] # "none"
    <2>1. Quiet
        BY <1>2 DEF Insert, Quiet, Tells, Goes, receiptVars, boxVars
    <2> QED
        BY <2>1, QuietKeepsOnce
<1>3. CASE receipt[Op(c)] = "none"
    <2>1. /\ receipt' = [receipt EXCEPT ![Op(c)] = "running"]
          /\ author' = [author EXCEPT ![Op(c)] = c]
          /\ pc' = [pc EXCEPT ![c] = "confirming"]
          /\ runs' = runs
        BY <1>3 DEF Insert, Goes, boxVars
    <2>2. \A o \in Ops : Unrun(o)'
        BY <1>3, <2>1 DEF Once, Unrun
    <2>3. ASSUME NEW d \in Calls PROVE Fresh(d)'
        <3>1. CASE d = c
            BY <1>1, <1>3, <2>1, <3>1 DEF Once, Unrun, Fresh
        <3>2. CASE d # c /\ Op(d) = Op(c)
            BY <1>3, <2>1, <3>2 DEF Once, Fresh
        <3>3. CASE d # c /\ Op(d) # Op(c)
            BY <1>1, <2>1, <3>3 DEF Once, Fresh
        <3> QED
            BY <3>1, <3>2, <3>3
    <2> QED
        BY <2>2, <2>3 DEF Once
<1> QED
    BY <1>2, <1>3

LEMMA LandKeepsOnce ==
    ASSUME Wide, Once, Same, NEW c \in Calls, Land(c)
    PROVE  Once'
<1> USE SameRequests, Asked DEF Wide, HostTypeOK, Fits
<1>1. /\ pc[c] = "launching"
      /\ UNCHANGED <<receipt, author>>
      /\ \E to \in {"running", "ran"} : pc' = [pc EXCEPT ![c] = to]
    BY DEF Land, Goes, Tells, receiptVars
<1>2. CASE Kind(c) \notin Commands
    BY <1>1, <1>2 DEF Land, Once, Unrun, Fresh
<1>3. CASE Kind(c) \in Commands
    <2>1. runs' = [runs EXCEPT ![Op(c)] = @ + 1] /\ Op(c) \in Ops
        BY <1>3 DEF Land
    <2>2. runs[Op(c)] = 0 /\ author[Op(c)] = c /\ receipt[Op(c)] # "none"
        BY <1>1, <1>3 DEF Once, Fresh
    <2>3. \A o \in Ops : Unrun(o)'
        BY <1>1, <2>1, <2>2 DEF Once, Unrun
    <2>4. ASSUME NEW d \in Calls PROVE Fresh(d)'
        BY <1>1, <2>1, <2>2 DEF Once, Fresh
    <2> QED
        BY <2>3, <2>4 DEF Once
<1> QED
    BY <1>2, <1>3

LEMMA OnceStep == ASSUME Wide, Once, [Next]_vars PROVE Once'
<1>1. Same
    BY AlwaysSame
<1>2. CASE \E c \in Calls : Begin(c) \/ Step(c)
    BY <1>1, <1>2, OthersAreQuiet, QuietKeepsOnce, InsertKeepsOnce, LandKeepsOnce
<1>3. CASE Outer
    BY <1>1, <1>3, OuterIsQuiet, QuietKeepsOnce
<1>4. CASE UNCHANGED vars
    BY <1>1, <1>4, QuietKeepsOnce DEF Quiet, vars, receiptVars, boxVars, callVars
<1> QED
    BY <1>2, <1>3, <1>4 DEF Next, Outer

\* However often an operationId is sent, and whatever is stopped, lapses or dies
\* in between, its command is run at most once (runCommand, startBackground).
THEOREM RunAtMostOnce == Spec => []RunsOnce
<1>1. Init => Once
    BY DEF Init, Once, Unrun, Fresh
<1>2. Wide /\ Once /\ [Next]_vars => Once'
    BY OnceStep
<1>3. Once => RunsOnce
    BY DEF Once, Unrun, RunsOnce
<1> QED
    BY <1>1, <1>2, <1>3, WideInit, WideStep, PTL DEF Spec

-----------------------------------------------------------------------------
(* What is told of a command is what is stored of it.                      *)

Told(c) ==
    pc[c] \in {"releasing", "done"} /\ Kind(c) \in Commands /\ said[c] \in Final =>
        receipt[Op(c)] \in {said[c], "forgotten"}

Agreed == \A c \in Calls : Told(c)

\* An outcome, once stored, is only ever forgotten.
Lasting ==
    \A o \in Ops : receipt[o] \in Final \cup {"forgotten"}
                      => receipt'[o] \in {receipt[o], "forgotten"}

LEMMA OuterIsLasting == ASSUME Wide, Outer PROVE Lasting
BY DEF Wide, HostTypeOK, Outer, Lasting, Lapse, Prune, DrainEnds, Crash, receiptVars

LEMMA StepIsLasting ==
    ASSUME Wide, NEW c \in Calls, Begin(c) \/ Step(c)
    PROVE  Lasting
<1> USE Asked DEF Wide, HostTypeOK, Lasting, Final
<1>1. CASE Arrive(c)
    BY <1>1 DEF Arrive, receiptVars
<1>2. CASE Read(c)
    BY <1>2 DEF Read, receiptVars
<1>3. CASE Lookup(c)
    BY <1>3 DEF Lookup, receiptVars
<1>4. CASE Judge(c)
    BY <1>4 DEF Judge, receiptVars
<1>5. CASE GiveUpOn(c)
    BY <1>5 DEF GiveUpOn, Interrupt
<1>6. CASE Acquire(c)
    BY <1>6 DEF Acquire, receiptVars
<1>7. CASE GiveUp(c)
    BY <1>7 DEF GiveUp, receiptVars
<1>8. CASE Release(c)
    BY <1>8 DEF Release, receiptVars
<1>9. CASE Check(c)
    BY <1>9 DEF Check, receiptVars
<1>10. CASE CheckSlot(c)
    BY <1>10 DEF CheckSlot, receiptVars
<1>11. CASE Create(c)
    BY <1>11 DEF Create, receiptVars
<1>12. CASE Insert(c)
    BY <1>12 DEF Insert, receiptVars
<1>13. CASE Confirm(c)
    BY <1>13 DEF Confirm, receiptVars, Settles
<1>14. CASE Land(c)
    BY <1>14 DEF Land, receiptVars
<1>15. CASE LandFails(c)
    BY <1>15 DEF LandFails, receiptVars
<1>16. CASE Exit(c)
    BY <1>16 DEF Exit, receiptVars
<1>17. CASE Lose(c)
    BY <1>17 DEF Lose, receiptVars
<1>18. CASE Leave(c)
    BY <1>18 DEF Leave, receiptVars
<1>19. CASE StopOwn(c)
    BY <1>19 DEF StopOwn, receiptVars
<1>20. CASE Finish(c)
    BY <1>20 DEF Finish, Settles, receiptVars
<1>21. CASE Sweep(c)
    BY <1>21 DEF Sweep, receiptVars
<1>22. CASE Peek(c)
    BY <1>22 DEF Peek, receiptVars
<1>23. CASE Claim(c)
    BY <1>23 DEF Claim, receiptVars
<1>24. CASE Preempt(c)
    BY <1>24 DEF Preempt, receiptVars
<1>25. CASE Mark(c)
    BY <1>25 DEF Mark, Interrupt
<1>26. CASE Halt(c)
    BY <1>26 DEF Halt, receiptVars
<1>27. CASE HaltFails(c)
    BY <1>27 DEF HaltFails, receiptVars
<1>28. CASE Free(c)
    BY <1>28 DEF Free, receiptVars
<1>29. CASE DrainAsks(c)
    BY <1>29 DEF DrainAsks, receiptVars
<1>30. CASE DrainLists(c)
    BY <1>30 DEF DrainLists, receiptVars
<1>31. CASE DrainDecides(c)
    BY <1>31 DEF DrainDecides, receiptVars
<1> QED
    BY <1>1, <1>2, <1>3, <1>4, <1>5, <1>6, <1>7, <1>8, <1>9, <1>10, <1>11,
        <1>12, <1>13, <1>14, <1>15, <1>16, <1>17, <1>18, <1>19, <1>20, <1>21,
        <1>22, <1>23, <1>24, <1>25, <1>26, <1>27, <1>28, <1>29, <1>30, <1>31
        DEF Begin, Step, Asking, Queueing, Commanding, Stopping, Draining

LEMMA ToldStep ==
    ASSUME Wide, Agreed, Same, NEW c \in Calls, Begin(c) \/ Step(c)
    PROVE  Told(c)'
<1> USE SameRequests, Asked
    DEF Wide, HostTypeOK, Fits, Agreed, Told, Final, Ending, Commands, Stops
<1>1. CASE Arrive(c)
    BY <1>1 DEF Arrive, Tells, Goes, First, leaseVars, receiptVars, boxVars
<1>2. CASE Read(c)
    BY <1>2 DEF Read, Goes, leaseVars, receiptVars, boxVars, hostVars
<1>3. CASE Lookup(c)
    BY <1>3 DEF Lookup, receiptVars, Done, Goes, Known, leaseVars, boxVars,
        hostVars, Tells
<1>4. CASE Judge(c)
    BY <1>4 DEF Judge, receiptVars, Done, Known, Goes, leaseVars, boxVars,
        hostVars, Tells
<1>5. CASE GiveUpOn(c)
    BY <1>5 DEF GiveUpOn, Interrupt, Done, Known, leaseVars, boxVars,
        hostVars, Tells
<1>6. CASE Acquire(c)
    BY <1>6 DEF Acquire, Goes, Tells, receiptVars, boxVars, hostVars
<1>7. CASE GiveUp(c)
    BY <1>7 DEF GiveUp, Tells, leaseVars, receiptVars, boxVars, hostVars
<1>8. CASE Release(c)
    BY <1>8 DEF Release, Goes, receiptVars, boxVars, hostVars
<1>9. CASE Check(c)
    BY <1>9 DEF Check, Goes, Tells, leaseVars, receiptVars, boxVars, hostVars
<1>10. CASE CheckSlot(c)
    <2>1. Kind(c) \notin Commands
        BY <1>10 DEF CheckSlot
    <2> QED
        BY <2>1
<1>11. CASE Create(c)
    BY <1>11 DEF Create, Tells, leaseVars, receiptVars, hostVars
<1>12. CASE Insert(c)
    BY <1>12 DEF Insert, Goes, Tells, receiptVars, leaseVars, boxVars,
        hostVars
<1>13. CASE Confirm(c)
    BY <1>13 DEF Confirm, Goes, receiptVars, Settles, Tells, leaseVars,
        boxVars, hostVars
<1>14. CASE Land(c)
    BY <1>14 DEF Land, Goes, Tells, leaseVars, receiptVars, hostVars
<1>15. CASE LandFails(c)
    BY <1>15 DEF LandFails, Tells, leaseVars, receiptVars, boxVars, hostVars
<1>16. CASE Exit(c)
    BY <1>16 DEF Exit, Tells, leaseVars, receiptVars, hostVars
<1>17. CASE Lose(c)
    BY <1>17 DEF Lose, Tells, leaseVars, receiptVars, boxVars, hostVars
<1>18. CASE Leave(c)
    BY <1>18 DEF Leave, leaseVars, receiptVars, callVars, hostVars
<1>19. CASE StopOwn(c)
    BY <1>19 DEF StopOwn, Goes, leaseVars, receiptVars, boxVars, hostVars
<1>20. CASE Finish(c)
    BY <1>20 DEF Finish, Settles, Tells, receiptVars, leaseVars, boxVars,
        hostVars
<1>21. CASE Sweep(c)
    BY <1>21 DEF Sweep, Goes, leaseVars, receiptVars, boxVars, hostVars
<1>22. CASE Peek(c)
    BY <1>22 DEF Peek, Goes, Tells, leaseVars, receiptVars, boxVars, hostVars
<1>23. CASE Claim(c)
    BY <1>23 DEF Claim, Tells, leaseVars, receiptVars, boxVars, hostVars
<1>24. CASE Preempt(c)
    BY <1>24 DEF Preempt, Goes, leaseVars, receiptVars, boxVars, hostVars
<1>25. CASE Mark(c)
    BY <1>25 DEF Mark, Interrupt, Goes, leaseVars, boxVars, hostVars
<1>26. CASE Halt(c)
    BY <1>26 DEF Halt, Tells, leaseVars, receiptVars, hostVars
<1>27. CASE HaltFails(c)
    BY <1>27 DEF HaltFails, Tells, leaseVars, receiptVars, boxVars, hostVars
<1>28. CASE Free(c)
    BY <1>28 DEF Free, receiptVars, boxVars, hostVars
<1>29. CASE DrainAsks(c)
    BY <1>29 DEF DrainAsks, Goes, leaseVars, receiptVars, boxVars
<1>30. CASE DrainLists(c)
    BY <1>30 DEF DrainLists, Goes, Tells, leaseVars, receiptVars, boxVars,
        hostVars
<1>31. CASE DrainDecides(c)
    BY <1>31 DEF DrainDecides, Tells, leaseVars, receiptVars, boxVars
<1> QED
    BY <1>1, <1>2, <1>3, <1>4, <1>5, <1>6, <1>7, <1>8, <1>9, <1>10, <1>11,
        <1>12, <1>13, <1>14, <1>15, <1>16, <1>17, <1>18, <1>19, <1>20, <1>21,
        <1>22, <1>23, <1>24, <1>25, <1>26, <1>27, <1>28, <1>29, <1>30, <1>31
        DEF Begin, Step, Asking, Queueing, Commanding, Stopping, Draining

LEMMA AgreedStep == ASSUME Wide, Agreed, [Next]_vars PROVE Agreed'
<1> USE SameRequests, Asked
<1>1. Same
    BY AlwaysSame
<1>2. CASE \E c \in Calls : Begin(c) \/ Step(c)
    <2>1. PICK c \in Calls : Begin(c) \/ Step(c)
        BY <1>2
    <2>2. Lasting /\ Alone(c) /\ Told(c)'
        BY <1>1, <2>1, StoredStep, CalledStep, StepIsLasting, ToldStep
    <2>3. ASSUME NEW d \in Calls \ {c} PROVE Told(d)'
        BY <1>1, <2>2 DEF Lasting, Alone, Agreed, Told, Wide, HostTypeOK
    <2> QED
        BY <2>2, <2>3 DEF Agreed
<1>3. CASE Outer
    <2>1. Lasting
        BY <1>3, OuterIsLasting
    <2>2. \A c \in Calls : pc'[c] \in {"releasing", "done"} =>
                            pc'[c] = pc[c] /\ said'[c] = said[c]
        BY <1>3 DEF Outer, Lapse, Prune, DrainEnds, Crash, callVars, Over, Wide, HostTypeOK
    <2> QED
        BY <1>1, <2>1, <2>2 DEF Lasting, Agreed, Told, Wide, HostTypeOK
<1>4. CASE UNCHANGED vars
    BY <1>1, <1>4 DEF Agreed, Told, vars, receiptVars, callVars
<1> QED
    BY <1>2, <1>3, <1>4 DEF Next, Outer

\* What a caller was told of the outcome of its command is what is stored, for
\* good: no late success over an interruption, no second outcome
\* (finishReceipt, interruptRunning, receipt).
THEOREM OneAnswerForAll == Spec => []AnswersAgree
<1>1. Init => Agreed
    BY DEF Init, Agreed, Told
<1>2. Wide /\ Agreed /\ [Next]_vars => Agreed'
    BY AgreedStep
<1>3. Agreed => AnswersAgree
    BY DEF Agreed, Told, AnswersAgree
<1> QED
    BY <1>1, <1>2, <1>3, WideInit, WideStep, PTL DEF Spec

-----------------------------------------------------------------------------
(* A host that may be switched off does nothing.                           *)

Busy(c) == Kind(c) \notin {"read", "reap", "drain"} /\ pc[c] \notin Over
Nobody  == \A c \in Calls : ~Busy(c)
Idle    == \A a \in Actors : box[a] # "running"

LEMMA NobodyInFlight == Nobody <=> InFlight = {}
BY DEF Nobody, Busy, InFlight

LEMMA IdleRunsNothing == Idle <=> Running = {}
BY DEF Idle, Running

Housed  == \A c \in inside : box[Actor(c)] = "running"
Drained == draining => Nobody /\ Idle

\* Nothing is under way while a calm drain looks, and nothing ran when it had.
Looking(d) ==
    d \in calm => /\ Kind(d) = "drain" /\ pc[d] # "idle"
                  /\ pc[d] \in {"listing", "deciding"} => Nobody
                  /\ pc[d] = "deciding" => Idle

Hushed == Housed /\ Drained /\ \A d \in Calls : Looking(d)

\* What a step does that neither begins anything nor drains.
NoNews ==
    /\ UNCHANGED <<draining, calm>>
    /\ \A c \in Calls : Kind(c) \notin {"read", "reap"} /\ pc'[c] \notin Over
                         => pc[c] \notin Over
    /\ \A d \in Calls : Kind(d) = "drain" =>
          /\ pc'[d] \in {"listing", "deciding"} => pc'[d] = pc[d]
          /\ pc'[d] = "idle" => pc[d] = "idle"
    /\ \A a \in Actors : box'[a] = "running" => box[a] = "running" \/ ~Nobody
    /\ \A c \in inside' : \/ box'[Actor(c)] = "running"
                          \/ c \in inside /\ box[Actor(c)] # "running"

LEMMA NoNewsIsHushed == ASSUME Wide, Hushed, Same, NoNews PROVE Hushed'
<1> USE SameRequests, Asked DEF Wide, HostTypeOK
<1>1. Housed'
    BY DEF NoNews, Hushed, Housed
<1>2. Nobody => Nobody'
    BY DEF NoNews, Nobody, Busy
<1>3. Nobody /\ Idle => Idle'
    BY DEF NoNews, Idle
<1>4. Drained'
    BY <1>2, <1>3 DEF NoNews, Hushed, Drained
<1>5. ASSUME NEW d \in Calls PROVE Looking(d)'
    BY <1>2, <1>3 DEF NoNews, Hushed, Looking
<1> QED
    BY <1>1, <1>4, <1>5 DEF Hushed

LEMMA CreateIsNoNews ==
    ASSUME Wide, Hushed, Same, NEW c \in Calls, Create(c)
    PROVE  NoNews
<1> USE Asked DEF Wide, HostTypeOK, Fits
<1>1. pc[c] = "creating" /\ pc' = [pc EXCEPT ![c] = "releasing"]
    BY DEF Create, Tells
<1>2. ~Nobody
    BY <1>1 DEF Nobody, Busy, Over
<1>3. UNCHANGED <<draining, calm, inside>>
    BY DEF Create, hostVars
<1>4. \A a \in Actors : box[a] = "running" => box'[a] = "running"
    BY DEF Create
<1> QED
    BY <1>1, <1>2, <1>3, <1>4 DEF NoNews, Over, Hushed, Housed

LEMMA CheckSlotIsNoNews ==
    ASSUME Wide, Hushed, Same, NEW c \in Calls, CheckSlot(c)
    PROVE  NoNews
<1> USE Asked DEF Wide, HostTypeOK, Fits
<1>1. pc[c] = "checking" /\ \E to \in {"releasing", "creating"} : pc' = [pc EXCEPT ![c] = to]
    BY DEF CheckSlot, Tells, Goes
<1>2. UNCHANGED <<draining, calm, inside>>
    BY DEF CheckSlot, hostVars
<1>3. \A a \in Actors : box[a] = "running" <=> box'[a] = "running"
    BY DEF CheckSlot
<1> QED
    BY <1>1, <1>2, <1>3 DEF NoNews, Over, Hushed, Housed

LEMMA OthersAreNoNews ==
    ASSUME Wide, Hushed, Same, NEW c \in Calls, Begin(c) \/ Step(c),
           ~Arrive(c), ~DrainAsks(c), ~DrainLists(c), ~DrainDecides(c)
    PROVE  NoNews
<1> USE Asked DEF Wide, HostTypeOK, Fits, NoNews, Over, Hushed, Housed
<1>1. CASE Read(c)
    BY <1>1 DEF Read, Goes, boxVars, hostVars
<1>2. CASE Lookup(c)
    BY <1>2 DEF Lookup, Done, Goes, boxVars, hostVars, Tells
<1>3. CASE Judge(c)
    BY <1>3 DEF Judge, Done, Goes, boxVars, hostVars, Tells
<1>4. CASE GiveUpOn(c)
    BY <1>4 DEF GiveUpOn, Done, boxVars, hostVars, Tells
<1>5. CASE Acquire(c)
    BY <1>5 DEF Acquire, Goes, Tells, boxVars, hostVars
<1>6. CASE GiveUp(c)
    BY <1>6 DEF GiveUp, Tells, boxVars, hostVars
<1>7. CASE Release(c)
    BY <1>7 DEF Release, Goes, boxVars, hostVars
<1>8. CASE Check(c)
    BY <1>8 DEF Check, Goes, Tells, boxVars, hostVars
<1>9. CASE CheckSlot(c)
    BY <1>9, CheckSlotIsNoNews
<1>10. CASE Create(c)
    BY <1>10, CreateIsNoNews
<1>11. CASE Insert(c)
    BY <1>11 DEF Insert, Goes, Tells, boxVars, hostVars
<1>12. CASE Confirm(c)
    BY <1>12 DEF Confirm, Goes, Tells, boxVars, hostVars
<1>13. CASE Land(c)
    BY <1>13 DEF Land, Goes, Tells, hostVars
<1>14. CASE LandFails(c)
    BY <1>14 DEF LandFails, Tells, boxVars, hostVars
<1>15. CASE Exit(c)
    BY <1>15 DEF Exit, Tells, hostVars
<1>16. CASE Lose(c)
    BY <1>16 DEF Lose, Tells, boxVars, hostVars
<1>17. CASE Leave(c)
    BY <1>17 DEF Leave, callVars, hostVars
<1>18. CASE StopOwn(c)
    BY <1>18 DEF StopOwn, Goes, boxVars, hostVars
<1>19. CASE Finish(c)
    BY <1>19 DEF Finish, Tells, boxVars, hostVars
<1>20. CASE Sweep(c)
    BY <1>20 DEF Sweep, Goes, boxVars, hostVars
<1>21. CASE Peek(c)
    BY <1>21 DEF Peek, Goes, Tells, boxVars, hostVars
<1>22. CASE Claim(c)
    BY <1>22 DEF Claim, Tells, boxVars, hostVars
<1>23. CASE Preempt(c)
    BY <1>23 DEF Preempt, Goes, boxVars, hostVars
<1>24. CASE Mark(c)
    BY <1>24 DEF Mark, Goes, boxVars, hostVars
<1>25. CASE Halt(c)
    BY <1>25 DEF Halt, Tells, hostVars
<1>26. CASE HaltFails(c)
    BY <1>26 DEF HaltFails, Tells, boxVars, hostVars
<1>27. CASE Free(c)
    BY <1>27 DEF Free, boxVars, hostVars
<1> QED
    BY <1>1, <1>2, <1>3, <1>4, <1>5, <1>6, <1>7, <1>8, <1>9, <1>10, <1>11,
        <1>12, <1>13, <1>14, <1>15, <1>16, <1>17, <1>18, <1>19, <1>20, <1>21,
        <1>22, <1>23, <1>24, <1>25, <1>26, <1>27
        DEF Begin, Step, Asking, Queueing, Commanding, Stopping, Draining

LEMMA OuterIsHushed == ASSUME Wide, Hushed, Same, Outer PROVE Hushed'
<1> USE SameRequests, Asked DEF Wide, HostTypeOK
<1>1. CASE Crash
    <2>1. Housed'
        BY <1>1 DEF Crash, Hushed, Housed
    <2>2. ~draining' /\ calm' = {}
        BY <1>1 DEF Crash
    <2> QED
        BY <2>1, <2>2 DEF Hushed, Drained, Looking
<1>2. CASE DrainEnds
    BY <1>2 DEF DrainEnds, boxVars, callVars, Hushed, Housed, Drained, Looking, Nobody, Busy,
        Idle
<1>3. CASE (\E a \in Actors : Lapse(a)) \/ (\E o \in Ops : Prune(o))
    <2>1. UNCHANGED <<draining, calm, pc, box, inside>>
        BY <1>3 DEF Lapse, Prune, boxVars, callVars, hostVars
    <2>2. NoNews
        BY <2>1 DEF NoNews, Hushed, Housed
    <2> QED
        BY <2>2, NoNewsIsHushed
<1> QED
    BY <1>1, <1>2, <1>3 DEF Outer

LEMMA ArriveIsHushed == ASSUME Wide, Hushed, Same, NEW c \in Calls, Arrive(c) PROVE Hushed'
<1> USE SameRequests, Asked DEF Wide, HostTypeOK
<1>1. UNCHANGED <<box, inside, draining>>
    BY DEF Arrive, boxVars
<1>2. CASE draining
    <2>1. UNCHANGED calm /\ pc[c] = "idle" /\ pc' = [pc EXCEPT ![c] = "done"]
        BY <1>2 DEF Arrive, Tells
    <2>2. Kind(c) # "drain"
        BY DEF Arrive, Commands
    <2>3. NoNews
        BY <1>1, <2>1, <2>2 DEF NoNews, Hushed, Housed, Over
    <2> QED
        BY <2>3, NoNewsIsHushed
<1>3. CASE ~draining
    <2>1. calm' = {}
        BY <1>3 DEF Arrive
    <2> QED
        BY <1>1, <1>3, <2>1 DEF Hushed, Housed, Drained, Looking
<1> QED
    BY <1>2, <1>3

LEMMA DrainIsHushed ==
    ASSUME Wide, Hushed, Same, NEW c \in Calls,
           DrainAsks(c) \/ DrainLists(c) \/ DrainDecides(c)
    PROVE  Hushed'
<1> USE SameRequests, Asked DEF Wide, HostTypeOK, Fits
<1>1. Kind(c) = "drain" /\ UNCHANGED <<box, inside>>
    BY DEF DrainAsks, DrainLists, DrainDecides, Goes, Tells, boxVars
<1>2. Alone(c)
    BY CalledStep, StoredStep DEF Begin, Step, Draining
<1>3. Housed'
    BY <1>1 DEF Hushed, Housed
<1>4. (Nobody <=> Nobody') /\ (Idle <=> Idle')
    BY <1>1, <1>2 DEF Nobody, Busy, Idle, Alone
<1>5. CASE DrainAsks(c)
    <2>1. /\ UNCHANGED draining
          /\ pc[c] = "idle" /\ pc'[c] = "listing"
          /\ calm' = IF Nobody THEN calm \cup {c} ELSE calm
        BY <1>5, NobodyInFlight DEF DrainAsks, Goes
    <2>2. c \notin calm
        BY <2>1 DEF Hushed, Looking
    <2>3. Drained'
        BY <1>4, <2>1 DEF Hushed, Drained
    <2>4. ASSUME NEW d \in Calls PROVE Looking(d)'
        <3>1. CASE d = c
            BY <1>1, <1>4, <2>1, <2>2, <3>1 DEF Looking
        <3>2. CASE d # c
            BY <1>2, <1>4, <2>1, <3>2 DEF Hushed, Looking, Alone
        <3> QED
            BY <3>1, <3>2
    <2> QED
        BY <1>3, <2>3, <2>4 DEF Hushed
<1>6. CASE DrainLists(c)
    <2>1. /\ UNCHANGED <<draining, calm>>
          /\ pc[c] = "listing"
          /\ (pc'[c] = "deciding" /\ Idle) \/ pc'[c] = "done"
        BY <1>6, IdleRunsNothing DEF DrainLists, Goes, Tells, hostVars
    <2>2. Drained'
        BY <1>4, <2>1 DEF Hushed, Drained
    <2>3. ASSUME NEW d \in Calls PROVE Looking(d)'
        <3>1. CASE d = c
            BY <1>1, <1>4, <2>1, <3>1 DEF Hushed, Looking
        <3>2. CASE d # c
            BY <1>2, <1>4, <2>1, <3>2 DEF Hushed, Looking, Alone
        <3> QED
            BY <3>1, <3>2
    <2> QED
        BY <1>3, <2>2, <2>3 DEF Hushed
<1>7. CASE DrainDecides(c)
    <2>1. /\ UNCHANGED calm
          /\ pc[c] = "deciding" /\ pc'[c] = "done"
          /\ (c \in calm /\ Nobody) \/ UNCHANGED draining
        BY <1>7, NobodyInFlight DEF DrainDecides, MayDrain, Tells
    <2>2. Drained'
        BY <1>4, <2>1 DEF Hushed, Drained, Looking
    <2>3. ASSUME NEW d \in Calls PROVE Looking(d)'
        <3>1. CASE d = c
            BY <1>1, <1>4, <2>1, <3>1 DEF Hushed, Looking
        <3>2. CASE d # c
            BY <1>2, <1>4, <2>1, <3>2 DEF Hushed, Looking, Alone
        <3> QED
            BY <3>1, <3>2
    <2> QED
        BY <1>3, <2>2, <2>3 DEF Hushed
<1> QED
    BY <1>5, <1>6, <1>7

LEMMA HushedStep == ASSUME Wide, Hushed, [Next]_vars PROVE Hushed'
<1>1. Same
    BY AlwaysSame
<1>2. CASE \E c \in Calls : Begin(c) \/ Step(c)
    BY <1>1, <1>2, OthersAreNoNews, NoNewsIsHushed, ArriveIsHushed, DrainIsHushed
<1>3. CASE Outer
    BY <1>1, <1>3, OuterIsHushed
<1>4. CASE UNCHANGED vars
    BY <1>1, <1>4, NoNewsIsHushed DEF NoNews, Hushed, Housed, vars, boxVars, callVars, hostVars
<1> QED
    BY <1>2, <1>3, <1>4 DEF Next, Outer

\* While the host may be switched off no call is under way, no container runs and
\* nothing runs inside one (drain, tracked).
THEOREM DrainedHostIsQuiet == Spec => []DrainedIsQuiet
<1>1. Init => Hushed
    BY DEF Init, Hushed, Housed, Drained, Looking
<1>2. Wide /\ Hushed /\ [Next]_vars => Hushed'
    BY HushedStep
<1>3. ASSUME Wide, Hushed PROVE DrainedIsQuiet
    <2>1. CASE draining
        <3>1. Nobody /\ Idle
            BY <1>3, <2>1 DEF Hushed, Drained
        <3>2. inside = {}
            BY <1>3, <3>1, Asked DEF Hushed, Housed, Idle, Wide, HostTypeOK
        <3> QED
            BY <3>1, <3>2, NobodyInFlight, IdleRunsNothing DEF DrainedIsQuiet
    <2> QED
        BY <2>1 DEF DrainedIsQuiet
<1> QED
    BY <1>1, <1>2, <1>3, WideInit, WideStep, PTL DEF Spec

-----------------------------------------------------------------------------
(* Who holds a lease, and under whose token a stop works.                  *)

Early == {"idle", "lookup", "judging", "stale", "waiting", "peeking", "claiming",
          "preempting", "listing", "deciding"}

Used(d) == (\E a \in Actors : token[a] = d) \/ (\E s \in Calls : grip[s] = d)

\* A token belongs to a call that has begun its work, and a stop that is about to
\* pre-empt another call aims at a command.
Aimed ==
    /\ \A d \in Calls : Used(d) => pc[d] \notin Early /\ Kind(d) # "read"
    /\ \A s \in Calls : pc[s] = "preempting" => Kind(grip[s]) \in Commands

\* The step either takes no new token, or its own.
Aims(c) ==
    /\ pc'[c] \in Early => pc[c] \in Early \/ Kind(c) = "read"
    /\ \/ /\ pc'[c] \notin Early /\ Kind(c) # "read"
          /\ \A a \in Actors : token'[a] \in {token[a], c}
          /\ grip'[c] \in {grip[c], c, NoCall}
       \/ /\ UNCHANGED token
          /\ grip'[c] \in {grip[c], NoCall} \cup {token[a] : a \in Actors}
    /\ pc'[c] = "preempting" => Kind(grip'[c]) \in Commands

LEMMA AimsStep ==
    ASSUME Wide, NEW c \in Calls, Begin(c) \/ Step(c), Aimed
    PROVE  Aims(c)
<1> USE Asked DEF Wide, HostTypeOK, Fits, Aims, Early, Commands, Stops, Aimed, Ending
<1>1. CASE Arrive(c)
    BY <1>1 DEF Arrive, Tells, Goes, First, leaseVars
<1>2. CASE Read(c)
    BY <1>2 DEF Read, Goes, leaseVars
<1>3. CASE Lookup(c)
    BY <1>3 DEF Lookup, Done, Goes, leaseVars, Tells
<1>4. CASE Judge(c)
    BY <1>4 DEF Judge, Done, Goes, leaseVars, Tells
<1>5. CASE GiveUpOn(c)
    BY <1>5 DEF GiveUpOn, Done, leaseVars, Tells
<1>6. CASE Acquire(c)
    BY <1>6 DEF Acquire, Win, Goes, Tells
<1>7. CASE GiveUp(c)
    BY <1>7 DEF GiveUp, Tells, leaseVars
<1>8. CASE Release(c)
    BY <1>8 DEF Release, Goes
<1>9. CASE Check(c)
    BY <1>9 DEF Check, Goes, Tells, leaseVars
<1>10. CASE CheckSlot(c)
    <2>1. UNCHANGED <<token, grip>>
        BY <1>10 DEF CheckSlot, leaseVars, Tells, Goes
    <2>2. \E to \in {"releasing", "creating"} : pc' = [pc EXCEPT ![c] = to]
        BY <1>10 DEF CheckSlot, Tells, Goes
    <2> QED
        BY <2>1, <2>2
<1>11. CASE Create(c)
    BY <1>11 DEF Create, Tells, leaseVars
<1>12. CASE Insert(c)
    BY <1>12 DEF Insert, Goes, Tells, leaseVars
<1>13. CASE Confirm(c)
    BY <1>13 DEF Confirm, Goes, Tells, leaseVars
<1>14. CASE Land(c)
    BY <1>14 DEF Land, Goes, Tells, leaseVars
<1>15. CASE LandFails(c)
    BY <1>15 DEF LandFails, Tells, leaseVars
<1>16. CASE Exit(c)
    BY <1>16 DEF Exit, Tells, leaseVars
<1>17. CASE Lose(c)
    BY <1>17 DEF Lose, Tells, leaseVars
<1>18. CASE Leave(c)
    BY <1>18 DEF Leave, leaseVars, callVars
<1>19. CASE StopOwn(c)
    BY <1>19 DEF StopOwn, TakeOver, Goes, leaseVars
<1>20. CASE Finish(c)
    BY <1>20 DEF Finish, Tells, leaseVars
<1>21. CASE Sweep(c)
    BY <1>21 DEF Sweep, Goes, leaseVars
<1>22. CASE Peek(c)
    BY <1>22 DEF Peek, Goes, Tells, leaseVars
<1>23. CASE Claim(c)
    BY <1>23 DEF Claim, Win, Tells, leaseVars
<1>24. CASE Preempt(c)
    BY <1>24 DEF Preempt, TakeOver, Goes, leaseVars
<1>25. CASE Mark(c)
    BY <1>25 DEF Mark, Goes, leaseVars
<1>26. CASE Halt(c)
    BY <1>26 DEF Halt, Tells, leaseVars
<1>27. CASE HaltFails(c)
    BY <1>27 DEF HaltFails, Tells, leaseVars
<1>28. CASE Free(c)
    BY <1>28 DEF Free
<1>29. CASE DrainAsks(c)
    BY <1>29 DEF DrainAsks, Goes, leaseVars
<1>30. CASE DrainLists(c)
    BY <1>30 DEF DrainLists, Goes, Tells, leaseVars
<1>31. CASE DrainDecides(c)
    BY <1>31 DEF DrainDecides, Tells, leaseVars
<1> QED
    BY <1>1, <1>2, <1>3, <1>4, <1>5, <1>6, <1>7, <1>8, <1>9, <1>10, <1>11,
        <1>12, <1>13, <1>14, <1>15, <1>16, <1>17, <1>18, <1>19, <1>20, <1>21,
        <1>22, <1>23, <1>24, <1>25, <1>26, <1>27, <1>28, <1>29, <1>30, <1>31
        DEF Begin, Step, Asking, Queueing, Commanding, Stopping, Draining

LEMMA NoCallIsNone == NoCall \notin Calls
BY HostAssumption

LEMMA AimedStep == ASSUME Wide, Aimed, [Next]_vars PROVE Aimed'
<1> USE SameRequests, NoCallIsNone DEF Wide, HostTypeOK
<1>1. Same
    BY AlwaysSame
<1>2. CASE \E c \in Calls : Begin(c) \/ Step(c)
    <2>1. PICK c \in Calls : Begin(c) \/ Step(c)
        BY <1>2
    <2>2. Alone(c) /\ Aims(c)
        BY <2>1, StoredStep, CalledStep, AimsStep
    <2>3. ASSUME NEW d \in Calls, Used(d)' PROVE pc'[d] \notin Early /\ Kind(d)' # "read"
        <3>1. CASE Used(d)
            BY <1>1, <2>2, <3>1 DEF Aimed, Aims, Alone
        <3>2. CASE ~Used(d)
            <4>1. d = c
                BY <2>2, <2>3, <3>2 DEF Used, Aims, Alone
            <4>2. pc'[c] \notin Early /\ Kind(c) # "read"
                BY <2>2, <2>3, <3>2, <4>1 DEF Used, Aims, Alone
            <4> QED
                BY <1>1, <4>1, <4>2
        <3> QED
            BY <3>1, <3>2
    <2>4. ASSUME NEW s \in Calls, pc'[s] = "preempting" PROVE Kind(grip[s])' \in Commands
        BY <1>1, <2>2, <2>4 DEF Aimed, Aims, Alone
    <2> QED
        BY <2>3, <2>4 DEF Aimed
<1>3. CASE Crash
    BY <1>1, <1>3 DEF Crash, Aimed, Used, Early, Over, leaseVars
<1>4. CASE UNCHANGED <<token, callVars>>
    BY <1>1, <1>4 DEF Aimed, Used, callVars
<1>5. CASE Outer
    BY <1>3, <1>4, <1>5 DEF Outer, Lapse, Prune, DrainEnds, leaseVars
<1>6. CASE UNCHANGED vars
    BY <1>4, <1>6 DEF vars, leaseVars
<1> QED
    BY <1>2, <1>5, <1>6 DEF Next, Outer

-----------------------------------------------------------------------------
(* Nothing but a job in the background runs without its lease.             *)

Inside(c) == c \in inside /\ Kind(c) # "background"

\* Whoever runs inside has the lease, and unless it is still being waited for, or
\* was left behind by a crash, a stop is at work under that lease.
InsideHasLease(c) ==
    Inside(c) => /\ live[Actor(c)] /\ token[Actor(c)] = c
                 /\ pc[c] \in {"running", "lost", "halting", "gone"} \/ stopping[Actor(c)]

SentHasLease(c) ==
    pc[c] = "launching" => live[Actor(c)] /\ token[Actor(c)] = c

\* Nobody takes the lease of a file operation over.
FileHasLease(c) == pc[c] = "checking" /\ Kind(c) = "file" => Holds(c, c)

\* The lease a stop works under.
Under(s) == live[Actor(s)] /\ grip[s] = token[Actor(s)]

StopHasLease(s) ==
    pc[s] \in Ending /\ Under(s) =>
        stopping[Actor(s)] \/ (token[Actor(s)] = s /\ Kind(s) \in Stops)

\* By the time it hands the lease back, nobody is left inside or on the way.
StopIsAlone(s) ==
    pc[s] = "freeing" /\ Under(s) =>
        \A c \in Calls : Actor(c) = Actor(s) => pc[c] # "launching" /\ ~Inside(c)

Leased ==
    \A c \in Calls : /\ InsideHasLease(c)
                     /\ SentHasLease(c)
                     /\ FileHasLease(c)
                     /\ StopHasLease(c)
                     /\ StopIsAlone(c)

\* A step that leaves leases and containers alone, and neither sends anything to
\* Docker nor begins a stop.
Apart(c) ==
    /\ Alone(c)
    /\ UNCHANGED <<token, live, stopping, inside>>
    /\ pc'[c] \notin {"checking", "launching"} \cup Ending
    /\ pc[c] \notin {"running", "lost", "halting", "gone"}

LEMMA ApartKeepsLeased ==
    ASSUME Wide, Leased, Same, NEW c \in Calls, Apart(c)
    PROVE  Leased'
<1> USE SameRequests, Asked DEF Wide, HostTypeOK
<1> SUFFICES ASSUME NEW d \in Calls
             PROVE  /\ InsideHasLease(d)' /\ SentHasLease(d)' /\ FileHasLease(d)'
                    /\ StopHasLease(d)' /\ StopIsAlone(d)'
    BY DEF Leased
<1>1. InsideHasLease(d)'
    BY DEF Leased, Apart, Alone, InsideHasLease, Inside
<1>2. SentHasLease(d)'
    BY DEF Leased, Apart, Alone, SentHasLease
<1>3. FileHasLease(d)'
    BY DEF Leased, Apart, Alone, FileHasLease, Holds
<1>4. StopHasLease(d)'
    BY DEF Leased, Apart, Alone, StopHasLease, Under
<1>5. StopIsAlone(d)'
    BY DEF Leased, Apart, Alone, StopIsAlone, Under, Inside, Ending
<1> QED
    BY <1>1, <1>2, <1>3, <1>4, <1>5

LEMMA ApartStep ==
    ASSUME Wide, NEW c \in Calls, Alone(c),
           \/ Begin(c) \/ Asking(c) \/ GiveUp(c) \/ CheckSlot(c) \/ Create(c) \/ Insert(c)
           \/ LandFails(c) \/ Finish(c) \/ Peek(c) \/ Draining(c)
    PROVE  Apart(c)
<1> USE Asked DEF Wide, HostTypeOK, Apart, Ending
<1>1. CASE Arrive(c)
    BY <1>1 DEF Arrive, Tells, Goes, First, leaseVars, boxVars
<1>2. CASE Sweep(c)
    BY <1>2 DEF Sweep, Goes, leaseVars, boxVars
<1>3. CASE DrainAsks(c)
    BY <1>3 DEF DrainAsks, Goes, leaseVars, boxVars
<1>4. CASE Read(c)
    BY <1>4 DEF Read, Goes, leaseVars, boxVars
<1>5. CASE Lookup(c)
    BY <1>5 DEF Lookup, Done, Goes, leaseVars, boxVars, Tells
<1>6. CASE Judge(c)
    BY <1>6 DEF Judge, Done, Goes, leaseVars, boxVars, Tells
<1>7. CASE GiveUpOn(c)
    BY <1>7 DEF GiveUpOn, Done, leaseVars, boxVars, Tells
<1>8. CASE GiveUp(c)
    BY <1>8 DEF GiveUp, Tells, leaseVars, boxVars
<1>9. CASE CheckSlot(c)
    <2>1. UNCHANGED <<token, live, stopping, inside>>
        BY <1>9 DEF CheckSlot, leaseVars
    <2>2. pc[c] = "checking" /\ pc'[c] \in {"releasing", "creating"}
        BY <1>9 DEF CheckSlot, Tells, Goes
    <2> QED
        BY <2>1, <2>2
<1>10. CASE Create(c)
    BY <1>10 DEF Create, Tells, leaseVars
<1>11. CASE Insert(c)
    BY <1>11 DEF Insert, Goes, Tells, leaseVars, boxVars
<1>12. CASE LandFails(c)
    BY <1>12 DEF LandFails, Tells, leaseVars, boxVars
<1>13. CASE Finish(c)
    BY <1>13 DEF Finish, Tells, leaseVars, boxVars
<1>14. CASE Peek(c)
    BY <1>14 DEF Peek, Goes, Tells, leaseVars, boxVars
<1>15. CASE DrainLists(c)
    BY <1>15 DEF DrainLists, Goes, Tells, leaseVars, boxVars
<1>16. CASE DrainDecides(c)
    BY <1>16 DEF DrainDecides, Tells, leaseVars, boxVars
<1> QED
    BY <1>1, <1>2, <1>3, <1>4, <1>5, <1>6, <1>7, <1>8, <1>9, <1>10, <1>11,
        <1>12, <1>13, <1>14, <1>15, <1>16
        DEF Begin, Asking, Draining

LEMMA AcquireKeepsLeased ==
    ASSUME Wide, Aimed, Leased, Same, NEW c \in Calls, Acquire(c), Alone(c)
    PROVE  Leased'
<1> USE SameRequests, Asked, NoCallIsNone
    DEF Wide, HostTypeOK, Fits, Leased, Inside, Under, Holds, Alone, Ending
<1> SUFFICES ASSUME NEW d \in Calls
             PROVE  /\ InsideHasLease(d)' /\ SentHasLease(d)' /\ FileHasLease(d)'
                    /\ StopHasLease(d)' /\ StopIsAlone(d)'
    OBVIOUS
<1>1. /\ ~live[Actor(c)] /\ pc[c] = "waiting" /\ pc'[c] \in {"checking", "releasing"}
      /\ token' = [token EXCEPT ![Actor(c)] = c]
      /\ live' = [live EXCEPT ![Actor(c)] = TRUE]
      /\ stopping' = [stopping EXCEPT ![Actor(c)] = FALSE]
      /\ UNCHANGED <<inside, grip>>
    BY DEF Acquire, Win, Goes, Tells, boxVars
<1>2. InsideHasLease(d)'
    BY <1>1 DEF InsideHasLease
<1>3. SentHasLease(d)'
    BY <1>1 DEF SentHasLease
<1>4. FileHasLease(d)'
    BY <1>1 DEF FileHasLease
<1>5. StopHasLease(d)'
    BY <1>1 DEF StopHasLease, Aimed, Used, Early
<1>6. StopIsAlone(d)'
    BY <1>1 DEF StopIsAlone, Aimed, Used, Early
<1> QED
    BY <1>2, <1>3, <1>4, <1>5, <1>6

LEMMA ReleaseKeepsLeased ==
    ASSUME Wide, Aimed, Leased, Same, NEW c \in Calls, Release(c), Alone(c)
    PROVE  Leased'
<1> USE SameRequests, Asked, NoCallIsNone
    DEF Wide, HostTypeOK, Fits, Leased, Inside, Under, Holds, Alone, Ending
<1> SUFFICES ASSUME NEW d \in Calls
             PROVE  /\ InsideHasLease(d)' /\ SentHasLease(d)' /\ FileHasLease(d)'
                    /\ StopHasLease(d)' /\ StopIsAlone(d)'
    OBVIOUS
<1>1. /\ pc[c] = "releasing" /\ pc'[c] = "done"
      /\ live' = [live EXCEPT ![Actor(c)] =
                     @ /\ (token[Actor(c)] # c \/ stopping[Actor(c)])]
      /\ UNCHANGED <<token, stopping, inside, grip>>
    BY DEF Release, Goes, boxVars
<1>2. InsideHasLease(d)'
    BY <1>1 DEF InsideHasLease
<1>3. SentHasLease(d)'
    BY <1>1 DEF SentHasLease
<1>4. FileHasLease(d)'
    BY <1>1 DEF FileHasLease
<1>5. StopHasLease(d)'
    BY <1>1 DEF StopHasLease
<1>6. StopIsAlone(d)'
    BY <1>1 DEF StopIsAlone
<1> QED
    BY <1>2, <1>3, <1>4, <1>5, <1>6

LEMMA CheckKeepsLeased ==
    ASSUME Wide, Aimed, Leased, Same, NEW c \in Calls, Check(c), Alone(c)
    PROVE  Leased'
<1> USE SameRequests, Asked, NoCallIsNone
    DEF Wide, HostTypeOK, Fits, Leased, Inside, Under, Holds, Alone, Ending
<1> SUFFICES ASSUME NEW d \in Calls
             PROVE  /\ InsideHasLease(d)' /\ SentHasLease(d)' /\ FileHasLease(d)'
                    /\ StopHasLease(d)' /\ StopIsAlone(d)'
    OBVIOUS
<1>1. /\ pc[c] = "checking"
      /\ pc'[c] \in {"inserting", "releasing"} \/ (pc'[c] = "launching" /\ Kind(c) = "file")
      /\ UNCHANGED <<token, live, stopping, inside, grip>>
    BY DEF Check, Goes, Tells, leaseVars, boxVars
<1>2. InsideHasLease(d)'
    BY <1>1 DEF InsideHasLease
<1>3. SentHasLease(d)'
    BY <1>1 DEF SentHasLease, FileHasLease
<1>4. FileHasLease(d)'
    BY <1>1 DEF FileHasLease
<1>5. StopHasLease(d)'
    BY <1>1 DEF StopHasLease
<1>6. StopIsAlone(d)'
    BY <1>1 DEF StopIsAlone, StopHasLease, FileHasLease, Stops
<1> QED
    BY <1>2, <1>3, <1>4, <1>5, <1>6

LEMMA ConfirmKeepsLeased ==
    ASSUME Wide, Aimed, Leased, Same, NEW c \in Calls, Confirm(c), Alone(c)
    PROVE  Leased'
<1> USE SameRequests, Asked, NoCallIsNone
    DEF Wide, HostTypeOK, Fits, Leased, Inside, Under, Holds, Alone, Ending
<1> SUFFICES ASSUME NEW d \in Calls
             PROVE  /\ InsideHasLease(d)' /\ SentHasLease(d)' /\ FileHasLease(d)'
                    /\ StopHasLease(d)' /\ StopIsAlone(d)'
    OBVIOUS
<1>1. /\ pc[c] = "confirming"
      /\ pc'[c] = "releasing" \/ (pc'[c] = "launching" /\ Holds(c, c))
      /\ UNCHANGED <<token, live, stopping, inside, grip>>
    BY DEF Confirm, Goes, Tells, leaseVars, boxVars
<1>2. InsideHasLease(d)'
    BY <1>1 DEF InsideHasLease
<1>3. SentHasLease(d)'
    BY <1>1 DEF SentHasLease
<1>4. FileHasLease(d)'
    BY <1>1 DEF FileHasLease
<1>5. StopHasLease(d)'
    BY <1>1 DEF StopHasLease
<1>6. StopIsAlone(d)'
    BY <1>1 DEF StopIsAlone, StopHasLease, Stops, Commands
<1> QED
    BY <1>2, <1>3, <1>4, <1>5, <1>6

LEMMA LandKeepsLeased ==
    ASSUME Wide, Aimed, Leased, Same, NEW c \in Calls, Land(c), Alone(c)
    PROVE  Leased'
<1> USE SameRequests, Asked, NoCallIsNone
    DEF Wide, HostTypeOK, Fits, Leased, Inside, Under, Holds, Alone, Ending
<1> SUFFICES ASSUME NEW d \in Calls
             PROVE  /\ InsideHasLease(d)' /\ SentHasLease(d)' /\ FileHasLease(d)'
                    /\ StopHasLease(d)' /\ StopIsAlone(d)'
    OBVIOUS
<1>1. /\ pc[c] = "launching" /\ inside' = inside \cup {c}
      /\ pc'[c] = "running" \/ (pc'[c] = "ran" /\ Kind(c) = "background")
      /\ UNCHANGED <<token, live, stopping, grip>>
    BY DEF Land, Goes, Tells, leaseVars
<1>2. InsideHasLease(d)'
    BY <1>1 DEF InsideHasLease, SentHasLease
<1>3. SentHasLease(d)'
    BY <1>1 DEF SentHasLease
<1>4. FileHasLease(d)'
    BY <1>1 DEF FileHasLease
<1>5. StopHasLease(d)'
    BY <1>1 DEF StopHasLease
<1>6. StopIsAlone(d)'
    BY <1>1 DEF StopIsAlone
<1> QED
    BY <1>2, <1>3, <1>4, <1>5, <1>6

LEMMA ExitKeepsLeased ==
    ASSUME Wide, Aimed, Leased, Same, NEW c \in Calls, Exit(c), Alone(c)
    PROVE  Leased'
<1> USE SameRequests, Asked, NoCallIsNone
    DEF Wide, HostTypeOK, Fits, Leased, Inside, Under, Holds, Alone, Ending
<1> SUFFICES ASSUME NEW d \in Calls
             PROVE  /\ InsideHasLease(d)' /\ SentHasLease(d)' /\ FileHasLease(d)'
                    /\ StopHasLease(d)' /\ StopIsAlone(d)'
    OBVIOUS
<1>1. /\ pc[c] = "running" /\ pc'[c] = "ran" /\ inside' = inside \ {c}
      /\ UNCHANGED <<token, live, stopping, grip>>
    BY DEF Exit, Tells, leaseVars
<1>2. InsideHasLease(d)'
    BY <1>1 DEF InsideHasLease
<1>3. SentHasLease(d)'
    BY <1>1 DEF SentHasLease
<1>4. FileHasLease(d)'
    BY <1>1 DEF FileHasLease
<1>5. StopHasLease(d)'
    BY <1>1 DEF StopHasLease
<1>6. StopIsAlone(d)'
    BY <1>1 DEF StopIsAlone
<1> QED
    BY <1>2, <1>3, <1>4, <1>5, <1>6

LEMMA LoseKeepsLeased ==
    ASSUME Wide, Aimed, Leased, Same, NEW c \in Calls, Lose(c), Alone(c), mishaps' = {}
    PROVE  Leased'
<1> USE SameRequests, Asked, NoCallIsNone
    DEF Wide, HostTypeOK, Fits, Leased, Inside, Under, Holds, Alone, Ending
<1> SUFFICES ASSUME NEW d \in Calls
             PROVE  /\ InsideHasLease(d)' /\ SentHasLease(d)' /\ FileHasLease(d)'
                    /\ StopHasLease(d)' /\ StopIsAlone(d)'
    OBVIOUS
<1>1. /\ pc[c] = "running"
      /\ pc'[c] = "lost" \/ (pc'[c] = "ran" /\ c \notin inside)
      /\ UNCHANGED <<token, live, stopping, inside, grip>>
    BY DEF Lose, Mishap, Tells, leaseVars, boxVars
<1>2. InsideHasLease(d)'
    BY <1>1 DEF InsideHasLease
<1>3. SentHasLease(d)'
    BY <1>1 DEF SentHasLease
<1>4. FileHasLease(d)'
    BY <1>1 DEF FileHasLease
<1>5. StopHasLease(d)'
    BY <1>1 DEF StopHasLease
<1>6. StopIsAlone(d)'
    BY <1>1 DEF StopIsAlone
<1> QED
    BY <1>2, <1>3, <1>4, <1>5, <1>6

LEMMA LeaveKeepsLeased ==
    ASSUME Wide, Aimed, Leased, Same, NEW c \in Calls, Leave(c), Alone(c)
    PROVE  Leased'
<1> USE SameRequests, Asked, NoCallIsNone
    DEF Wide, HostTypeOK, Fits, Leased, Inside, Under, Holds, Alone, Ending
<1> SUFFICES ASSUME NEW d \in Calls
             PROVE  /\ InsideHasLease(d)' /\ SentHasLease(d)' /\ FileHasLease(d)'
                    /\ StopHasLease(d)' /\ StopIsAlone(d)'
    OBVIOUS
<1>1. /\ inside' = inside \ {c}
      /\ UNCHANGED <<token, live, stopping, grip, pc>>
    BY DEF Leave, leaseVars, callVars
<1>2. InsideHasLease(d)'
    BY <1>1 DEF InsideHasLease
<1>3. SentHasLease(d)'
    BY <1>1 DEF SentHasLease
<1>4. FileHasLease(d)'
    BY <1>1 DEF FileHasLease
<1>5. StopHasLease(d)'
    BY <1>1 DEF StopHasLease
<1>6. StopIsAlone(d)'
    BY <1>1 DEF StopIsAlone
<1> QED
    BY <1>2, <1>3, <1>4, <1>5, <1>6

LEMMA StopOwnKeepsLeased ==
    ASSUME Wide, Aimed, Leased, Same, NEW c \in Calls, StopOwn(c), Alone(c)
    PROVE  Leased'
<1> USE SameRequests, Asked, NoCallIsNone
    DEF Wide, HostTypeOK, Fits, Leased, Inside, Under, Holds, Alone, Ending
<1> SUFFICES ASSUME NEW d \in Calls
             PROVE  /\ InsideHasLease(d)' /\ SentHasLease(d)' /\ FileHasLease(d)'
                    /\ StopHasLease(d)' /\ StopIsAlone(d)'
    OBVIOUS
<1>1. /\ pc[c] = "lost" /\ UNCHANGED <<token, live, inside>>
      /\ \/ /\ Holds(c, c) /\ stopping' = [stopping EXCEPT ![Actor(c)] = TRUE]
            /\ pc'[c] = "halting"
         \/ /\ ~Holds(c, c) /\ UNCHANGED stopping /\ pc'[c] = "ran"
    BY DEF StopOwn, TakeOver, Goes, leaseVars, boxVars
<1>2. InsideHasLease(d)'
    BY <1>1 DEF InsideHasLease
<1>3. SentHasLease(d)'
    BY <1>1 DEF SentHasLease
<1>4. FileHasLease(d)'
    BY <1>1 DEF FileHasLease
<1>5. StopHasLease(d)'
    BY <1>1 DEF StopHasLease
<1>6. StopIsAlone(d)'
    BY <1>1 DEF StopIsAlone
<1> QED
    BY <1>2, <1>3, <1>4, <1>5, <1>6

LEMMA ClaimKeepsLeased ==
    ASSUME Wide, Aimed, Leased, Same, NEW c \in Calls, Claim(c), Alone(c)
    PROVE  Leased'
<1> USE SameRequests, Asked, NoCallIsNone
    DEF Wide, HostTypeOK, Fits, Leased, Inside, Under, Holds, Alone, Ending
<1> SUFFICES ASSUME NEW d \in Calls
             PROVE  /\ InsideHasLease(d)' /\ SentHasLease(d)' /\ FileHasLease(d)'
                    /\ StopHasLease(d)' /\ StopIsAlone(d)'
    OBVIOUS
<1>1. /\ pc[c] = "claiming" /\ UNCHANGED inside
      /\ \/ /\ ~live[Actor(c)] /\ pc'[c] = "marking" /\ grip' = [grip EXCEPT ![c] = c]
            /\ token' = [token EXCEPT ![Actor(c)] = c]
            /\ live' = [live EXCEPT ![Actor(c)] = TRUE]
            /\ stopping' = [stopping EXCEPT ![Actor(c)] = FALSE]
         \/ UNCHANGED <<token, live, stopping, grip>> /\ pc'[c] = "done"
    BY DEF Claim, Win, Tells, leaseVars, boxVars
<1>2. InsideHasLease(d)'
    BY <1>1 DEF InsideHasLease
<1>3. SentHasLease(d)'
    BY <1>1 DEF SentHasLease
<1>4. FileHasLease(d)'
    BY <1>1 DEF FileHasLease
<1>5. StopHasLease(d)'
    BY <1>1 DEF StopHasLease, Aimed, Used, Early
<1>6. StopIsAlone(d)'
    BY <1>1 DEF StopIsAlone, Aimed, Used, Early
<1> QED
    BY <1>2, <1>3, <1>4, <1>5, <1>6

LEMMA PreemptKeepsLeased ==
    ASSUME Wide, Aimed, Leased, Same, NEW c \in Calls, Preempt(c), Alone(c)
    PROVE  Leased'
<1> USE SameRequests, Asked, NoCallIsNone
    DEF Wide, HostTypeOK, Fits, Leased, Inside, Under, Holds, Alone, Ending
<1> SUFFICES ASSUME NEW d \in Calls
             PROVE  /\ InsideHasLease(d)' /\ SentHasLease(d)' /\ FileHasLease(d)'
                    /\ StopHasLease(d)' /\ StopIsAlone(d)'
    OBVIOUS
<1>1. /\ pc[c] = "preempting" /\ UNCHANGED <<token, live, inside>>
      /\ \/ /\ Holds(c, grip[c]) /\ stopping' = [stopping EXCEPT ![Actor(c)] = TRUE]
            /\ pc'[c] = "marking" /\ UNCHANGED grip
         \/ UNCHANGED stopping /\ pc'[c] = "done"
    BY DEF Preempt, TakeOver, Goes, leaseVars, boxVars
<1>2. InsideHasLease(d)'
    BY <1>1 DEF InsideHasLease
<1>3. SentHasLease(d)'
    BY <1>1 DEF SentHasLease
<1>4. FileHasLease(d)'
    BY <1>1 DEF FileHasLease, Aimed, Commands
<1>5. StopHasLease(d)'
    BY <1>1 DEF StopHasLease
<1>6. StopIsAlone(d)'
    BY <1>1 DEF StopIsAlone
<1> QED
    BY <1>2, <1>3, <1>4, <1>5, <1>6

LEMMA MarkKeepsLeased ==
    ASSUME Wide, Aimed, Leased, Same, NEW c \in Calls, Mark(c), Alone(c)
    PROVE  Leased'
<1> USE SameRequests, Asked, NoCallIsNone
    DEF Wide, HostTypeOK, Fits, Leased, Inside, Under, Holds, Alone, Ending
<1> SUFFICES ASSUME NEW d \in Calls
             PROVE  /\ InsideHasLease(d)' /\ SentHasLease(d)' /\ FileHasLease(d)'
                    /\ StopHasLease(d)' /\ StopIsAlone(d)'
    OBVIOUS
<1>1. /\ pc[c] = "marking" /\ pc'[c] = "halting"
      /\ UNCHANGED <<token, live, stopping, inside, grip>>
    BY DEF Mark, Goes, leaseVars, boxVars
<1>2. InsideHasLease(d)'
    BY <1>1 DEF InsideHasLease
<1>3. SentHasLease(d)'
    BY <1>1 DEF SentHasLease
<1>4. FileHasLease(d)'
    BY <1>1 DEF FileHasLease
<1>5. StopHasLease(d)'
    BY <1>1 DEF StopHasLease
<1>6. StopIsAlone(d)'
    BY <1>1 DEF StopIsAlone
<1> QED
    BY <1>2, <1>3, <1>4, <1>5, <1>6

LEMMA HaltKeepsLeased ==
    ASSUME Wide, Aimed, Leased, Same, NEW c \in Calls, Halt(c), Alone(c), mishaps' = {}
    PROVE  Leased'
<1> USE SameRequests, Asked, NoCallIsNone
    DEF Wide, HostTypeOK, Fits, Leased, Inside, Under, Holds, Alone, Ending
<1> SUFFICES ASSUME NEW d \in Calls
             PROVE  /\ InsideHasLease(d)' /\ SentHasLease(d)' /\ FileHasLease(d)'
                    /\ StopHasLease(d)' /\ StopIsAlone(d)'
    OBVIOUS
<1>1. /\ pc[c] = "halting" /\ pc'[c] = "freeing"
      /\ inside' = {e \in inside : Actor(e) # Actor(c)}
      /\ \A e \in Calls : Actor(e) = Actor(c) => pc[e] # "launching"
      /\ UNCHANGED <<token, live, stopping, grip>>
    BY DEF Halt, Sent, Mishap, Tells, leaseVars
<1>2. InsideHasLease(d)'
    BY <1>1 DEF InsideHasLease
<1>3. SentHasLease(d)'
    BY <1>1 DEF SentHasLease
<1>4. FileHasLease(d)'
    BY <1>1 DEF FileHasLease
<1>5. StopHasLease(d)'
    BY <1>1 DEF StopHasLease
<1>6. StopIsAlone(d)'
    BY <1>1 DEF StopIsAlone
<1> QED
    BY <1>2, <1>3, <1>4, <1>5, <1>6

LEMMA FreeKeepsLeased ==
    ASSUME Wide, Aimed, Leased, Same, NEW c \in Calls, Free(c), Alone(c)
    PROVE  Leased'
<1> USE SameRequests, Asked, NoCallIsNone
    DEF Wide, HostTypeOK, Fits, Leased, Inside, Under, Holds, Alone, Ending
<1> SUFFICES ASSUME NEW d \in Calls
             PROVE  /\ InsideHasLease(d)' /\ SentHasLease(d)' /\ FileHasLease(d)'
                    /\ StopHasLease(d)' /\ StopIsAlone(d)'
    OBVIOUS
<1>1. /\ pc[c] = "freeing" /\ pc'[c] \in {"ran", "done"} /\ UNCHANGED <<token, inside>>
      /\ live' = [live EXCEPT ![Actor(c)] = @ /\ token[Actor(c)] # grip[c]]
      /\ stopping' = [stopping EXCEPT ![Actor(c)] = @ /\ token[Actor(c)] # grip[c]]
    BY DEF Free, boxVars
<1>2. InsideHasLease(d)'
    BY <1>1 DEF InsideHasLease, StopIsAlone
<1>3. SentHasLease(d)'
    BY <1>1 DEF SentHasLease, StopIsAlone
<1>4. FileHasLease(d)'
    BY <1>1 DEF FileHasLease, StopHasLease, Stops
<1>5. StopHasLease(d)'
    BY <1>1 DEF StopHasLease
<1>6. StopIsAlone(d)'
    BY <1>1 DEF StopIsAlone
<1> QED
    BY <1>2, <1>3, <1>4, <1>5, <1>6

LEMMA StepKeepsLeased ==
    ASSUME Wide, Aimed, Leased, Same, mishaps' = {}, NEW c \in Calls, Begin(c) \/ Step(c)
    PROVE  Leased'
<1>1. Alone(c)
    BY StoredStep, CalledStep
<1>2. ~HaltFails(c)
    BY DEF HaltFails, Mishap
<1>3. CASE \/ Begin(c) \/ Asking(c) \/ GiveUp(c) \/ CheckSlot(c) \/ Create(c) \/ Insert(c)
           \/ LandFails(c) \/ Finish(c) \/ Peek(c) \/ Draining(c)
    BY <1>1, <1>3, ApartStep, ApartKeepsLeased
<1>4. CASE Acquire(c) \/ Check(c) \/ Release(c)
    BY <1>1, <1>4, AcquireKeepsLeased, CheckKeepsLeased, ReleaseKeepsLeased
<1>5. CASE Confirm(c) \/ Land(c) \/ Exit(c) \/ Lose(c) \/ Leave(c)
    BY <1>1, <1>5, ConfirmKeepsLeased, LandKeepsLeased, ExitKeepsLeased, LoseKeepsLeased,
       LeaveKeepsLeased
<1>6. CASE StopOwn(c) \/ Claim(c) \/ Preempt(c) \/ Mark(c) \/ Halt(c) \/ Free(c)
    BY <1>1, <1>6, StopOwnKeepsLeased, ClaimKeepsLeased, PreemptKeepsLeased,
       MarkKeepsLeased, HaltKeepsLeased, FreeKeepsLeased
<1> QED
    BY <1>2, <1>3, <1>4, <1>5, <1>6 DEF Step, Queueing, Commanding, Stopping

LEMMA OuterKeepsLeased ==
    ASSUME Wide, Aimed, Leased, Same, mishaps' = {}, Outer
    PROVE  Leased'
<1> USE SameRequests, Asked, NoCallIsNone
    DEF Wide, HostTypeOK, Leased, Inside, Under, Holds, InsideHasLease, SentHasLease,
        FileHasLease, StopHasLease, StopIsAlone
<1>1. CASE Crash
    BY <1>1 DEF Crash, Aimed, Used, leaseVars, Over, Ending
<1>2. CASE (\E o \in Ops : Prune(o)) \/ DrainEnds
    BY <1>2 DEF Prune, DrainEnds, leaseVars, boxVars, callVars
<1>3. ASSUME NEW a \in Actors, Lapse(a) PROVE Leased'
    <2>1. ~Covered(a)
        BY <1>3 DEF Lapse, Mishap
    <2>2. live' = [live EXCEPT ![a] = FALSE] /\ UNCHANGED <<token, stopping, pc, grip, inside>>
        BY <1>3 DEF Lapse, boxVars, callVars
    <2>3. \A c \in Calls : token[a] = c =>
              pc[c] \notin {"checking", "launching"} /\ ~Inside(c)
        BY <2>1 DEF Covered, Working
    <2> QED
        BY <2>2, <2>3
<1> QED
    BY <1>1, <1>2, <1>3 DEF Outer

LEMMA MishapsStay == ASSUME [Next]_vars PROVE mishaps \subseteq mishaps'
BY DEF Next, Begin, Step, Asking, Queueing, Commanding, Stopping, Draining, vars, Mishap,
       Arrive, Read, Lookup, Judge, GiveUpOn, Acquire, GiveUp, Release, Check, CheckSlot,
       Create, Insert, Confirm, Land, LandFails, Exit, Lose, Leave, StopOwn, Finish, Sweep,
       Peek, Claim, Preempt, Mark, Halt, HaltFails, Free, Prune, DrainAsks, DrainLists,
       DrainDecides, DrainEnds, Lapse, Crash

LeasedInv == mishaps = {} => Leased

LEMMA LeasedStep == ASSUME Wide, Aimed, LeasedInv, [Next]_vars PROVE LeasedInv'
<1> SUFFICES ASSUME mishaps' = {} PROVE Leased'
    BY DEF LeasedInv
<1>1. Same /\ Leased
    BY AlwaysSame, MishapsStay DEF LeasedInv
<1>2. CASE \E c \in Calls : Begin(c) \/ Step(c)
    BY <1>1, <1>2, StepKeepsLeased
<1>3. CASE Outer
    BY <1>1, <1>3, OuterKeepsLeased
<1>4. CASE UNCHANGED vars
    BY <1>1, <1>4, SameRequests DEF Leased, Inside, Under, Holds, InsideHasLease, SentHasLease,
       FileHasLease, StopHasLease, StopIsAlone, vars, leaseVars, boxVars, callVars
<1> QED
    BY <1>2, <1>3, <1>4 DEF Next, Outer

\* Unless Docker is slow, late or stuck, nothing but jobs in the background runs in
\* a computer whose lease another call holds, or nobody (exclusive, runCommand,
\* fileOperation, stopByHash).
THEOREM WorkIsLeased == Spec => []LeaseCovers
<1>1. Init => Aimed /\ LeasedInv
    BY NoCallIsNone DEF Init, Aimed, Used, LeasedInv, Leased, Inside, Under, Holds,
       InsideHasLease, SentHasLease, FileHasLease, StopHasLease, StopIsAlone, Ending
<1>2. Wide /\ Aimed /\ LeasedInv /\ [Next]_vars => Aimed' /\ LeasedInv'
    BY AimedStep, LeasedStep
<1>3. Wide /\ LeasedInv => LeaseCovers
    BY DEF Wide, HostTypeOK, LeasedInv, Leased, InsideHasLease, Inside, LeaseCovers
<1> QED
    BY <1>1, <1>2, <1>3, WideInit, WideStep, PTL DEF Spec

=============================================================================
