---------------------------- MODULE ChatTurnProofs ----------------------------
(***************************************************************************)
(* Proofs about ChatTurn, for every number of requests, turns, calls and   *)
(* reconcilers and every combination of faults.                            *)
(***************************************************************************)
EXTENDS ChatTurn, CreditLedgerProofs, TLAPS

JobFields == {"of", "tries", "phase", "total"}

\* As much of the types as the proofs need.
Shape ==
    /\ turnOf \in [Requests -> Turns]
    /\ row \in [Turns -> [state : RowStates, owner : Requests \cup {NoOwner}, late : BOOLEAN]]
    /\ at \in [Requests -> Places]
    /\ DOMAIN hold = Holds
    /\ stopped \subseteq Turns /\ saved \subseteq Requests
    /\ DOMAIN job = Workers
    /\ \A w \in Workers : job[w] # NoJob => DOMAIN job[w] = JobFields /\ job[w].of \in Requests

\* Who has begun owns its turn's row; nobody owns a row that is not there; and
\* only who has begun holds credits.
Ownership ==
    /\ \A r \in Requests : at[r] \notin {"none", "refused"} => row[turnOf[r]].owner = r
    /\ \A t \in Turns : row[t].owner # NoOwner => row[t].state # "none"
    /\ \A r \in Requests : hold[r].state # "none" => at[r] \notin {"none", "refused"}

Finishing == {"finishing", "completed", "failed"}

\* A Stop that was confirmed left its mark on the row, and so did a finish that
\* won.
Commitment ==
    /\ \A t \in stopped : row[t].state = "cancelled"
    /\ \A r \in Requests : (r \in saved \/ at[r] = "finishing") =>
          row[turnOf[r]].state \in Finishing

ControlInv == Shape /\ Ownership /\ Commitment

-----------------------------------------------------------------------------
(* What the ledger's steps do to the holds.                                *)

\* The steps ChatTurn takes on the ledger touch the hold they name.
HoldStays(r) ==
    /\ DOMAIN hold' = DOMAIN hold
    /\ \A h \in Holds : h # r => hold'[h] = hold[h]

LEMMA ReserveTouchesOne ==
    ASSUME NEW r \in Holds, Shape, NEW n, Reserve(r, n)
    PROVE  HoldStays(r)
BY DEF Shape, Reserve, HoldStays

LEMMA CloseTouchesOne ==
    ASSUME NEW r \in Holds, Shape, NEW s, NEW p, NEW c, NEW k, NEW u,
           CloseHold(r, s, p, c, k, u)
    PROVE  HoldStays(r)
BY Zenon DEF Shape, CloseHold, HoldStays

LEMMA SettleTouchesOne ==
    ASSUME NEW r \in Holds, Shape, NEW n, Finalize(r, n)
    PROVE  HoldStays(r) /\ hold[r].state # "none"
<1>1. CASE SettleTracked(r, UsageOf(n))
    <2>1. PICK p, c, k : CloseHold(r, "settled", p, c, k, UsageOf(n))
        BY <1>1 DEF SettleTracked
    <2>2. hold[r].state # "none"
        BY <1>1 DEF SettleTracked, Settleable
    <2> QED
        BY <2>1, <2>2, CloseTouchesOne
<1>2. CASE ReplayTracked(r, UsageOf(n))
    BY <1>2 DEF Shape, ReplayTracked, HoldStays
<1> QED
    BY <1>1, <1>2 DEF Finalize

LEMMA LedgerStays == ASSUME UNCHANGED ledger, NEW r PROVE HoldStays(r)
BY DEF ledger, vars, HoldStays

LEMMA GiveBackTouchesOne ==
    ASSUME NEW r \in Holds, Shape, GiveBack(r)
    PROVE  HoldStays(r) /\ (hold[r].state = "none" => UNCHANGED hold)
<1>1. CASE hold[r].state = "open"
    <2>1. CloseHold(r, "refunded", 0, 0, 0, NoUsage)
        BY <1>1 DEF GiveBack, Refund
    <2> QED
        BY <1>1, <2>1, CloseTouchesOne
<1>2. CASE UNCHANGED ledger
    BY <1>2, LedgerStays DEF ledger, vars
<1> QED
    BY <1>1, <1>2 DEF GiveBack

LEMMA RequestsAreHolds == Requests \subseteq Holds /\ NoOwner \notin Requests
BY ChatTurnAssumption, LedgerAssumption DEF Requests, NoOwner

-----------------------------------------------------------------------------
(* The invariant.                                                          *)

LEMMA ControlInit == ChatInit => ControlInv
<1> SUFFICES ASSUME ChatInit PROVE ControlInv
    OBVIOUS
<1>1. Shape
    BY RequestsAreHolds DEF ChatInit, Init, Shape, RowStates, Places, NoOwner
<1>2. Ownership
    BY RequestsAreHolds DEF ChatInit, Init, Ownership, NoHold, Unsettled
<1>3. Commitment
    BY DEF ChatInit, Commitment
<1> QED
    BY <1>1, <1>2, <1>3 DEF ControlInv

\* A request that has begun goes on from place to place.
MovesOn(r) ==
    /\ at[r] \notin {"none", "refused"}
    /\ \E to \in Places \ {"none", "refused"} :
          /\ to = "finishing" => at[r] = "finishing"
          /\ at' = [at EXCEPT ![r] = to]

\* A step of one request that leaves the rows and the other requests alone.
LEMMA RequestStep ==
    ASSUME ControlInv, NEW r \in Requests, MovesOn(r), HoldStays(r),
           UNCHANGED <<turnOf, row, stopped, saved, job>>
    PROVE  ControlInv'
<1> USE RequestsAreHolds
<1>1. Shape'
    BY DEF ControlInv, Shape, HoldStays, MovesOn
<1>2. Ownership'
    BY DEF ControlInv, Ownership, Shape, HoldStays, MovesOn
<1>3. Commitment'
    BY DEF ControlInv, Commitment, Shape, MovesOn
<1> QED
    BY <1>1, <1>2, <1>3 DEF ControlInv

LEMMA RequestSteps ==
    ASSUME ControlInv, NEW r \in Requests,
           \/ Admit(r) \/ Refuse(r) \/ Throw(r) \/ CallFails(r) \/ Prepare(r) \/ NotSent(r)
           \/ Send(r) \/ CallReturns(r) \/ LetGo(r) \/ ToCharge(r) \/ Charge(r)
           \/ ReleaseHold(r) \/ HandOver(r) \/ Close(r) \/ Retire(r) \/ Crash(r)
           \/ Observe(r) \/ Timeout(r)
    PROVE  ControlInv'
<1> USE RequestsAreHolds
<1> SUFFICES MovesOn(r) /\ HoldStays(r) /\ UNCHANGED <<turnOf, row, stopped, saved, job>>
    BY RequestStep
<1>0. Shape
    BY DEF ControlInv
<1>1. MovesOn(r)
    <2> USE DEF MovesOn, Goes, Notes, Ends, Places, Live, Timed
    <2>1. CASE Admit(r) \/ Refuse(r) \/ Throw(r) \/ CallFails(r) \/ Prepare(r) \/ NotSent(r)
        BY <2>1 DEF Admit, Refuse, Throw, CallFails, Prepare, NotSent
    <2>2. CASE Send(r) \/ CallReturns(r) \/ LetGo(r) \/ ToCharge(r) \/ Charge(r)
        BY <2>2 DEF Send, CallReturns, LetGo, ToCharge, Charge
    <2>3. CASE ReleaseHold(r) \/ HandOver(r) \/ Close(r) \/ Retire(r) \/ Crash(r)
        BY <2>3 DEF ReleaseHold, HandOver, Close, Retire, Crash
    <2>4. CASE Observe(r)
        BY <2>4, <1>0 DEF Observe, Shape
    <2>5. CASE Timeout(r)
        BY <2>5, <1>0 DEF Timeout, Shape
    <2> QED
        BY <2>1, <2>2, <2>3, <2>4, <2>5
<1>2. HoldStays(r)
    <2>1. CASE Admit(r)
        BY <1>0, <2>1, ReserveTouchesOne DEF Admit
    <2>2. CASE Charge(r)
        BY <1>0, <2>2, LedgerStays, SettleTouchesOne DEF Charge, FinalizeThrows
    <2>3. CASE ReleaseHold(r)
        BY <1>0, <2>3, LedgerStays, GiveBackTouchesOne DEF ReleaseHold
    <2>4. CASE UNCHANGED ledger
        BY <2>4, LedgerStays
    <2> QED
        BY <2>1, <2>2, <2>3, <2>4
        DEF Refuse, Throw, CallFails, Prepare, NotSent, Send, CallReturns, LetGo, ToCharge,
            HandOver, Close, Retire, Crash, Observe, Timeout
<1>3. UNCHANGED <<turnOf, row, stopped, saved, job>>
    BY DEF Admit, Refuse, Throw, CallFails, Prepare, NotSent, Send, CallReturns, LetGo, ToCharge,
           Charge, ReleaseHold, HandOver, Close, Retire, Crash, Observe, Timeout,
           chatButReq, chatButHandler, recovery
<1> QED
    BY <1>1, <1>2, <1>3

-----------------------------------------------------------------------------
(* The steps that write a row.                                             *)

LEMMA ClaimStep ==
    ASSUME ControlInv, NEW r \in Requests, Claim(r) \/ ClaimUnanswered(r)
    PROVE  ControlInv'
<1> USE RequestsAreHolds
<1> USE DEF ControlInv, Goes, Notes
<1>0. /\ at[r] = "none" /\ row[turnOf[r]].state = "none"
      /\ row' = [row EXCEPT ![turnOf[r]] = [state |-> "running", owner |-> r, late |-> FALSE]]
      /\ at' = [at EXCEPT ![r] = "claimed"] \/ at' = [at EXCEPT ![r] = "refused"]
      /\ UNCHANGED <<hold, turnOf, stopped, saved, job>>
    BY DEF Claim, ClaimUnanswered, Row, ledger, vars, recovery
<1>1. Shape'
    BY <1>0 DEF Shape, RowStates, Places, Live
<1>2. row[turnOf[r]].owner = NoOwner
    BY DEF Shape, Ownership, Claim, ClaimUnanswered, Row
<1>3. Ownership'
    BY <1>0, <1>2 DEF Shape, Ownership
<1>4. Commitment'
    BY <1>0 DEF Shape, Commitment, Finishing
<1> QED
    BY <1>1, <1>3, <1>4

\* A row that somebody claimed or nobody did gets another state.
RowGets(t, from, to) ==
    /\ row[t].state \in from
    /\ row' = [row EXCEPT ![t].state = to]

LEMMA RowShape ==
    ASSUME Shape, NEW t \in Turns, NEW to \in RowStates \ {"none"},
           row' = [row EXCEPT ![t].state = to]
    PROVE  /\ row' \in [Turns -> [state : RowStates, owner : Requests \cup {NoOwner},
                               late : BOOLEAN]]
           /\ \A u \in Turns : row'[u].owner = row[u].owner
           /\ row'[t].state = to
           /\ \A u \in Turns : u # t => row'[u].state = row[u].state
BY DEF Shape

LEMMA StopStep ==
    ASSUME ControlInv, NEW t \in Turns, Stop(t) PROVE ControlInv'
<1>0. /\ row[t].state \in {"none", "running"}
      /\ row' = [row EXCEPT ![t].state = "cancelled"]
      /\ stopped' = stopped \cup {t}
      /\ UNCHANGED <<at, hold, turnOf, saved, job>>
    BY DEF Stop, SetRow, ledger, vars, recovery
<1>1. Shape
    BY DEF ControlInv
<1>2. /\ row' \in [Turns -> [state : RowStates, owner : Requests \cup {NoOwner}, late : BOOLEAN]]
      /\ \A u \in Turns : row'[u].owner = row[u].owner
      /\ row'[t].state = "cancelled"
      /\ \A u \in Turns : u # t => row'[u].state = row[u].state
    BY <1>0, <1>1, RowShape DEF RowStates
<1>3. Shape'
    BY <1>0, <1>1, <1>2 DEF Shape
<1>4. Ownership'
    BY <1>0, <1>1, <1>2 DEF ControlInv, Shape, Ownership
<1>5. Commitment'
    BY <1>0, <1>1, <1>2 DEF ControlInv, Shape, Commitment, Finishing
<1> QED
    BY <1>3, <1>4, <1>5 DEF ControlInv

LEMMA DeadlineStep ==
    ASSUME ControlInv, NEW t \in Turns, Deadline(t) PROVE ControlInv'
<1>0. /\ row' = [row EXCEPT ![t].late = TRUE]
      /\ UNCHANGED <<at, hold, turnOf, stopped, saved, job>>
    BY DEF Deadline, ledger, vars, recovery
<1>1. Shape
    BY DEF ControlInv
<1>2. /\ row' \in [Turns -> [state : RowStates, owner : Requests \cup {NoOwner}, late : BOOLEAN]]
      /\ \A u \in Turns : row'[u].owner = row[u].owner /\ row'[u].state = row[u].state
    BY <1>0, <1>1 DEF Shape
<1>3. Shape'
    BY <1>0, <1>1, <1>2 DEF Shape
<1>4. Ownership' /\ Commitment'
    BY <1>0, <1>1, <1>2 DEF ControlInv, Shape, Ownership, Commitment
<1> QED
    BY <1>3, <1>4 DEF ControlInv

\* A request with a begun turn writes its row, and goes somewhere.
LEMMA FinishStep ==
    ASSUME ControlInv, NEW r \in Requests, BeginFinish(r) \/ FinishRow(r) PROVE ControlInv'
<1> DEFINE t == turnOf[r]
<1>0. Shape /\ Ownership /\ Commitment /\ t \in Turns
    BY DEF ControlInv, Shape
<1>1. /\ at[r] \notin {"none", "refused", "finishing"}
      /\ UNCHANGED <<hold, turnOf, stopped, saved, job>>
      /\ \/ UNCHANGED row /\ \E to \in {"closing", "releasing"} : at' = [at EXCEPT ![r] = to]
         \/ \E to \in Finishing :
               /\ row' = [row EXCEPT ![t].state = to]
               /\ row[t].state \in {"running", "finishing"}
               /\ \E place \in {"closing", "releasing", "finishing"} :
                      at' = [at EXCEPT ![r] = place]
    <2>1. CASE BeginFinish(r)
        BY <2>1 DEF BeginFinish, SetRow, Row, Goes, Notes, Finishing, ledger, vars, recovery
    <2>2. CASE FinishRow(r)
        BY <2>2 DEF FinishRow, SetRow, Row, Goes, Notes, Finishing, ledger, vars, recovery
    <2> QED
        BY <2>1, <2>2
<1>2. CASE UNCHANGED row
    <2>1. MovesOn(r) \/ at' = [at EXCEPT ![r] = "finishing"]
        BY <1>1, <1>2 DEF MovesOn, Places, Live
    <2>2. CASE at' = [at EXCEPT ![r] = "finishing"]
        <3>1. row[t].state \in Finishing
            BY <1>0, <1>1, <1>2, <2>2, RowShape DEF Shape, RowStates, Finishing
        <3> QED
            BY <1>0, <1>1, <1>2, <2>2, <3>1
            DEF ControlInv, Shape, Ownership, Commitment, Places, Live
    <2> QED
        BY <1>1, <1>2, <2>1, <2>2, RequestStep DEF HoldStays
<1>3. ASSUME NEW to \in Finishing, row' = [row EXCEPT ![t].state = to],
             row[t].state \in {"running", "finishing"},
             NEW place \in {"closing", "releasing", "finishing"}, at' = [at EXCEPT ![r] = place]
      PROVE  ControlInv'
    <2>1. /\ row' \in [Turns -> [state : RowStates, owner : Requests \cup {NoOwner},
                              late : BOOLEAN]]
          /\ \A u \in Turns : row'[u].owner = row[u].owner
          /\ row'[t].state = to
          /\ \A u \in Turns : u # t => row'[u].state = row[u].state
        BY <1>0, <1>3, RowShape DEF RowStates, Finishing
    <2>2. Shape'
        BY <1>0, <1>1, <1>3, <2>1 DEF Shape, Places, Live
    <2>3. Ownership'
        BY <1>0, <1>1, <1>3, <2>1 DEF Shape, Ownership, Finishing
    <2>4. Commitment'
        BY <1>0, <1>1, <1>3, <2>1 DEF Shape, Commitment, Finishing
    <2> QED
        BY <2>2, <2>3, <2>4 DEF ControlInv
<1> QED
    BY <1>1, <1>2, <1>3

LEMMA SaveStep ==
    ASSUME ControlInv, NEW r \in Requests, Save(r) PROVE ControlInv'
<1>0. /\ at[r] = "finishing" /\ at' = [at EXCEPT ![r] = "saved"]
      /\ saved' = saved \cup {r}
      /\ UNCHANGED <<hold, turnOf, row, stopped, job>>
    BY DEF Save, Goes, Notes, ledger, vars, recovery
<1>1. Shape'
    BY <1>0 DEF ControlInv, Shape, Places, Live
<1>2. Ownership' /\ Commitment'
    BY <1>0 DEF ControlInv, Shape, Ownership, Commitment
<1> QED
    BY <1>1, <1>2 DEF ControlInv

-----------------------------------------------------------------------------
(* Oxy and the reconciler write no row.                                    *)

LEMMA PayStep ==
    ASSUME ControlInv, NEW w \in Workers, Pay(w) PROVE ControlInv'
<1> USE RequestsAreHolds
<1> DEFINE r == job[w].of
<1>0. Shape /\ Ownership /\ Commitment /\ r \in Requests /\ job[w] # NoJob
    BY DEF ControlInv, Shape, Pay
<1>1. /\ UNCHANGED <<at, turnOf, row, stopped, saved>>
      /\ \E phase : job' = [job EXCEPT ![w].phase = phase, ![w].total = 0]
    BY Zenon DEF Pay, chatButRecovery
<1>2. HoldStays(r) /\ (hold[r].state = "none" => UNCHANGED hold)
    <2>1. GiveBack(r) \/ (\E n : Finalize(r, n)) \/ UNCHANGED ledger
        BY DEF Pay, FinalizeThrows
    <2> QED
        BY <1>0, <2>1, GiveBackTouchesOne, SettleTouchesOne, LedgerStays DEF ledger, vars
<1>3. /\ DOMAIN job' = Workers
      /\ \A v \in Workers : v # w => job'[v] = job[v]
      /\ DOMAIN job'[w] = DOMAIN job[w] /\ job'[w].of = job[w].of
    BY Zenon, <1>0, <1>1 DEF Shape, JobFields
<1>4. Shape'
    BY <1>0, <1>1, <1>2, <1>3 DEF Shape, HoldStays
<1>5. Ownership'
    BY <1>0, <1>1, <1>2 DEF Shape, Ownership, HoldStays
<1>6. Commitment'
    BY <1>0, <1>1 DEF Shape, Commitment
<1> QED
    BY <1>4, <1>5, <1>6 DEF ControlInv

LEMMA QuietStep ==
    ASSUME ControlInv, UNCHANGED <<at, hold, turnOf, row, stopped, saved>>,
           UNCHANGED job \/ \E w \in Workers : job' = [job EXCEPT ![w] = NoJob]
    PROVE  ControlInv'
<1>1. Shape'
    BY DEF ControlInv, Shape
<1>2. Ownership' /\ Commitment'
    BY DEF ControlInv, Ownership, Commitment
<1> QED
    BY <1>1, <1>2 DEF ControlInv

LEMMA RequestQuietSteps ==
    ASSUME ControlInv, NEW r \in Requests,
           \/ FallsDue(r)
           \/ \E i \in DOMAIN calls[r] : ProviderEnds(r, i) \/ OxySettles(r, i)
           \/ \E w \in Workers : SweepTerminal(w, r)
    PROVE  ControlInv'
BY QuietStep DEF FallsDue, SweepTerminal, ProviderEnds, OxySettles, chatButRecovery,
                 chatButCalls, ledger, vars, recovery

LEMMA RecoverySteps ==
    ASSUME ControlInv, NEW w \in Workers,
           \/ Ask(w) \/ RetireJob(w) \/ Postpone(w) \/ WorkerDies(w)
           \/ \E r \in Requests : List(w, r)
    PROVE  ControlInv'
<1>0. Shape /\ Ownership /\ Commitment
    BY DEF ControlInv
<1>1. UNCHANGED <<at, hold, turnOf, row, stopped, saved>>
    BY DEF Ask, RetireJob, Postpone, WorkerDies, List, chatButRecovery, ledger, vars
<1>2. CASE RetireJob(w) \/ Postpone(w) \/ WorkerDies(w)
    <2>1. job' = [job EXCEPT ![w] = NoJob]
        BY <1>2 DEF RetireJob, Postpone, WorkerDies
    <2> QED
        BY <1>1, <2>1, QuietStep
<1>3. CASE Ask(w) \/ \E r \in Requests : List(w, r)
    <2>1. DOMAIN job' = Workers /\ \A v \in Workers : job'[v] # NoJob =>
              DOMAIN job'[v] = JobFields /\ job'[v].of \in Requests
        <3>1. CASE Ask(w)
            <4>1. \/ \E n : job' = [job EXCEPT ![w].phase = "paying", ![w].total = n]
                  \/ job' = [job EXCEPT ![w].phase = "failing"]
                BY Zenon, <3>1 DEF Ask
            <4>2. job[w] # NoJob
                BY <3>1 DEF Ask
            <4> DEFINE Same == /\ DOMAIN job' = Workers
                               /\ \A v \in Workers : v # w => job'[v] = job[v]
                               /\ DOMAIN job'[w] = DOMAIN job[w] /\ job'[w].of = job[w].of
            <4>3. Same
                <5>1. ASSUME NEW n, job' = [job EXCEPT ![w].phase = "paying", ![w].total = n]
                      PROVE  Same
                    BY Zenon, <1>0, <4>2, <5>1 DEF Shape, JobFields
                <5>2. CASE job' = [job EXCEPT ![w].phase = "failing"]
                    BY Zenon, <1>0, <4>2, <5>2 DEF Shape, JobFields
                <5> QED
                    BY <4>1, <5>1, <5>2
            <4> QED
                BY <1>0, <4>2, <4>3 DEF Shape
        <3>2. ASSUME NEW r \in Requests, List(w, r)
              PROVE  DOMAIN job' = Workers /\ \A v \in Workers : job'[v] # NoJob =>
                         DOMAIN job'[v] = JobFields /\ job'[v].of \in Requests
            <4>1. job' = [job EXCEPT ![w] = [of |-> r, tries |-> tries[r], phase |-> "listed",
                                             total |-> 0]]
                BY <3>2 DEF List
            <4> QED
                BY <1>0, <4>1 DEF Shape, JobFields
        <3> QED
            BY <1>3, <3>1, <3>2
    <2>2. Shape'
        BY <1>0, <1>1, <2>1 DEF Shape
    <2>3. Ownership' /\ Commitment'
        BY <1>0, <1>1 DEF Ownership, Commitment
    <2> QED
        BY <2>2, <2>3 DEF ControlInv
<1> QED
    BY <1>2, <1>3

LEMMA ControlStep == ControlInv /\ [ChatNext]_allVars => ControlInv'
<1> SUFFICES ASSUME ControlInv, [ChatNext]_allVars PROVE ControlInv'
    OBVIOUS
<1>1. ASSUME NEW r \in Requests,
             \/ Proceed(r) \/ ClaimUnanswered(r) \/ Refuse(r) \/ CallFails(r) \/ Crash(r)
             \/ Observe(r) \/ Timeout(r)
      PROVE  ControlInv'
    <2>1. CASE Claim(r) \/ ClaimUnanswered(r)
        BY <2>1, ClaimStep
    <2>2. CASE BeginFinish(r) \/ FinishRow(r)
        BY <2>2, FinishStep
    <2>3. CASE Save(r)
        BY <2>3, SaveStep
    <2> QED
        BY <1>1, <2>1, <2>2, <2>3, RequestSteps DEF Proceed
<1>2. ASSUME NEW r \in Requests,
             \/ FallsDue(r)
             \/ \E i \in DOMAIN calls[r] : ProviderEnds(r, i) \/ OxySettles(r, i)
             \/ \E w \in Workers : SweepTerminal(w, r)
      PROVE  ControlInv'
    BY <1>2, RequestQuietSteps
<1>3. ASSUME NEW t \in Turns, Stop(t) \/ Deadline(t) PROVE ControlInv'
    BY <1>3, StopStep, DeadlineStep
<1>4. ASSUME NEW w \in Workers, Pay(w) PROVE ControlInv'
    BY <1>4, PayStep
<1>5. ASSUME NEW w \in Workers,
             \/ Ask(w) \/ RetireJob(w) \/ Postpone(w) \/ WorkerDies(w)
             \/ \E r \in Requests : List(w, r)
      PROVE  ControlInv'
    BY <1>5, RecoverySteps
<1>6. CASE UNCHANGED allVars
    BY <1>6, QuietStep DEF allVars, vars, chatVars
<1>7. CASE ChatNext
    <2>1. \/ \E r \in Requests :
               \/ Proceed(r) \/ ClaimUnanswered(r) \/ Refuse(r) \/ CallFails(r) \/ Crash(r)
               \/ Observe(r) \/ Timeout(r)
               \/ FallsDue(r)
               \/ \E i \in DOMAIN calls[r] : ProviderEnds(r, i) \/ OxySettles(r, i)
               \/ \E w \in Workers : SweepTerminal(w, r)
          \/ \E t \in Turns : Stop(t) \/ Deadline(t)
          \/ \E w \in Workers :
               \/ Pay(w) \/ Ask(w) \/ RetireJob(w) \/ Postpone(w) \/ WorkerDies(w)
               \/ \E r \in Requests : List(w, r)
        BY <1>7 DEF ChatNext, Reconcile
    <2> QED
        BY <2>1, <1>1, <1>2, <1>3, <1>4, <1>5
<1> QED
    BY <1>6, <1>7

LEMMA Control == ChatSpec => []ControlInv
BY ControlInit, ControlStep, PTL DEF ChatSpec

-----------------------------------------------------------------------------
(* The schedule of a hold.                                                 *)

\* Intents are written after admission, each with its schedule.
ScheduleInv ==
    /\ calls \in [Requests -> Seq(CallType)]
    /\ sched \in [Requests -> {"none", "later", "due"}]
    /\ DOMAIN tries = Requests
    /\ \A r \in Requests : at[r] \in {"none", "refused", "claimed"} => calls[r] = <<>>
    /\ \A r \in Requests : at[r] = "prepared" => calls[r] # <<>>
    /\ OpenHoldIsScheduled

LEMMA ScheduleInit == ChatInit => ScheduleInv
BY DEF ChatInit, Init, ScheduleInv, OpenHoldIsScheduled

\* A step of one request, after which it is scheduled or was not to be.
LEMMA OneRequestScheduled ==
    ASSUME ControlInv, ScheduleInv, NEW r \in Requests, HoldStays(r),
           calls' \in [Requests -> Seq(CallType)],
           sched' \in [Requests -> {"none", "later", "due"}], DOMAIN tries' = Requests,
           \A q \in Requests : q # r =>
               /\ at'[q] = at[q] /\ calls'[q] = calls[q]
               /\ sched'[q] = sched[q] /\ tries'[q] = tries[q],
           at'[r] \in {"none", "refused", "claimed"} => calls'[r] = <<>>,
           at'[r] = "prepared" => calls'[r] # <<>>,
           \/ calls'[r] = <<>>
           \/ sched'[r] # "none" \/ tries'[r] >= MaxTries
           \/ hold'[r].state # "open"
    PROVE  ScheduleInv'
BY RequestsAreHolds DEF ControlInv, Shape, ScheduleInv, OpenHoldIsScheduled, HoldStays

\* A step that opens no hold, writes no intent and no schedule.
LEMMA QuietSchedule ==
    ASSUME ControlInv, ScheduleInv, NEW r \in Requests, HoldStays(r),
           hold'[r].state = "open" => hold[r].state = "open",
           UNCHANGED <<calls, sched, tries>>,
           \/ UNCHANGED at
           \/ \E to \in Places \ {"none", "prepared"} :
                 /\ to \in {"refused", "claimed"} => at[r] = "none"
                 /\ at' = [at EXCEPT ![r] = to]
    PROVE  ScheduleInv'
BY RequestsAreHolds DEF ControlInv, Shape, ScheduleInv, OpenHoldIsScheduled, HoldStays

LEMMA ClosesOpenHold ==
    ASSUME NEW r, GiveBack(r) \/ \E n : Finalize(r, n)
    PROVE  hold[r].state = "open" \/ UNCHANGED hold
BY DEF GiveBack, Finalize, SettleTracked, Settleable, ReplayTracked, ledger, vars

LEMMA QuietRequestSchedule ==
    ASSUME ControlInv, ScheduleInv, NEW r \in Requests,
           \/ Claim(r) \/ ClaimUnanswered(r) \/ Refuse(r) \/ Throw(r) \/ CallFails(r)
           \/ CallReturns(r) \/ LetGo(r) \/ BeginFinish(r) \/ Save(r) \/ ToCharge(r)
           \/ Charge(r) \/ FinishRow(r) \/ ReleaseHold(r) \/ Close(r) \/ Crash(r)
           \/ Observe(r) \/ Timeout(r)
    PROVE  ScheduleInv'
<1> USE RequestsAreHolds
<1>0. Shape
    BY DEF ControlInv
<1>1. HoldStays(r)
    <2>1. CASE Charge(r)
        BY <1>0, <2>1, LedgerStays, SettleTouchesOne DEF Charge, FinalizeThrows
    <2>2. CASE ReleaseHold(r)
        BY <1>0, <2>2, LedgerStays, GiveBackTouchesOne DEF ReleaseHold
    <2>3. CASE UNCHANGED ledger
        BY <2>3, LedgerStays
    <2> QED
        BY <2>1, <2>2, <2>3
        DEF Claim, ClaimUnanswered, Refuse, Throw, CallFails, CallReturns, LetGo, BeginFinish,
            Save, ToCharge, FinishRow, Close, Crash, Observe, Timeout
<1>2. hold'[r].state = "open" => hold[r].state = "open"
    BY ClosesOpenHold
    DEF Claim, ClaimUnanswered, Refuse, Throw, CallFails, CallReturns, LetGo, BeginFinish,
        Save, ToCharge, Charge, FinalizeThrows, FinishRow, ReleaseHold, Close, Crash, Observe,
        Timeout, ledger, vars
<1>3. UNCHANGED <<calls, sched, tries>>
    BY DEF Claim, ClaimUnanswered, Refuse, Throw, CallFails, CallReturns, LetGo, BeginFinish,
           Save, ToCharge, Charge, FinishRow, ReleaseHold, Close, Crash, Observe, Timeout,
           chatButReq, chatButHandler, recovery
<1>4. \/ UNCHANGED at
      \/ \E to \in Places \ {"none", "prepared"} :
            /\ to \in {"refused", "claimed"} => at[r] = "none"
            /\ at' = [at EXCEPT ![r] = to]
    <2> USE DEF Goes, Notes, Ends, Places, Live, Timed
    <2>1. CASE Claim(r) \/ ClaimUnanswered(r) \/ Refuse(r) \/ Throw(r) \/ CallFails(r)
               \/ CallReturns(r) \/ LetGo(r) \/ BeginFinish(r)
        BY <2>1
        DEF Claim, ClaimUnanswered, Refuse, Throw, CallFails, CallReturns, LetGo, BeginFinish
    <2>2. CASE Save(r) \/ ToCharge(r) \/ Charge(r) \/ FinishRow(r) \/ ReleaseHold(r)
               \/ Close(r) \/ Crash(r)
        BY <2>2 DEF Save, ToCharge, Charge, FinishRow, ReleaseHold, Close, Crash
    <2>3. CASE Observe(r) \/ Timeout(r)
        BY <2>3, <1>0 DEF Observe, Timeout, Shape
    <2> QED
        BY <2>1, <2>2, <2>3
<1> QED
    BY <1>1, <1>2, <1>3, <1>4, QuietSchedule

\* A call that is there gets another status.
LEMMA CallEdited ==
    ASSUME calls \in [Requests -> Seq(CallType)], NEW r \in Requests, NEW i \in DOMAIN calls[r],
           NEW s \in {"intent", "sent", "used", "settled", "estimated"},
           calls' = [calls EXCEPT ![r][i].status = s]
    PROVE  /\ calls' \in [Requests -> Seq(CallType)]
           /\ \A q \in Requests : q # r => calls'[q] = calls[q]
           /\ DOMAIN calls'[r] = DOMAIN calls[r]
<1>1. calls'[r] = [calls[r] EXCEPT ![i] = [calls[r][i] EXCEPT !.status = s]]
    OBVIOUS
<1>2. calls[r] \in Seq(CallType) /\ calls[r][i] \in CallType
    OBVIOUS
<1>3. [calls[r][i] EXCEPT !.status = s] \in CallType
    BY <1>2 DEF CallType
<1>4. calls'[r] \in Seq(CallType) /\ DOMAIN calls'[r] = DOMAIN calls[r]
    BY <1>1, <1>2, <1>3
<1> QED
    BY <1>4

LEMMA WritingRequestSchedule ==
    ASSUME ControlInv, ScheduleInv, NEW r \in Requests,
           \/ Admit(r) \/ Prepare(r) \/ NotSent(r) \/ Send(r) \/ HandOver(r) \/ Retire(r)
    PROVE  ScheduleInv'
<1> USE RequestsAreHolds
<1>0. Shape /\ calls \in [Requests -> Seq(CallType)] /\ at \in [Requests -> Places]
    BY DEF ControlInv, Shape, ScheduleInv
<1>1. CASE Admit(r)
    <2>1. HoldStays(r)
        BY <1>0, <1>1, ReserveTouchesOne DEF Admit
    <2>2. calls[r] = <<>>
        BY <1>1 DEF Admit, ScheduleInv
    <2>3. UNCHANGED <<calls, sched, tries>> /\ at' = [at EXCEPT ![r] = "ready"]
        BY <1>1 DEF Admit, Goes, Notes, chatButReq, chatButHandler, recovery
    <2> QED
        BY <1>0, <2>1, <2>2, <2>3, OneRequestScheduled DEF ScheduleInv
<1>2. HoldStays(r) \/ Admit(r)
    BY LedgerStays DEF Prepare, NotSent, Send, HandOver, Retire
<1>3. CASE Prepare(r)
    <2>1. Intent \in CallType
        BY DEF Intent, CallType
    <2>2. /\ calls' = [calls EXCEPT ![r] = Append(@, Intent)]
          /\ sched' = [sched EXCEPT ![r] = "later"]
          /\ UNCHANGED tries
          /\ \E to \in {"prepared", "closing"} : at' = [at EXCEPT ![r] = to]
        BY <1>3 DEF Prepare, Goes, Notes
    <2>3. HoldStays(r)
        BY <1>3, LedgerStays DEF Prepare
    <2>4. calls' \in [Requests -> Seq(CallType)] /\ calls'[r] # <<>>
        BY <1>0, <2>1, <2>2
    <2> QED
        BY <1>0, <2>2, <2>3, <2>4, OneRequestScheduled DEF ScheduleInv
<1>4. CASE NotSent(r)
    <2>1. /\ UNCHANGED calls \/ calls' = [calls EXCEPT ![r] = Front(@)]
          /\ UNCHANGED <<sched, tries>>
          /\ at' = [at EXCEPT ![r] = "closing"]
          /\ calls[r] # <<>>
        BY <1>4 DEF NotSent, Goes, Notes, ScheduleInv, recovery
    <2>2. HoldStays(r) /\ UNCHANGED hold
        BY <1>4, LedgerStays DEF NotSent, ledger, vars
    <2>3. Front(calls[r]) \in Seq(CallType)
        <3>1. calls[r] \in Seq(CallType) /\ Len(calls[r]) \in Nat \ {0}
            BY <1>0, <2>1
        <3> QED
            BY <3>1 DEF Front
    <2>4. calls' \in [Requests -> Seq(CallType)]
        BY <1>0, <2>1, <2>3
    <2> QED
        BY <1>0, <2>1, <2>2, <2>4, OneRequestScheduled DEF ScheduleInv, OpenHoldIsScheduled
<1>5. CASE Send(r)
    <2>1. /\ calls' = [calls EXCEPT ![r][Len(calls[r])].status = "sent"]
          /\ UNCHANGED <<sched, tries>>
          /\ at' = [at EXCEPT ![r] = "calling"]
          /\ calls[r] # <<>>
        BY <1>5 DEF Send, Goes, Notes, ScheduleInv, recovery
    <2>2. HoldStays(r) /\ UNCHANGED hold
        BY <1>5, LedgerStays DEF Send, ledger, vars
    <2>3. calls' \in [Requests -> Seq(CallType)]
        <3>1. Len(calls[r]) \in DOMAIN calls[r]
            BY <1>0, <2>1
        <3> QED
            BY <1>0, <2>1, <3>1, CallEdited
    <2> QED
        BY <1>0, <2>1, <2>2, <2>3, OneRequestScheduled DEF ScheduleInv, OpenHoldIsScheduled
<1>6. CASE HandOver(r) \/ Retire(r)
    <2>1. /\ \/ sched' = [sched EXCEPT ![r] = "due"]
             \/ UNCHANGED sched
             \/ hold[r].state # "open" /\ sched' = [sched EXCEPT ![r] = "none"]
          /\ UNCHANGED <<calls, tries>>
          /\ at' = [at EXCEPT ![r] = "done"]
          /\ at[r] \in {"releasing", "retiring"}
        <3>1. CASE HandOver(r)
            BY <3>1 DEF HandOver, Ends
        <3>2. CASE Retire(r)
            BY <3>2 DEF Retire, RetireTerminal, Ends, ScheduleInv
        <3> QED
            BY <1>6, <3>1, <3>2
    <2>2. HoldStays(r) /\ UNCHANGED hold
        BY <1>6, LedgerStays DEF HandOver, Retire, ledger, vars
    <2> QED
        BY <1>0, <2>1, <2>2, OneRequestScheduled DEF ScheduleInv, OpenHoldIsScheduled
<1> QED
    BY <1>1, <1>3, <1>4, <1>5, <1>6

LEMMA OxySchedule ==
    ASSUME ControlInv, ScheduleInv, NEW r \in Requests, NEW i \in DOMAIN calls[r],
           ProviderEnds(r, i) \/ OxySettles(r, i)
    PROVE  ScheduleInv'
<1>0. Shape /\ calls \in [Requests -> Seq(CallType)]
    BY DEF ControlInv, ScheduleInv
<1>1. HoldStays(r) /\ UNCHANGED <<hold, at, sched, tries>>
    BY LedgerStays DEF ProviderEnds, OxySettles, chatButCalls, recovery, ledger, vars
<1>2. calls' \in [Requests -> Seq(CallType)] /\ \A q \in Requests : q # r => calls'[q] = calls[q]
    <2>1. CASE ProviderEnds(r, i)
        <3>1. PICK n \in Tokens :
                  calls' = [calls EXCEPT ![r][i] = [status |-> "used", tokens |-> n]]
            BY <2>1 DEF ProviderEnds
        <3>2. [status |-> "used", tokens |-> n] \in CallType
            BY <3>1 DEF CallType
        <3> QED
            BY <1>0, <3>1, <3>2
    <2>2. CASE OxySettles(r, i)
        <3>1. PICK s \in {"settled", "estimated"} : calls' = [calls EXCEPT ![r][i].status = s]
            BY <2>2 DEF OxySettles
        <3> QED
            BY <1>0, <3>1, CallEdited
    <2> QED
        BY <2>1, <2>2
<1>3. calls[r] # <<>> /\ calls'[r] # <<>>
    <2>1. DOMAIN calls'[r] = DOMAIN calls[r]
        BY <1>0 DEF ProviderEnds, OxySettles
    <2> QED
        BY <1>0, <1>2, <2>1
<1>4. at[r] \notin {"none", "refused", "claimed"}
    BY <1>3 DEF ScheduleInv
<1> QED
    BY <1>0, <1>1, <1>2, <1>3, <1>4, OneRequestScheduled DEF ScheduleInv, OpenHoldIsScheduled

LEMMA RecoverySchedule ==
    ASSUME ControlInv, ScheduleInv, NEW w \in Workers,
           Ask(w) \/ Pay(w) \/ RetireJob(w) \/ Postpone(w) \/ WorkerDies(w)
    PROVE  ScheduleInv'
<1> USE RequestsAreHolds
<1> DEFINE r == job[w].of
<1>0. Shape /\ r \in Requests
    BY DEF ControlInv, Shape, Ask, Pay, RetireJob, Postpone, WorkerDies
<1>1. CASE Ask(w) \/ Pay(w) \/ WorkerDies(w)
    <2>1. UNCHANGED <<at, calls, sched, tries>>
        BY <1>1 DEF Ask, Pay, WorkerDies, chatButRecovery
    <2>2. GiveBack(r) \/ (\E n : Finalize(r, n)) \/ UNCHANGED ledger
        BY <1>1 DEF Ask, Pay, WorkerDies, FinalizeThrows
    <2>3. HoldStays(r) /\ (hold'[r].state = "open" => hold[r].state = "open")
        BY <1>0, <2>2, GiveBackTouchesOne, SettleTouchesOne, ClosesOpenHold, LedgerStays
        DEF ledger, vars
    <2> QED
        BY <1>0, <2>1, <2>3, QuietSchedule
<1>2. CASE RetireJob(w) \/ Postpone(w)
    <2>1. /\ UNCHANGED <<at, calls, hold>>
          /\ HoldStays(r)
        BY <1>2, LedgerStays DEF RetireJob, Postpone, chatButRecovery, ledger, vars
    <2>2. /\ sched' \in [Requests -> {"none", "later", "due"}] /\ DOMAIN tries' = Requests
          /\ \A q \in Requests : q # r => sched'[q] = sched[q] /\ tries'[q] = tries[q]
        BY <1>0, <1>2 DEF ScheduleInv, RetireJob, RetireTerminal, Postpone
    <2>3. \/ sched'[r] = sched[r] /\ tries'[r] = tries[r]
          \/ sched'[r] # "none" \/ tries'[r] >= MaxTries
          \/ hold[r].state # "open"
        BY <1>0, <1>2 DEF ScheduleInv, RetireJob, RetireTerminal, Postpone
    <2> QED
        BY <1>0, <2>1, <2>2, <2>3, OneRequestScheduled DEF ScheduleInv, OpenHoldIsScheduled
<1> QED
    BY <1>1, <1>2

LEMMA QuietStateSchedule ==
    ASSUME ScheduleInv, UNCHANGED <<at, calls, hold, sched, tries>>
    PROVE  ScheduleInv'
BY DEF ScheduleInv, OpenHoldIsScheduled

LEMMA SchedulingSteps ==
    ASSUME ControlInv, ScheduleInv, NEW r \in Requests,
           \/ FallsDue(r)
           \/ \E w \in Workers : SweepTerminal(w, r) \/ List(w, r)
    PROVE  ScheduleInv'
<1>0. UNCHANGED <<at, calls, hold, tries>> /\ HoldStays(r)
    BY LedgerStays DEF FallsDue, SweepTerminal, List, chatButRecovery, ledger, vars
<1>1. \/ sched' = [sched EXCEPT ![r] = "due"]
      \/ hold[r].state # "open" /\ sched' = [sched EXCEPT ![r] = "none"]
      \/ UNCHANGED sched
    BY DEF FallsDue, SweepTerminal, RetireTerminal, List
<1> QED
    BY <1>0, <1>1, OneRequestScheduled DEF ScheduleInv, OpenHoldIsScheduled

LEMMA ScheduleStep == ControlInv /\ ScheduleInv /\ [ChatNext]_allVars => ScheduleInv'
<1> SUFFICES ASSUME ControlInv, ScheduleInv, [ChatNext]_allVars PROVE ScheduleInv'
    OBVIOUS
<1>1. ASSUME NEW r \in Requests,
             \/ Proceed(r) \/ ClaimUnanswered(r) \/ Refuse(r) \/ CallFails(r) \/ Crash(r)
             \/ Observe(r) \/ Timeout(r)
      PROVE  ScheduleInv'
    BY <1>1, QuietRequestSchedule, WritingRequestSchedule DEF Proceed
<1>2. ASSUME NEW r \in Requests, NEW i \in DOMAIN calls[r], ProviderEnds(r, i) \/ OxySettles(r, i)
      PROVE  ScheduleInv'
    BY <1>2, OxySchedule
<1>3. ASSUME NEW r \in Requests,
             FallsDue(r) \/ \E w \in Workers : SweepTerminal(w, r) \/ List(w, r)
      PROVE  ScheduleInv'
    BY <1>3, SchedulingSteps
<1>4. ASSUME NEW w \in Workers,
             Ask(w) \/ Pay(w) \/ RetireJob(w) \/ Postpone(w) \/ WorkerDies(w)
      PROVE  ScheduleInv'
    BY <1>4, RecoverySchedule
<1>5. CASE UNCHANGED allVars \/ \E t \in Turns : Stop(t) \/ Deadline(t)
    BY <1>5, QuietStateSchedule DEF Stop, Deadline, recovery, ledger, allVars, vars, chatVars
<1>6. CASE ChatNext
    <2>1. \/ \E r \in Requests :
               \/ Proceed(r) \/ ClaimUnanswered(r) \/ Refuse(r) \/ CallFails(r) \/ Crash(r)
               \/ Observe(r) \/ Timeout(r)
          \/ \E r \in Requests : \E i \in DOMAIN calls[r] : ProviderEnds(r, i) \/ OxySettles(r, i)
          \/ \E r \in Requests :
               FallsDue(r) \/ \E w \in Workers : SweepTerminal(w, r) \/ List(w, r)
          \/ \E t \in Turns : Stop(t) \/ Deadline(t)
          \/ \E w \in Workers :
               Ask(w) \/ Pay(w) \/ RetireJob(w) \/ Postpone(w) \/ WorkerDies(w)
        BY <1>6 DEF ChatNext, Reconcile
    <2> QED
        BY <2>1, <1>1, <1>2, <1>3, <1>4, <1>5
<1> QED
    BY <1>5, <1>6

LEMMA Schedule == ChatSpec => []ScheduleInv
<1>1. ControlInv /\ ScheduleInv /\ [ChatNext]_allVars => ScheduleInv'
    BY ScheduleStep
<1> QED
    BY <1>1, Control, ScheduleInit, PTL DEF ChatSpec

-----------------------------------------------------------------------------
(* What calls used.                                                        *)

TokensOf(s) == [i \in DOMAIN s |-> s[i].tokens]

LEMMA TotalIsSum == ASSUME NEW s PROVE Total(s) = SumOver(TokensOf(s), DOMAIN s)
BY DEF Total, TokensOf, FoldSeq, FoldFunction, FoldFunctionOnSet, MapThenFoldSet, SumOver, IsSum,
       Pick

LEMMA CallTokens == ASSUME NEW c \in CallType PROVE c.tokens \in Nat
<1>1. Tokens \subseteq Nat
    BY ChatTurnAssumption
<1>2. c.tokens \in Tokens \/ c.tokens = 0
    BY DEF CallType
<1>3. \A n \in Tokens : n \in Nat
    BY <1>1
<1> QED
    BY <1>2, <1>3

LEMMA CallsFinite ==
    ASSUME NEW s \in Seq(CallType)
    PROVE  IsFiniteSet(DOMAIN s) /\ \A i \in DOMAIN s : TokensOf(s)[i] = s[i].tokens
                                                    /\ TokensOf(s)[i] \in Nat
<1>1. DOMAIN s = 1 .. Len(s) /\ Len(s) \in Int
    OBVIOUS
<1>2. IsFiniteSet(DOMAIN s)
    BY <1>1, FS_Interval
<1>3. \A i \in DOMAIN s : s[i] \in CallType
    OBVIOUS
<1>4. \A i \in DOMAIN s : s[i].tokens \in Nat
    BY <1>3, CallTokens
<1> QED
    BY <1>2, <1>4 DEF TokensOf

LEMMA TotalNat == ASSUME NEW s \in Seq(CallType) PROVE Total(s) \in Nat
<1>1. SumOver(TokensOf(s), DOMAIN s) \in Nat
    BY CallsFinite, SumOfNats
<1> QED
    BY <1>1, TotalIsSum

\* One call is added, taken away or changed.
LEMMA TotalChanges ==
    ASSUME NEW s \in Seq(CallType), NEW t \in Seq(CallType), NEW x,
           DOMAIN s \ {x} = DOMAIN t \ {x},
           \A i \in DOMAIN s \ {x} : s[i].tokens = t[i].tokens
    PROVE  Total(t) = Total(s) - (IF x \in DOMAIN s THEN s[x].tokens ELSE 0)
                               + (IF x \in DOMAIN t THEN t[x].tokens ELSE 0)
<1> DEFINE S == DOMAIN s
           T == DOMAIN t
           v == TokensOf(s)
           w == TokensOf(t)
<1>1. IsFiniteSet(S) /\ \A i \in S : v[i] = s[i].tokens /\ v[i] \in Int
    BY CallsFinite
<1>2. IsFiniteSet(T) /\ \A i \in T : w[i] = t[i].tokens /\ w[i] \in Int
    BY CallsFinite
<1>3. S \ {x} = T \ {x} /\ \A i \in S \ {x} : v[i] = w[i]
    <2>1. \A i \in S \ {x} : i \in S /\ i \in T /\ s[i].tokens = t[i].tokens
        OBVIOUS
    <2> HIDE DEF v, w
    <2> QED
        BY <1>1, <1>2, <2>1
<1>4. Total(s) = SumOver(v, S) /\ Total(t) = SumOver(w, T)
    BY TotalIsSum
<1> HIDE DEF S, T, v, w
<1>5. SumOver(w, T) = SumOver(v, S) - (IF x \in S THEN v[x] ELSE 0)
                                    + (IF x \in T THEN w[x] ELSE 0)
    BY <1>1, <1>2, <1>3, SumChanges
<1>6. /\ (IF x \in S THEN v[x] ELSE 0) = IF x \in S THEN s[x].tokens ELSE 0
      /\ (IF x \in T THEN w[x] ELSE 0) = IF x \in T THEN t[x].tokens ELSE 0
    BY <1>1, <1>2
<1> QED
    BY <1>4, <1>5, <1>6 DEF S, T

LEMMA TotalOfNone == Total(<<>>) = 0
<1>1. DOMAIN <<>> = {}
    OBVIOUS
<1> QED
    BY <1>1, TotalIsSum, SumOfNone

\* Calls that together used nothing used nothing each.
LEMMA TotalOfNothing ==
    ASSUME NEW s \in Seq(CallType), Total(s) = 0
    PROVE  \A i \in DOMAIN s : s[i].tokens = 0
<1> SUFFICES ASSUME NEW i \in DOMAIN s PROVE s[i].tokens = 0
    OBVIOUS
<1> DEFINE S == DOMAIN s
           v == TokensOf(s)
<1>1. IsFiniteSet(S) /\ \A k \in S : v[k] = s[k].tokens /\ v[k] \in Nat
    BY CallsFinite
<1>2. SumOver(v, S) = 0
    BY TotalIsSum
<1>3. i \in S
    OBVIOUS
<1> HIDE DEF S, v
<1>4. SumOver(v, S) = v[i] + SumOver(v, S \ {i})
    BY <1>1, <1>3, SumWithout
<1>5. SumOver(v, S \ {i}) \in Nat
    <2> DEFINE U == S \ {i}
    <2>1. IsFiniteSet(U) /\ \A k \in U : v[k] \in Nat
        BY <1>1, FS_RemoveElement
    <2> HIDE DEF U
    <2>2. SumOver(v, U) \in Nat
        BY <2>1, SumOfNats
    <2> QED
        BY <2>2 DEF U
<1>6. v[i] \in Nat /\ v[i] = s[i].tokens
    BY <1>1, <1>3
<1> QED
    BY <1>2, <1>4, <1>5, <1>6

LEMMA TotalOfMore ==
    ASSUME NEW s \in Seq(CallType), NEW c \in CallType
    PROVE  /\ Append(s, c) \in Seq(CallType) /\ Last(Append(s, c)) = c
           /\ Len(Append(s, c)) = Len(s) + 1
           /\ \A i \in DOMAIN s : Append(s, c)[i] = s[i]
           /\ DOMAIN Append(s, c) = DOMAIN s \cup {Len(s) + 1}
           /\ Total(Append(s, c)) = Total(s) + c.tokens
<1> DEFINE t == Append(s, c)
           x == Len(s) + 1
<1>1. /\ t \in Seq(CallType) /\ Len(t) = x /\ t[x] = c /\ Len(s) \in Nat
      /\ \A i \in DOMAIN s : t[i] = s[i]
      /\ DOMAIN s = 1 .. Len(s) /\ DOMAIN t = 1 .. x
    OBVIOUS
<1>2. /\ x \notin DOMAIN s /\ x \in DOMAIN t /\ DOMAIN t = DOMAIN s \cup {x}
      /\ DOMAIN s \ {x} = DOMAIN t \ {x}
    BY <1>1
<1>3. Last(t) = c
    BY <1>1 DEF Last
<1> HIDE DEF t, x
<1>4. Total(t) = Total(s) - 0 + t[x].tokens
    BY <1>1, <1>2, TotalChanges
<1>5. c.tokens \in Nat /\ Total(s) \in Nat
    BY CallTokens, TotalNat
<1>6. Total(t) = Total(s) + c.tokens
    BY <1>1, <1>4, <1>5
<1> QED
    BY <1>1, <1>2, <1>3, <1>6 DEF t, x

LEMMA TotalOfLess ==
    ASSUME NEW s \in Seq(CallType), s # <<>>, Last(s).tokens = 0
    PROVE  /\ Front(s) \in Seq(CallType) /\ Len(Front(s)) = Len(s) - 1
           /\ \A i \in DOMAIN Front(s) : i \in DOMAIN s /\ i < Len(s) /\ Front(s)[i] = s[i]
           /\ Total(Front(s)) = Total(s)
<1> DEFINE t == Front(s)
           x == Len(s)
<1>1. x \in Nat \ {0} /\ DOMAIN s = 1 .. x
    OBVIOUS
<1>2. /\ t \in Seq(CallType) /\ Len(t) = x - 1 /\ DOMAIN t = 1 .. x - 1
      /\ \A i \in 1 .. x - 1 : t[i] = s[i]
    BY <1>1 DEF Front
<1>3. /\ DOMAIN s \ {x} = DOMAIN t \ {x} /\ x \in DOMAIN s /\ x \notin DOMAIN t
      /\ \A i \in DOMAIN t : i \in DOMAIN s /\ i < x
    BY <1>1, <1>2
<1>4. s[x].tokens = 0 /\ \A i \in DOMAIN s \ {x} : s[i].tokens = t[i].tokens
    BY <1>2, <1>3 DEF Last
<1> HIDE DEF t, x
<1>5. Total(t) = Total(s) - 0 + 0
    BY <1>2, <1>3, <1>4, TotalChanges
<1>6. Total(t) = Total(s)
    BY <1>5, TotalNat
<1> QED
    BY <1>2, <1>3, <1>6 DEF t, x

\* A call becomes another one.
LEMMA TotalOfOther ==
    ASSUME NEW s \in Seq(CallType), NEW i \in DOMAIN s, NEW c \in CallType
    PROVE  /\ [s EXCEPT ![i] = c] \in Seq(CallType) /\ Len([s EXCEPT ![i] = c]) = Len(s)
           /\ DOMAIN [s EXCEPT ![i] = c] = DOMAIN s
           /\ \A k \in DOMAIN s : [s EXCEPT ![i] = c][k] = IF k = i THEN c ELSE s[k]
           /\ Total([s EXCEPT ![i] = c]) = Total(s) - s[i].tokens + c.tokens
<1> DEFINE t == [s EXCEPT ![i] = c]
<1>1. /\ t \in Seq(CallType) /\ Len(t) = Len(s) /\ DOMAIN t = DOMAIN s
      /\ \A k \in DOMAIN s : t[k] = IF k = i THEN c ELSE s[k]
    OBVIOUS
<1> HIDE DEF t
<1>2. Total(t) = Total(s) - s[i].tokens + t[i].tokens
    BY <1>1, TotalChanges
<1> QED
    BY <1>1, <1>2 DEF t

-----------------------------------------------------------------------------
(* What is charged.                                                        *)

HoldNames == {"state", "amount", "source", "of", "asked", "charge", "took", "usage", "short"}

\* Places between two calls, or after the last one.
Between == {"ready", "answered", "committing", "finishing", "saved", "charging"}

Ran     == {"used", "settled", "estimated"}
HaveRun(s) == \A i \in DOMAIN s : s[i].status \in Ran

\* The request calls no model any more: it left the loop, or will be thrown out.
Over(r) == at[r] \notin {"none", "refused"} /\ (at[r] \in Timed => Aborted(r))

\* Only the call a request is at may not have run, and only what ran used tokens.
CallsFit(r) ==
    /\ \A i \in DOMAIN calls[r] :
           calls[r][i].status \in {"intent", "sent"} => calls[r][i].tokens = 0
    /\ at[r] \in Between => HaveRun(calls[r])
    /\ at[r] \in {"prepared", "calling"} =>
           /\ calls[r] # <<>>
           /\ \A i \in DOMAIN calls[r] : i < Len(calls[r]) => calls[r][i].status \in Ran
           /\ at[r] = "prepared" <=> Last(calls[r]).status = "intent"

\* The request knows its intents, but for one whose answer was lost ...
Keyed(r) ==
    \/ Len(calls[r]) = tally[r].keys
    \/ /\ at[r] \in {"closing", "releasing", "retiring"}
       /\ Len(calls[r]) = tally[r].keys + 1
       /\ Last(calls[r]).status = "intent"

\* ... and what they used, but for the call it is at.
Unseen(r) == IF at[r] = "calling" THEN Last(calls[r]).tokens ELSE 0

TallyFits(r) ==
    /\ at[r] \in Live \cup {"none"} => Keyed(r)
    /\ at[r] \in {"none", "claimed"} => tally[r] = NoTally
    /\ at[r] \in Timed /\ "noUsage" \notin faults =>
           tally[r].seen + Unseen(r) = Total(calls[r])

\* A hold is due for reconciliation once its request is over.
DueFits(r) ==
    /\ TimedOut(r) => Aborted(r)
    /\ sched[r] # "none" => at[r] \notin {"none", "refused"}
    /\ sched[r] = "due" => Over(r)

\* What closed a hold fits the calls, and no call is made any more.
UsedNothing(s) ==
    \A i \in DOMAIN s :
        s[i].status = "intent" \/ (s[i].status = "settled" /\ s[i].tokens = 0)

ClosedFits(r) ==
    /\ hold[r].state = "refunded" => Over(r) /\ UsedNothing(calls[r])
    /\ hold[r].state = "settled" =>
           /\ Over(r)
           /\ \A i \in DOMAIN calls[r] : calls[r][i].status # "sent"
           /\ "noUsage" \notin faults => hold[r].usage = UsageOf(Total(calls[r]))

\* A reconciler's job is about a request that is over, and what it is about to
\* pay is what all its calls used.
AllSettled(s) == \A i \in DOMAIN s : s[i].status = "settled"

JobFits(w) ==
    job[w] # NoJob =>
        /\ Over(job[w].of)
        /\ job[w].phase = "paying" =>
               AllSettled(calls[job[w].of]) /\ job[w].total = Total(calls[job[w].of])

TurnShape ==
    /\ DOMAIN mark = Requests
    /\ tally \in [Requests -> [keys : Int, seen : Int]]
    /\ \A h \in Holds : DOMAIN hold[h] = HoldNames

TurnFits(r) == CallsFit(r) /\ TallyFits(r) /\ DueFits(r) /\ ClosedFits(r)

TurnInv ==
    /\ TurnShape
    /\ \A r \in Requests : TurnFits(r)
    /\ \A w \in Workers : JobFits(w)

-----------------------------------------------------------------------------
(* A step of one request, or about one.                                    *)

\* Nothing of another request changes.
OthersStay(r) ==
    /\ UNCHANGED faults
    /\ \A q \in Requests : q # r =>
           /\ at'[q] = at[q] /\ mark'[q] = mark[q] /\ tally'[q] = tally[q]
           /\ calls'[q] = calls[q] /\ sched'[q] = sched[q] /\ hold'[q] = hold[q]

\* A request that is over stays so, and its settled calls stay as they are.
StaysOver(r) ==
    /\ Over(r) => Over(r)'
    /\ Over(r) /\ AllSettled(calls[r]) => UNCHANGED calls[r]

LEMMA OneTurn ==
    ASSUME ControlInv, TurnInv, NEW r \in Requests, TurnShape', OthersStay(r), TurnFits(r)',
           StaysOver(r), UNCHANGED job
    PROVE  TurnInv'
<1>1. ASSUME NEW q \in Requests PROVE TurnFits(q)'
    <2>1. CASE q # r
        <3>1. /\ at'[q] = at[q] /\ mark'[q] = mark[q] /\ tally'[q] = tally[q]
              /\ calls'[q] = calls[q] /\ sched'[q] = sched[q] /\ hold'[q] = hold[q]
              /\ faults' = faults
            BY <2>1 DEF OthersStay
        <3>2. CallsFit(q)' /\ TallyFits(q)'
            BY <3>1 DEF TurnInv, TurnFits, CallsFit, TallyFits, HaveRun, Keyed, Unseen, Last
        <3>3. DueFits(q)' /\ ClosedFits(q)'
            BY <3>1 DEF TurnInv, TurnFits, DueFits, ClosedFits, Over, Aborted, TimedOut,
                        UsedNothing
        <3> QED
            BY <3>2, <3>3 DEF TurnFits
    <2> QED
        BY <2>1
<1>2. ASSUME NEW w \in Workers PROVE JobFits(w)'
    <2> SUFFICES ASSUME job[w] # NoJob PROVE JobFits(w)'
        BY DEF JobFits
    <2>1. PICK o \in Requests : o = job[w].of
        BY DEF ControlInv, Shape
    <2>2. Over(o) /\ (job[w].phase = "paying" =>
                          AllSettled(calls[o]) /\ job[w].total = Total(calls[o]))
        BY <2>1 DEF TurnInv, JobFits
    <2>3. Over(o)' /\ (AllSettled(calls[o]) => calls'[o] = calls[o])
        <3>1. CASE o = r
            BY <2>2, <3>1 DEF StaysOver
        <3>2. CASE o # r
            BY <2>2, <3>2 DEF OthersStay, Over, Aborted
        <3> QED
            BY <3>1, <3>2
    <2> QED
        BY <2>1, <2>2, <2>3 DEF JobFits
<1> QED
    BY <1>1, <1>2 DEF TurnInv

\* A request goes on without another call.
GoesOn(r, to, marks) ==
    /\ at[r] \in Live /\ to \in Live
    /\ to \in Between => at[r] \in Between
    /\ to \in {"claimed", "prepared", "calling"} => to = at[r]
    /\ at[r] \in {"closing", "releasing", "retiring"} => to \in {"closing", "releasing", "retiring"}
    /\ at' = [at EXCEPT ![r] = to]
    /\ mark' = [mark EXCEPT ![r] = @ \cup marks]
    /\ "timedOut" \in marks => "aborted" \in marks
    /\ UNCHANGED <<faults, tally, calls, sched, job>>

LEMMA GoesOnTurn ==
    ASSUME ControlInv, ScheduleInv, TurnInv, NEW r \in Requests, NEW to, NEW marks,
           GoesOn(r, to, marks), HoldStays(r), DOMAIN hold'[r] = HoldNames,
           \/ UNCHANGED hold
           \/ ClosedFits(r)'
    PROVE  TurnInv'
<1> USE RequestsAreHolds
<1>1. /\ at'[r] = to /\ mark'[r] = mark[r] \cup marks /\ UNCHANGED <<faults, tally, calls, sched>>
      /\ at \in [Requests -> Places] /\ TurnShape /\ TurnFits(r)
    BY DEF GoesOn, ControlInv, Shape, TurnInv, TurnShape
<1>2. TurnShape'
    BY <1>1 DEF GoesOn, TurnShape, HoldStays, ControlInv, Shape
<1>3. OthersStay(r)
    BY <1>1 DEF GoesOn, OthersStay, HoldStays, TurnShape
<1>4. Over(r) => Over(r)'
    BY <1>1 DEF GoesOn, Over, Aborted, Timed, Live, Between
<1>5. CallsFit(r)'
    BY <1>1 DEF GoesOn, TurnFits, CallsFit, HaveRun, Live, Between
<1>6. Keyed(r)'
    BY <1>1 DEF GoesOn, TurnFits, TallyFits, Keyed, Live
<1>7. TallyFits(r)'
    BY <1>1, <1>6 DEF GoesOn, TurnFits, TallyFits, Unseen, Live, Timed, Between
<1>8. DueFits(r)'
    BY <1>1, <1>4 DEF GoesOn, TurnFits, DueFits, TimedOut, Aborted, Live
<1>9. ClosedFits(r)'
    BY <1>1, <1>4 DEF TurnFits, ClosedFits, GoesOn
<1>10. TurnFits(r)'
    BY <1>5, <1>7, <1>8, <1>9 DEF TurnFits
<1>11. StaysOver(r)
    BY <1>1, <1>4 DEF StaysOver
<1> QED
    BY <1>2, <1>3, <1>10, <1>11, OneTurn DEF GoesOn

\* What the ledger's steps leave in the row.
LEMMA ReservedRow ==
    ASSUME Shape, NEW r \in Requests, NEW n, Reserve(r, n)
    PROVE  hold[r].state = "none" /\ hold'[r].state = "open" /\ DOMAIN hold'[r] = HoldNames
<1> DEFINE new == Unsettled("open", n, FundingSourceOf(free'), NoGrant)
<1>1. new.state = "open" /\ DOMAIN new = HoldNames
    BY DEF Unsettled, HoldNames
<1>2. hold' = [hold EXCEPT ![r] = new] /\ hold[r].state = "none"
    BY DEF Reserve
<1> HIDE DEF new
<1> QED
    BY <1>1, <1>2, RequestsAreHolds DEF Shape

LEMMA ClosedRow ==
    ASSUME Shape, TurnShape, NEW r \in Requests, NEW s, NEW p, NEW c, NEW k, NEW u,
           CloseHold(r, s, p, c, k, u)
    PROVE  hold'[r].state = s /\ hold'[r].usage = u /\ DOMAIN hold'[r] = HoldNames
<1> DEFINE new == [hold[r] EXCEPT !.state = s, !.asked = p, !.charge = c, !.took = k,
                                  !.usage = u, !.short = 0]
<1>1. DOMAIN hold[r] = HoldNames /\ DOMAIN hold = Holds /\ r \in Holds
    BY RequestsAreHolds DEF Shape, TurnShape
<1>2. new.state = s /\ new.usage = u /\ DOMAIN new = HoldNames
    BY <1>1 DEF HoldNames
<1>3. hold'[r] = new
    BY <1>1, Zenon DEF CloseHold
<1> QED
    BY <1>2, <1>3

LEMMA GivenBack ==
    ASSUME Shape, TurnShape, NEW r \in Requests, GiveBack(r)
    PROVE  /\ DOMAIN hold'[r] = HoldNames
           /\ UNCHANGED hold \/ (hold[r].state = "open" /\ hold'[r].state = "refunded")
<1>1. CASE hold[r].state = "open"
    <2>1. CloseHold(r, "refunded", 0, 0, 0, NoUsage)
        BY <1>1 DEF GiveBack, Refund
    <2> QED
        BY <1>1, <2>1, ClosedRow
<1>2. CASE UNCHANGED ledger
    BY <1>2, RequestsAreHolds DEF TurnShape, ledger, vars
<1> QED
    BY <1>1, <1>2 DEF GiveBack

LEMMA Finalized ==
    ASSUME Shape, TurnShape, NEW r \in Requests, NEW n, Finalize(r, n)
    PROVE  /\ DOMAIN hold'[r] = HoldNames
           /\ \/ UNCHANGED hold
              \/ /\ hold[r].state = "open" /\ hold'[r].state = "settled"
                 /\ hold'[r].usage = UsageOf(n)
<1>1. CASE SettleTracked(r, UsageOf(n))
    <2>1. PICK p, c, k : CloseHold(r, "settled", p, c, k, UsageOf(n))
        BY <1>1 DEF SettleTracked
    <2>2. hold[r].state = "open"
        BY <1>1 DEF SettleTracked, Settleable
    <2> QED
        BY <2>1, <2>2, ClosedRow
<1>2. CASE ReplayTracked(r, UsageOf(n))
    BY <1>2, RequestsAreHolds DEF TurnShape, ReplayTracked
<1> QED
    BY <1>1, <1>2 DEF Finalize

LEMMA HoldsStand ==
    ASSUME Shape, TurnShape, NEW r \in Requests, UNCHANGED ledger
    PROVE  HoldStays(r) /\ DOMAIN hold'[r] = HoldNames /\ UNCHANGED hold
BY RequestsAreHolds DEF TurnShape, HoldStays, ledger, vars

-----------------------------------------------------------------------------
(* The request's steps.                                                    *)

LEMMA QuietMoves ==
    ASSUME Shape, NEW r \in Requests,
           \/ Refuse(r) \/ Throw(r) \/ CallFails(r) \/ LetGo(r) \/ ToCharge(r) \/ BeginFinish(r)
           \/ FinishRow(r) \/ Save(r) \/ Observe(r) \/ Timeout(r)
    PROVE  UNCHANGED ledger /\ \E to, marks : GoesOn(r, to, marks)
<1> USE DEF Goes, Notes, Live, Timed, Between
<1>1. /\ UNCHANGED ledger /\ UNCHANGED <<faults, tally, calls, sched, job>>
    BY DEF Refuse, Throw, CallFails, LetGo, ToCharge, BeginFinish, FinishRow, Save, Observe,
           Timeout, chatButReq, chatButHandler, recovery
<1>2. CASE Refuse(r) \/ Throw(r) \/ CallFails(r)
    <2>1. GoesOn(r, "closing", {})
        BY <1>1, <1>2 DEF Refuse, Throw, CallFails, GoesOn
    <2> QED
        BY <1>1, <2>1
<1>3. CASE LetGo(r)
    <2>1. GoesOn(r, "committing", {"letGo"})
        BY <1>1, <1>3 DEF LetGo, GoesOn
    <2> QED
        BY <1>1, <2>1
<1>4. CASE ToCharge(r)
    <2>1. GoesOn(r, "charging", {}) \/ GoesOn(r, "closing", {"completed"})
        BY <1>1, <1>4 DEF ToCharge, GoesOn
    <2> QED
        BY <1>1, <2>1
<1>5. CASE BeginFinish(r)
    <2>1. GoesOn(r, "finishing", {}) \/ GoesOn(r, "closing", {"aborted"})
        BY <1>1, <1>5 DEF BeginFinish, GoesOn
    <2> QED
        BY <1>1, <2>1
<1>6. CASE FinishRow(r)
    <2>1. GoesOn(r, "releasing", {"letGo"})
        BY <1>1, <1>6 DEF FinishRow, GoesOn
    <2> QED
        BY <1>1, <2>1
<1>7. CASE Save(r)
    <2>1. GoesOn(r, "saved", {})
        BY <1>1, <1>7 DEF Save, GoesOn
    <2> QED
        BY <1>1, <2>1
<1>8. CASE Observe(r)
    <2>1. GoesOn(r, at[r], {"aborted", "letGo"})
        BY <1>1, <1>8 DEF Observe, GoesOn
    <2> QED
        BY <1>1, <2>1
<1>9. CASE Timeout(r)
    <2>1. GoesOn(r, at[r], {"timedOut", "aborted"})
        BY <1>1, <1>9 DEF Timeout, GoesOn
    <2> QED
        BY <1>1, <2>1
<1> QED
    BY <1>2, <1>3, <1>4, <1>5, <1>6, <1>7, <1>8, <1>9

LEMMA QuietTurn ==
    ASSUME ControlInv, ScheduleInv, TurnInv, NEW r \in Requests,
           \/ Refuse(r) \/ Throw(r) \/ CallFails(r) \/ LetGo(r) \/ ToCharge(r) \/ BeginFinish(r)
           \/ FinishRow(r) \/ Save(r) \/ Observe(r) \/ Timeout(r)
    PROVE  TurnInv'
<1>1. Shape /\ TurnShape
    BY DEF ControlInv, TurnInv
<1>2. UNCHANGED ledger
    BY <1>1, QuietMoves
<1>3. PICK to, marks : GoesOn(r, to, marks)
    BY <1>1, QuietMoves
<1> QED
    BY <1>1, <1>2, <1>3, HoldsStand, GoesOnTurn

\* A request that ends knows nothing any more, whatever becomes of its schedule.
LEMMA EndingTurn ==
    ASSUME ControlInv, ScheduleInv, TurnInv, NEW r \in Requests, NEW to \in {"done", "dead"},
           at[r] \notin {"none", "refused"}, Ends(r, to),
           \A q \in Requests : q # r => sched'[q] = sched[q],
           UNCHANGED ledger, UNCHANGED <<faults, calls, job>>
    PROVE  TurnInv'
<1>1. /\ at'[r] = to /\ mark'[r] = {} /\ tally'[r] = NoTally /\ UNCHANGED <<calls, hold>>
      /\ TurnShape /\ TurnFits(r) /\ HoldStays(r)
    BY LedgerStays DEF Ends, ControlInv, Shape, TurnInv, TurnShape, ledger, vars
<1>2. TurnShape'
    BY <1>1 DEF Ends, TurnShape, NoTally
<1>3. OthersStay(r)
    BY <1>1 DEF Ends, OthersStay, TurnShape, ControlInv, Shape
<1>4. Over(r)'
    BY <1>1 DEF Over, Timed
<1>5. CallsFit(r)'
    BY <1>1 DEF TurnFits, CallsFit, Between
<1>6. TallyFits(r)'
    BY <1>1 DEF TallyFits, Live, Timed
<1>7. DueFits(r)' /\ ClosedFits(r)'
    BY <1>1, <1>4 DEF TurnFits, DueFits, ClosedFits, TimedOut
<1>8. TurnFits(r)'
    BY <1>5, <1>6, <1>7 DEF TurnFits
<1>9. StaysOver(r)
    BY <1>1, <1>4 DEF StaysOver
<1> QED
    BY <1>2, <1>3, <1>8, <1>9, OneTurn

LEMMA EndTurn ==
    ASSUME ControlInv, ScheduleInv, TurnInv, NEW r \in Requests,
           HandOver(r) \/ Close(r) \/ Retire(r) \/ Crash(r)
    PROVE  TurnInv'
<1>1. Shape /\ TurnShape
    BY DEF ControlInv, TurnInv
<1>2. CASE HandOver(r) \/ Retire(r)
    <2>1. Ends(r, "done") /\ at[r] \in {"releasing", "retiring"}
        BY <1>2 DEF HandOver, Retire
    <2>2. UNCHANGED ledger /\ UNCHANGED <<faults, calls, job>>
        BY <1>2 DEF HandOver, Retire
    <2>3. \A q \in Requests : q # r => sched'[q] = sched[q]
        BY <1>2 DEF HandOver, Retire, RetireTerminal, ScheduleInv
    <2> QED
        BY <2>1, <2>2, <2>3, EndingTurn
<1>3. CASE Crash(r)
    <2>1. Ends(r, "dead") /\ at[r] \notin {"none", "refused"}
        BY <1>3 DEF Crash, Live
    <2>2. UNCHANGED ledger /\ UNCHANGED <<faults, calls, job, sched>>
        BY <1>3 DEF Crash, chatButHandler, recovery
    <2> QED
        BY <2>1, <2>2, EndingTurn
<1>4. CASE Close(r)
    <2>1. UNCHANGED ledger /\ UNCHANGED <<faults, calls, job, sched>> /\ at[r] = "releasing"
        BY <1>4 DEF Close, chatButHandler, recovery
    <2>2. Ends(r, "done") \/ (Goes(r, "retiring") /\ UNCHANGED tally)
        BY <1>4 DEF Close
    <2>3. CASE Ends(r, "done")
        BY <2>1, <2>3, EndingTurn
    <2>4. CASE Goes(r, "retiring") /\ UNCHANGED tally
        <3>1. GoesOn(r, "retiring", {})
            BY <2>1, <2>4 DEF GoesOn, Goes, Notes, Live, Between
        <3> QED
            BY <1>1, <2>1, <3>1, HoldsStand, GoesOnTurn
    <2> QED
        BY <2>2, <2>3, <2>4
<1> QED
    BY <1>2, <1>3, <1>4

LEMMA ClaimTurn ==
    ASSUME ControlInv, ScheduleInv, TurnInv, NEW r \in Requests, Claim(r) \/ ClaimUnanswered(r)
    PROVE  TurnInv'
<1>1. /\ at[r] = "none" /\ \E to \in {"claimed", "refused"} : at' = [at EXCEPT ![r] = to]
      /\ mark' = [mark EXCEPT ![r] = @ \cup {}]
      /\ UNCHANGED ledger /\ UNCHANGED <<faults, tally, calls, sched, job>>
    BY DEF Claim, ClaimUnanswered, Goes, Notes, recovery
<1>2. /\ at'[r] \in {"claimed", "refused"} /\ mark'[r] = mark[r]
      /\ TurnShape /\ TurnFits(r) /\ HoldStays(r) /\ UNCHANGED hold
    BY <1>1, LedgerStays DEF ControlInv, Shape, TurnInv, TurnShape, ledger, vars
<1>3. calls[r] = <<>> /\ sched[r] = "none" /\ hold[r].state = "none" /\ ~Over(r)
    BY <1>1, <1>2 DEF ScheduleInv, TurnFits, DueFits, ControlInv, Ownership, Over
<1>4. TurnShape'
    BY <1>1, <1>2 DEF TurnShape
<1>5. OthersStay(r)
    BY <1>1, <1>2 DEF OthersStay, TurnShape, ControlInv, Shape
<1>6. CallsFit(r)'
    BY <1>1, <1>2 DEF TurnFits, CallsFit, Between
<1>7. TallyFits(r)'
    <2>1. tally[r] = NoTally /\ NoTally.seen = 0 /\ Keyed(r)
        BY <1>1, <1>2 DEF TurnFits, TallyFits, NoTally
    <2>2. Keyed(r)'
        BY <1>1, <1>2, <2>1 DEF Keyed
    <2>3. at'[r] = "claimed" => tally'[r].seen + Unseen(r)' = Total(calls'[r])
        BY <1>1, <1>3, <2>1, TotalOfNone DEF Unseen
    <2> QED
        BY <1>1, <1>2, <2>1, <2>2, <2>3 DEF TallyFits, Live, Timed
<1>8. DueFits(r)' /\ ClosedFits(r)'
    BY <1>1, <1>2, <1>3 DEF TurnFits, DueFits, ClosedFits, TimedOut, Aborted
<1>9. TurnFits(r)' /\ StaysOver(r)
    BY <1>3, <1>6, <1>7, <1>8 DEF TurnFits, StaysOver
<1> QED
    BY <1>1, <1>4, <1>5, <1>9, OneTurn

LEMMA AdmitTurn ==
    ASSUME ControlInv, ScheduleInv, TurnInv, NEW r \in Requests, Admit(r)
    PROVE  TurnInv'
<1>1. /\ at[r] = "claimed" /\ at' = [at EXCEPT ![r] = "ready"] /\ ~Aborted(r)
      /\ mark' = [mark EXCEPT ![r] = @ \cup {}]
      /\ UNCHANGED <<faults, tally, calls, sched, job>>
    BY DEF Admit, Goes, Notes, chatButReq, chatButHandler, recovery
<1>2. /\ at'[r] = "ready" /\ mark'[r] = mark[r] /\ TurnShape /\ TurnFits(r) /\ Shape
      /\ calls[r] = <<>> /\ ~Over(r)
    BY <1>1 DEF ControlInv, Shape, TurnInv, TurnShape, ScheduleInv, Over, Timed
<1>3. /\ HoldStays(r) /\ hold'[r].state = "open" /\ DOMAIN hold'[r] = HoldNames
    BY <1>2, ReservedRow, ReserveTouchesOne, RequestsAreHolds DEF Admit
<1>4. TurnShape'
    BY <1>1, <1>2, <1>3 DEF TurnShape, HoldStays, Shape
<1>5. OthersStay(r)
    BY <1>1, <1>2, <1>3, RequestsAreHolds DEF OthersStay, TurnShape, Shape, HoldStays
<1>6. CallsFit(r)'
    BY <1>1, <1>2 DEF TurnFits, CallsFit, HaveRun
<1>7. TallyFits(r)'
    <2>1. Keyed(r)' /\ Unseen(r)' = Unseen(r)
        BY <1>1, <1>2 DEF TurnFits, TallyFits, Keyed, Unseen, Live
    <2> QED
        BY <1>1, <1>2, <2>1 DEF TurnFits, TallyFits, Live, Timed
<1>8. DueFits(r)' /\ ClosedFits(r)'
    BY <1>1, <1>2, <1>3 DEF TurnFits, DueFits, ClosedFits, TimedOut, Aborted
<1>9. TurnFits(r)' /\ StaysOver(r)
    BY <1>2, <1>6, <1>7, <1>8 DEF TurnFits, StaysOver
<1> QED
    BY <1>1, <1>4, <1>5, <1>9, OneTurn

\* Who dispatched nothing has at most one intent, and that was never sent.
LEMMA ReleaseTurn ==
    ASSUME ControlInv, ScheduleInv, TurnInv, NEW r \in Requests, ReleaseHold(r)
    PROVE  TurnInv'
<1>1. Shape /\ TurnShape /\ TurnFits(r) /\ calls[r] \in Seq(CallType)
    BY DEF ControlInv, TurnInv, ScheduleInv
<1>2. /\ GoesOn(r, "retiring", {"settled"})
      /\ at[r] = "releasing" /\ tally[r].keys = 0
      /\ GiveBack(r) \/ UNCHANGED ledger
    BY DEF ReleaseHold, GoesOn, Notes, Live, Between, chatButReq, chatButHandler, recovery
<1>3. /\ HoldStays(r) /\ DOMAIN hold'[r] = HoldNames
      /\ UNCHANGED hold \/ hold'[r].state = "refunded"
    BY <1>1, <1>2, GivenBack, HoldsStand, GiveBackTouchesOne, RequestsAreHolds
<1>4. UsedNothing(calls[r])
    <2>1. Keyed(r)
        BY <1>1, <1>2 DEF TurnFits, TallyFits, Live
    <2>2. Len(calls[r]) = 0 \/ (Len(calls[r]) = 1 /\ Last(calls[r]).status = "intent")
        BY <1>2, <2>1 DEF Keyed
    <2>3. DOMAIN calls[r] = 1 .. Len(calls[r])
        BY <1>1
    <2>4. \A i \in DOMAIN calls[r] : calls[r][i].status = "intent"
        BY <2>2, <2>3 DEF Last
    <2> QED
        BY <2>4 DEF UsedNothing
<1>5. UNCHANGED hold \/ ClosedFits(r)'
    <2>1. at'[r] = "retiring" /\ UNCHANGED calls
        BY <1>1, <1>2 DEF GoesOn, Shape
    <2> QED
        BY <1>3, <1>4, <2>1 DEF ClosedFits, Over, Timed
<1> QED
    BY <1>2, <1>3, <1>5, GoesOnTurn

\* A request that charges has seen what each of its calls used.
LEMMA ChargeTurn ==
    ASSUME ControlInv, ScheduleInv, TurnInv, NEW r \in Requests, Charge(r)
    PROVE  TurnInv'
<1>1. Shape /\ TurnShape /\ TurnFits(r) /\ calls[r] \in Seq(CallType)
    BY DEF ControlInv, TurnInv, ScheduleInv
<1>2. /\ at[r] = "charging"
      /\ \E marks : GoesOn(r, "closing", marks)
      /\ Finalize(r, tally[r].seen) \/ UNCHANGED ledger
    BY DEF Charge, FinalizeThrows, GoesOn, Notes, Live, Between, chatButReq, chatButHandler,
           recovery
<1>3. /\ HoldStays(r) /\ DOMAIN hold'[r] = HoldNames
      /\ \/ UNCHANGED hold
         \/ hold'[r].state = "settled" /\ hold'[r].usage = UsageOf(tally[r].seen)
    BY <1>1, <1>2, Finalized, HoldsStand, SettleTouchesOne, RequestsAreHolds
<1>4. "noUsage" \notin faults => tally[r].seen = Total(calls[r])
    BY <1>1, <1>2 DEF TurnFits, TallyFits, Unseen, Timed, TurnShape
<1>5. UNCHANGED hold \/ ClosedFits(r)'
    <2>1. at'[r] = "closing" /\ UNCHANGED <<calls, faults>>
        BY <1>1, <1>2 DEF GoesOn, Shape
    <2>2. \A i \in DOMAIN calls[r] : calls[r][i].status # "sent"
        BY <1>1, <1>2 DEF TurnFits, CallsFit, Between, HaveRun, Ran
    <2> QED
        BY <1>3, <1>4, <2>1, <2>2 DEF ClosedFits, Over, Timed
<1> QED
    BY <1>2, <1>3, <1>5, GoesOnTurn

-----------------------------------------------------------------------------
(* The model calls.                                                        *)

LEMMA Counted ==
    ASSUME tally \in [Requests -> [keys : Int, seen : Int]], NEW r \in Requests, NEW n \in Int,
           \/ tally' = [tally EXCEPT ![r].keys = @ + 1]
           \/ tally' = [tally EXCEPT ![r].keys = @ - 1]
           \/ tally' = [tally EXCEPT ![r].seen = @ + n]
           \/ UNCHANGED tally
    PROVE  tally' \in [Requests -> [keys : Int, seen : Int]]
<1> DEFINE Tallies == [keys : Int, seen : Int]
<1>1. tally[r].keys \in Int /\ tally[r].seen \in Int
    OBVIOUS
<1>2. \A k \in Int : [tally[r] EXCEPT !.keys = k] \in Tallies
                   /\ [tally[r] EXCEPT !.seen = k] \in Tallies
    OBVIOUS
<1>3. PICK c \in Tallies : tally' = [tally EXCEPT ![r] = c] \/ UNCHANGED tally
    <2>1. tally[r].keys + 1 \in Int /\ tally[r].keys - 1 \in Int /\ tally[r].seen + n \in Int
        BY <1>1
    <2> HIDE DEF Tallies
    <2> QED
        BY <1>2, <2>1
<1> QED
    BY <1>3

LEMMA PrepareTurn ==
    ASSUME ControlInv, ScheduleInv, TurnInv, NEW r \in Requests, Prepare(r)
    PROVE  TurnInv'
<1>1. /\ Shape /\ TurnShape /\ TurnFits(r) /\ calls[r] \in Seq(CallType)
      /\ at \in [Requests -> Places] /\ DOMAIN calls = Requests /\ DOMAIN sched = Requests
    BY DEF ControlInv, Shape, TurnInv, ScheduleInv
<1>2. /\ at[r] = "ready" /\ ~Aborted(r) /\ hold[r].state = "open"
      /\ calls' = [calls EXCEPT ![r] = Append(@, Intent)]
      /\ sched' = [sched EXCEPT ![r] = "later"]
      /\ mark' = [mark EXCEPT ![r] = @ \cup {}]
      /\ UNCHANGED ledger /\ UNCHANGED <<faults, job>>
    BY DEF Prepare, Goes, Notes
<1>3. \/ at' = [at EXCEPT ![r] = "prepared"] /\ tally' = [tally EXCEPT ![r].keys = @ + 1]
      \/ at' = [at EXCEPT ![r] = "closing"] /\ UNCHANGED tally
    BY DEF Prepare, Goes, Notes
<1> DEFINE s == calls[r]
           t == Append(s, Intent)
<1>4. /\ t # <<>> /\ Last(t) = Intent /\ Len(t) = Len(s) + 1 /\ Total(t) = Total(s)
      /\ \A i \in DOMAIN t : i < Len(t) => i \in DOMAIN s /\ t[i] = s[i]
      /\ \A i \in DOMAIN t : i = Len(t) \/ (i \in DOMAIN s /\ t[i] = s[i])
      /\ Len(s) \in Nat /\ t[Len(t)] = Intent
    <2>1. Intent \in CallType /\ Intent.tokens = 0
        BY DEF Intent, CallType
    <2>2. Total(t) = Total(s) + 0 /\ Total(s) \in Nat /\ Last(t) = Intent /\ Len(t) = Len(s) + 1
        BY <1>1, <2>1, TotalOfMore, TotalNat
    <2>3. DOMAIN s = 1 .. Len(s) /\ DOMAIN t = 1 .. Len(s) + 1 /\ Len(s) \in Nat
        BY <1>1
    <2>4. \A i \in DOMAIN s : t[i] = s[i]
        BY <1>1
    <2>5. \A i \in DOMAIN t : i = Len(t) \/ i \in DOMAIN s
        BY <2>2, <2>3
    <2>6. Total(t) = Total(s)
        BY <2>2
    <2>7. t[Len(t)] = Intent /\ t # <<>>
        BY <1>1
    <2> HIDE DEF s, t
    <2>8. \A i \in DOMAIN t : i < Len(t) => i # Len(t)
        BY <2>2, <2>3
    <2> QED
        BY <2>2, <2>3, <2>4, <2>5, <2>6, <2>7, <2>8
<1>5. calls'[r] = t /\ mark'[r] = mark[r] /\ UNCHANGED hold /\ sched'[r] = "later"
    BY <1>1, <1>2 DEF TurnShape, ledger, vars
<1>6. Intent.status = "intent" /\ Intent.tokens = 0
    BY DEF Intent
<1>7. HaveRun(s) /\ Len(s) = tally[r].keys /\ ("noUsage" \notin faults => tally[r].seen = Total(s))
    <2>1. tally[r].seen \in Int
        BY <1>1 DEF TurnShape
    <2> QED
        BY <1>1, <1>2, <2>1 DEF TurnFits, CallsFit, TallyFits, Keyed, Unseen, Between, Live, Timed
<1> HIDE DEF s, t
<1>8. /\ tally'[r].seen = tally[r].seen
      /\ \/ at'[r] = "prepared" /\ tally'[r].keys = tally[r].keys + 1
         \/ at'[r] = "closing" /\ tally'[r].keys = tally[r].keys
    BY <1>1, <1>3 DEF TurnShape
<1>9. TurnShape'
    <2>1. tally' \in [Requests -> [keys : Int, seen : Int]]
        BY <1>1, <1>3, Counted DEF TurnShape
    <2> QED
        BY <1>1, <1>2, <1>5, <2>1 DEF TurnShape
<1>10. OthersStay(r)
    BY <1>1, <1>2, <1>3, <1>5 DEF OthersStay, TurnShape
<1>11. CallsFit(r)'
    BY <1>4, <1>5, <1>6, <1>7, <1>8 DEF CallsFit, HaveRun, Ran, Between
<1>12. TallyFits(r)'
    <2>1. Keyed(r)'
        BY <1>4, <1>5, <1>6, <1>7, <1>8 DEF Keyed
    <2>2. at'[r] = "prepared" /\ "noUsage" \notin faults' =>
              tally'[r].seen + Unseen(r)' = Total(calls'[r])
        <3>1. Total(s) \in Nat
            BY <1>1, TotalNat DEF s
        <3>2. at'[r] = "prepared" => Unseen(r)' = 0
            BY DEF Unseen
        <3>3. Total(t) = Total(s) /\ Total(calls'[r]) = Total(t) /\ faults' = faults
            BY <1>2, <1>4, <1>5
        <3> QED
            BY <1>7, <1>8, <3>1, <3>2, <3>3
    <2> QED
        BY <1>8, <2>1, <2>2 DEF TallyFits, Timed
<1>13. DueFits(r)' /\ ClosedFits(r)'
    BY <1>1, <1>2, <1>5, <1>8 DEF TurnFits, DueFits, ClosedFits, TimedOut, Aborted
<1>14. TurnFits(r)' /\ StaysOver(r)
    BY <1>2, <1>11, <1>12, <1>13 DEF TurnFits, StaysOver, Over, Timed
<1> QED
    BY <1>2, <1>9, <1>10, <1>14, OneTurn

\* An intent that is taken back was the last, and was counted.
LEMMA NotSentTurn ==
    ASSUME ControlInv, ScheduleInv, TurnInv, NEW r \in Requests, NotSent(r)
    PROVE  TurnInv'
<1>1. /\ Shape /\ TurnShape /\ TurnFits(r) /\ calls[r] \in Seq(CallType)
      /\ at \in [Requests -> Places] /\ DOMAIN calls = Requests
    BY DEF ControlInv, Shape, TurnInv, ScheduleInv
<1>2. /\ at[r] = "prepared" /\ Aborted(r)
      /\ at' = [at EXCEPT ![r] = "closing"]
      /\ mark' = [mark EXCEPT ![r] = @ \cup {}]
      /\ UNCHANGED ledger /\ UNCHANGED <<faults, sched, job>>
    BY DEF NotSent, Goes, Notes, recovery
<1>3. /\ \A i \in DOMAIN calls[r] : i < Len(calls[r]) => calls[r][i].status \in Ran
      /\ calls[r] # <<>> /\ Last(calls[r]).status = "intent"
      /\ Len(calls[r]) = tally[r].keys
      /\ \A i \in DOMAIN calls[r] : calls[r][i].status = "intent" => calls[r][i].tokens = 0
    BY <1>1, <1>2 DEF TurnFits, CallsFit, TallyFits, Keyed, Live, Between
<1>4. CASE UNCHANGED <<calls, tally>>
    <2>1. GoesOn(r, "closing", {})
        BY <1>2, <1>4 DEF GoesOn, Live, Between
    <2> QED
        BY <1>1, <1>2, <2>1, HoldsStand, GoesOnTurn
<1>5. CASE /\ hold[r].state = "open"
           /\ calls' = [calls EXCEPT ![r] = Front(@)]
           /\ tally' = [tally EXCEPT ![r].keys = @ - 1]
    <2> DEFINE s == calls[r]
               t == Front(s)
    <2>1. Len(s) \in Nat \ {0} /\ DOMAIN s = 1 .. Len(s)
        BY <1>1, <1>3
    <2>2. Last(s).tokens = 0
        BY <1>3, <2>1 DEF Last
    <2>3. /\ Len(t) = Len(s) - 1
          /\ \A i \in DOMAIN t : i \in DOMAIN s /\ i < Len(s) /\ t[i] = s[i]
        BY <1>1, <1>3, <2>2, TotalOfLess
    <2>4. ~AllSettled(s)
        BY <1>3, <2>1 DEF AllSettled, Last
    <2>5. calls'[r] = t /\ mark'[r] = mark[r] /\ UNCHANGED hold /\ at'[r] = "closing"
        BY <1>1, <1>2, <1>5 DEF TurnShape, ledger, vars
    <2> HIDE DEF t
    <2>6. tally'[r].keys = tally[r].keys - 1 /\ tally'[r].seen = tally[r].seen
        BY <1>1, <1>5 DEF TurnShape
    <2>7. TurnShape'
        <3>1. tally' \in [Requests -> [keys : Int, seen : Int]]
            BY <1>1, <1>5, Counted DEF TurnShape
        <3> QED
            BY <1>1, <1>2, <2>5, <3>1 DEF TurnShape
    <2>8. OthersStay(r)
        BY <1>1, <1>2, <1>5, <2>5 DEF OthersStay, TurnShape
    <2>9. CallsFit(r)'
        BY <1>3, <2>3, <2>5 DEF CallsFit, Ran, Between
    <2>10. TallyFits(r)'
        BY <1>3, <2>1, <2>3, <2>5, <2>6 DEF TallyFits, Keyed, Timed
    <2>11. DueFits(r)' /\ ClosedFits(r)'
        BY <1>1, <1>2, <1>5, <2>5 DEF TurnFits, DueFits, ClosedFits, TimedOut, Aborted, Over, Timed
    <2>12. TurnFits(r)' /\ StaysOver(r)
        BY <2>4, <2>5, <2>9, <2>10, <2>11 DEF TurnFits, StaysOver, Over, Timed
    <2> QED
        BY <1>2, <2>7, <2>8, <2>12, OneTurn
<1> QED
    BY <1>4, <1>5 DEF NotSent

LEMMA SendTurn ==
    ASSUME ControlInv, ScheduleInv, TurnInv, NEW r \in Requests, Send(r)
    PROVE  TurnInv'
<1>1. /\ Shape /\ TurnShape /\ TurnFits(r) /\ calls[r] \in Seq(CallType)
      /\ at \in [Requests -> Places] /\ DOMAIN calls = Requests
    BY DEF ControlInv, Shape, TurnInv, ScheduleInv
<1>2. /\ at[r] = "prepared" /\ ~Aborted(r)
      /\ calls' = [calls EXCEPT ![r][Len(calls[r])].status = "sent"]
      /\ at' = [at EXCEPT ![r] = "calling"]
      /\ mark' = [mark EXCEPT ![r] = @ \cup {}]
      /\ UNCHANGED ledger /\ UNCHANGED <<faults, tally, sched, job>>
    BY DEF Send, Goes, Notes, recovery
<1> DEFINE s == calls[r]
           x == Len(s)
           c == [s[x] EXCEPT !.status = "sent"]
           t == [s EXCEPT ![x] = c]
<1>3. /\ \A i \in DOMAIN s : i < x => s[i].status \in Ran
      /\ s # <<>> /\ s[x].status = "intent" /\ x = tally[r].keys
      /\ \A i \in DOMAIN s : s[i].status \in {"intent", "sent"} => s[i].tokens = 0
      /\ "noUsage" \notin faults => tally[r].seen + 0 = Total(s)
    BY <1>1, <1>2 DEF TurnFits, CallsFit, TallyFits, Keyed, Unseen, Live, Between, Timed, Last
<1>4. x \in DOMAIN s /\ DOMAIN s = 1 .. x /\ x \in Nat \ {0} /\ s[x] \in CallType
    BY <1>1, <1>3
<1>5. c \in CallType /\ c.status = "sent" /\ c.tokens = 0 /\ s[x].tokens = 0
    BY <1>3, <1>4 DEF CallType
<1>6. /\ t \in Seq(CallType) /\ Len(t) = x /\ t # <<>> /\ DOMAIN t = DOMAIN s
      /\ \A i \in DOMAIN t : t[i] = IF i = x THEN c ELSE s[i]
      /\ Total(t) = Total(s)
    <2> HIDE DEF c
    <2>1. Total(t) = Total(s)
        <3> HIDE DEF s, x
        <3>1. Total([s EXCEPT ![x] = c]) = Total(s) - s[x].tokens + c.tokens
            BY <1>1, <1>4, <1>5, TotalOfOther DEF s
        <3>2. Total(s) \in Nat
            BY <1>1, TotalNat DEF s
        <3> QED
            BY <1>5, <3>1, <3>2
    <2> QED
        BY <1>1, <1>4, <1>5, <2>1
<1>7. calls'[r] = t /\ mark'[r] = mark[r] /\ UNCHANGED hold /\ at'[r] = "calling"
    BY <1>1, <1>2 DEF TurnShape, ledger, vars
<1>8. \A q \in Requests : q # r => calls'[q] = calls[q]
    BY <1>1, <1>2
<1> HIDE DEF c, t
<1>9. Last(t) = c
    BY <1>4, <1>6 DEF Last
<1>10. TurnShape'
    BY <1>1, <1>2, <1>7 DEF TurnShape
<1>11. OthersStay(r)
    BY <1>1, <1>2, <1>7, <1>8 DEF OthersStay, TurnShape
<1>12. CallsFit(r)'
    <2>1. \A i \in DOMAIN t : i < x => i # x
        BY <1>4, <1>6
    <2> HIDE DEF x
    <2>2. \A i \in DOMAIN t : i < Len(t) => t[i].status \in Ran
        BY <1>3, <1>6, <2>1
    <2>3. \A i \in DOMAIN t : t[i].status \in {"intent", "sent"} => t[i].tokens = 0
        BY <1>3, <1>5, <1>6
    <2> HIDE DEF s
    <2> QED
        BY <1>5, <1>6, <1>7, <1>9, <2>2, <2>3 DEF CallsFit, Between
<1>13. TallyFits(r)'
    <2>1. Keyed(r)'
        BY <1>2, <1>3, <1>6, <1>7 DEF Keyed
    <2>2. Unseen(r)' = 0
        BY <1>5, <1>7, <1>9 DEF Unseen
    <2>3. Total(calls'[r]) = Total(s) /\ tally'[r] = tally[r] /\ faults' = faults
        BY <1>2, <1>6, <1>7
    <2>4. at'[r] \in Timed /\ "noUsage" \notin faults' =>
              tally'[r].seen + Unseen(r)' = Total(calls'[r])
        BY <1>3, <2>2, <2>3
    <2> QED
        BY <1>7, <2>1, <2>4 DEF TallyFits
<1>14. DueFits(r)' /\ ClosedFits(r)'
    BY <1>1, <1>2, <1>7 DEF TurnFits, DueFits, ClosedFits, TimedOut, Aborted, Over, Timed
<1>15. TurnFits(r)' /\ StaysOver(r)
    BY <1>2, <1>12, <1>13, <1>14 DEF TurnFits, StaysOver, Over, Timed
<1> QED
    BY <1>2, <1>10, <1>11, <1>15, OneTurn

LEMMA ReturnTurn ==
    ASSUME ControlInv, ScheduleInv, TurnInv, NEW r \in Requests, CallReturns(r)
    PROVE  TurnInv'
<1>1. /\ Shape /\ TurnShape /\ TurnFits(r) /\ calls[r] \in Seq(CallType)
      /\ at \in [Requests -> Places] /\ DOMAIN calls = Requests
    BY DEF ControlInv, Shape, TurnInv, ScheduleInv
<1> DEFINE s == calls[r]
           x == Len(s)
<1>2. /\ at[r] = "calling" /\ ~Aborted(r) /\ Last(s).status # "sent"
      /\ mark' = [mark EXCEPT ![r] = @ \cup {}]
      /\ UNCHANGED ledger /\ UNCHANGED <<faults, calls, sched, job>>
    BY DEF CallReturns, Goes, Notes, chatButHandler, recovery
<1>3. PICK to \in {"ready", "answered"}, n \in {Last(s).tokens, 0} :
          /\ n = Last(s).tokens \/ "noUsage" \in faults
          /\ at' = [at EXCEPT ![r] = to]
          /\ tally' = [tally EXCEPT ![r].seen = @ + n]
    BY DEF CallReturns, Goes, Notes
<1>4. /\ \A i \in DOMAIN s : i < x => s[i].status \in Ran
      /\ s # <<>> /\ Last(s).status # "intent" /\ x = tally[r].keys
      /\ "noUsage" \notin faults => tally[r].seen + Last(s).tokens = Total(s)
    BY <1>1, <1>2 DEF TurnFits, CallsFit, TallyFits, Keyed, Unseen, Live, Between, Timed
<1>5. /\ x \in DOMAIN s /\ DOMAIN s = 1 .. x /\ x \in Nat \ {0} /\ s[x] \in CallType
      /\ Last(s) = s[x]
    BY <1>1, <1>4 DEF Last
<1>6. Last(s).tokens \in Nat /\ n \in Int
    BY <1>5, CallTokens
<1>7. HaveRun(s)
    <2>1. s[x].status \in Ran
        BY <1>2, <1>4, <1>5 DEF CallType, Ran
    <2>2. \A i \in DOMAIN s : i < x \/ i = x
        BY <1>5
    <2> QED
        BY <1>4, <2>1, <2>2 DEF HaveRun
<1>8. /\ tally' \in [Requests -> [keys : Int, seen : Int]]
      /\ tally'[r].keys = tally[r].keys /\ tally'[r].seen = tally[r].seen + n
    BY <1>1, <1>3, <1>6, Counted DEF TurnShape
<1>9. mark'[r] = mark[r] /\ UNCHANGED hold /\ at'[r] = to
    BY <1>1, <1>2, <1>3 DEF TurnShape, ledger, vars
<1>10. TurnShape'
    BY <1>1, <1>2, <1>8, <1>9 DEF TurnShape
<1>11. OthersStay(r)
    BY <1>1, <1>2, <1>3, <1>9 DEF OthersStay, TurnShape
<1>12. CallsFit(r)'
    <2>1. CallsFit(r)
        BY <1>1 DEF TurnFits
    <2> QED
        BY <1>2, <1>7, <1>9, <2>1 DEF CallsFit
<1>13. TallyFits(r)'
    <2>1. Keyed(r)'
        BY <1>2, <1>4, <1>8 DEF Keyed
    <2>2. Unseen(r)' = 0
        BY <1>9 DEF Unseen
    <2>3. "noUsage" \notin faults => tally[r].seen + n = Total(s)
        BY <1>3, <1>4
    <2>4. "noUsage" \notin faults' => tally'[r].seen + Unseen(r)' = Total(calls'[r])
        <3>1. tally[r].seen \in Int
            BY <1>1 DEF TurnShape
        <3> QED
            BY <1>2, <1>6, <1>8, <2>2, <2>3, <3>1
    <2> QED
        BY <1>9, <2>1, <2>4 DEF TallyFits
<1>14. DueFits(r)' /\ ClosedFits(r)'
    BY <1>1, <1>2, <1>9 DEF TurnFits, DueFits, ClosedFits, TimedOut, Aborted, Over, Timed
<1>15. TurnFits(r)' /\ StaysOver(r)
    BY <1>2, <1>12, <1>13, <1>14 DEF TurnFits, StaysOver, Over, Timed
<1> QED
    BY <1>2, <1>10, <1>11, <1>15, OneTurn

\* A call that was sent is run, or its record settled, whether or not its
\* request still listens.
LEMMA RunTurn ==
    ASSUME ControlInv, ScheduleInv, TurnInv, NEW r \in Requests, NEW i \in DOMAIN calls[r],
           NEW c \in CallType, c.status \in Ran,
           calls' = [calls EXCEPT ![r] = [@ EXCEPT ![i] = c]],
           \/ calls[r][i].status = "sent"
           \/ calls[r][i].status = "used" /\ c.tokens = calls[r][i].tokens,
           UNCHANGED ledger, UNCHANGED chatButCalls
    PROVE  TurnInv'
<1>1. /\ Shape /\ TurnShape /\ TurnFits(r) /\ calls[r] \in Seq(CallType)
      /\ at \in [Requests -> Places] /\ DOMAIN calls = Requests
    BY DEF ControlInv, Shape, TurnInv, ScheduleInv
<1> DEFINE s == calls[r]
           t == [s EXCEPT ![i] = c]
           old == s[i]
<1>2. /\ UNCHANGED <<at, mark, tally, hold, faults, sched, job>>
      /\ calls'[r] = t /\ \A q \in Requests : q # r => calls'[q] = calls[q]
    BY <1>1 DEF chatButCalls, recovery, ledger, vars
<1>3. /\ t \in Seq(CallType) /\ Len(t) = Len(s) /\ DOMAIN t = DOMAIN s
      /\ \A k \in DOMAIN t : t[k] = IF k = i THEN c ELSE s[k]
      /\ Total(t) = Total(s) - old.tokens + c.tokens
    BY <1>1, TotalOfOther
<1>4. /\ old.status \in {"sent", "used"} /\ c.tokens \in Nat /\ old.tokens \in Nat
      /\ Total(s) \in Nat /\ i \in DOMAIN s
      /\ c.tokens # old.tokens => old.status = "sent"
      /\ Len(s) \in Nat \ {0} /\ DOMAIN s = 1 .. Len(s)
    BY <1>1, CallTokens, TotalNat
<1>5. old.status = "sent" => old.tokens = 0 /\ at[r] \notin Between \cup {"prepared"}
                          /\ (at[r] = "calling" => i = Len(s))
    <2>1. CallsFit(r) /\ (i < Len(s) \/ i = Len(s))
        BY <1>1, <1>4 DEF TurnFits
    <2> HIDE DEF t
    <2> QED
        BY <1>4, <2>1 DEF CallsFit, HaveRun, Ran, Last
<1> HIDE DEF t, old, s
<1>6. Last(t) = (IF i = Len(s) THEN c ELSE Last(s)) /\ Last(s) = s[Len(s)] /\ t # <<>> /\ s # <<>>
    BY <1>3, <1>4 DEF Last
<1>7. TurnShape'
    BY <1>1, <1>2 DEF TurnShape
<1>8. OthersStay(r)
    BY <1>2 DEF OthersStay
<1>9. Last(s).status = "intent" <=> Last(t).status = "intent"
    BY <1>4, <1>6 DEF Ran, old
<1>10. CallsFit(r)'
    <2>1. /\ \A k \in DOMAIN s : s[k].status \in {"intent", "sent"} => s[k].tokens = 0
          /\ at[r] \in Between => HaveRun(s)
          /\ at[r] \in {"prepared", "calling"} =>
                 /\ \A k \in DOMAIN s : k < Len(s) => s[k].status \in Ran
                 /\ at[r] = "prepared" <=> Last(s).status = "intent"
        BY <1>1 DEF TurnFits, CallsFit, s
    <2>2. \A k \in DOMAIN t : t[k].status \in {"intent", "sent"} => t[k].tokens = 0
        BY <1>3, <2>1 DEF Ran
    <2>3. at[r] \in Between => HaveRun(t)
        BY <1>3, <2>1 DEF HaveRun
    <2>4. at[r] \in {"prepared", "calling"} =>
              \A k \in DOMAIN t : k < Len(t) => t[k].status \in Ran
        BY <1>3, <2>1
    <2> QED
        BY <1>2, <1>6, <1>9, <2>1, <2>2, <2>3, <2>4 DEF CallsFit
<1>11. TallyFits(r)'
    <2>1. TallyFits(r)
        BY <1>1 DEF TurnFits
    <2>2. Keyed(r) => Keyed(r)'
        BY <1>2, <1>3, <1>9 DEF Keyed, s
    <2>3. at[r] \in Timed /\ "noUsage" \notin faults =>
              tally[r].seen + Unseen(r)' = Total(t)
        <3> SUFFICES ASSUME at[r] \in Timed, "noUsage" \notin faults
                     PROVE  tally[r].seen + Unseen(r)' = Total(t)
            OBVIOUS
        <3>1. tally[r].seen + Unseen(r) = Total(s) /\ tally[r].seen \in Int
            BY <1>1, <2>1 DEF TallyFits, TurnShape, s
        <3>2. Unseen(r) = (IF at[r] = "calling" THEN Last(s).tokens ELSE 0)
            BY DEF Unseen, s
        <3>3. Unseen(r)' = IF at[r] = "calling" THEN Last(t).tokens ELSE 0
            BY <1>2 DEF Unseen
        <3>4. CASE c.tokens = old.tokens
            <4>1. Last(t).tokens = Last(s).tokens /\ Total(t) = Total(s)
                BY <1>3, <1>4, <1>6, <3>4 DEF old
            <4> QED
                BY <3>1, <3>2, <3>3, <4>1
        <3>5. CASE c.tokens # old.tokens
            <4>1. at[r] = "calling" /\ i = Len(s) /\ old.tokens = 0
                BY <1>4, <1>5, <3>5 DEF Timed, Between, ScheduleInv, s
            <4>2. Last(t) = c /\ Last(s) = old
                BY <1>6, <4>1 DEF old
            <4> QED
                BY <1>3, <1>4, <3>1, <3>2, <3>3, <4>1, <4>2
        <3> QED
            BY <3>4, <3>5
    <2> QED
        BY <1>2, <2>1, <2>2, <2>3 DEF TallyFits
<1>12. DueFits(r)'
    BY <1>1, <1>2 DEF TurnFits, DueFits, TimedOut, Aborted, Over
<1>13. ClosedFits(r)'
    <2>1. ClosedFits(r) /\ (Over(r) <=> Over(r)')
        BY <1>1, <1>2 DEF TurnFits, Over, Aborted
    <2>2. hold[r].state # "refunded"
        <3>1. UsedNothing(s) => FALSE
            BY <1>4 DEF UsedNothing, old
        <3> QED
            BY <2>1, <3>1 DEF ClosedFits, s
    <2>3. hold[r].state = "settled" => old.status # "sent"
        BY <1>4, <2>1 DEF ClosedFits, s, old
    <2>4. hold[r].state = "settled" => Total(t) = Total(s)
        BY <1>3, <1>4, <2>3
    <2>5. hold[r].state = "settled" => \A k \in DOMAIN t : t[k].status # "sent"
        BY <1>3, <2>1 DEF ClosedFits, Ran, s
    <2> QED
        BY <1>2, <2>1, <2>2, <2>4, <2>5 DEF ClosedFits, s
<1>14. TurnFits(r)'
    BY <1>10, <1>11, <1>12, <1>13 DEF TurnFits
<1>15. StaysOver(r)
    <2>1. ~AllSettled(s)
        BY <1>4 DEF AllSettled, old
    <2> QED
        BY <1>2, <2>1 DEF StaysOver, Over, Aborted, s
<1> QED
    BY <1>2, <1>7, <1>8, <1>14, <1>15, OneTurn

LEMMA OxyTurn ==
    ASSUME ControlInv, ScheduleInv, TurnInv, NEW r \in Requests, NEW i \in DOMAIN calls[r],
           ProviderEnds(r, i) \/ OxySettles(r, i)
    PROVE  TurnInv'
<1>1. /\ calls \in [Requests -> Seq(CallType)] /\ calls[r] \in Seq(CallType)
      /\ calls[r][i] \in CallType
    BY DEF ScheduleInv
<1>2. UNCHANGED ledger /\ UNCHANGED chatButCalls
    BY DEF ProviderEnds, OxySettles
<1>3. CASE ProviderEnds(r, i)
    <2>1. PICK n \in Tokens : calls' = [calls EXCEPT ![r][i] = [status |-> "used", tokens |-> n]]
        BY <1>3 DEF ProviderEnds
    <2> DEFINE c == [status |-> "used", tokens |-> n]
    <2>2. c \in CallType /\ c.status \in Ran
        BY <2>1 DEF CallType, Ran
    <2>3. calls' = [calls EXCEPT ![r] = [@ EXCEPT ![i] = c]] /\ calls[r][i].status = "sent"
        BY <1>3, <2>1 DEF ProviderEnds
    <2> HIDE DEF c
    <2> QED
        BY <1>2, <2>2, <2>3, RunTurn
<1>4. CASE OxySettles(r, i)
    <2>1. PICK k \in {"settled", "estimated"} : calls' = [calls EXCEPT ![r][i].status = k]
        BY <1>4 DEF OxySettles
    <2> DEFINE c == [calls[r][i] EXCEPT !.status = k]
    <2>2. c \in CallType /\ c.status \in Ran /\ c.tokens = calls[r][i].tokens
        BY <1>1, <2>1 DEF CallType, Ran
    <2>3. calls' = [calls EXCEPT ![r] = [@ EXCEPT ![i] = c]] /\ calls[r][i].status = "used"
        BY <1>4, <2>1 DEF OxySettles
    <2> HIDE DEF c
    <2> QED
        BY <1>2, <2>2, <2>3, RunTurn
<1> QED
    BY <1>3, <1>4

-----------------------------------------------------------------------------
(* The schedule and the reconcilers.                                       *)

LEMMA DueTurn ==
    ASSUME ControlInv, ScheduleInv, TurnInv, NEW r \in Requests,
           FallsDue(r) \/ \E w \in Workers : SweepTerminal(w, r)
    PROVE  TurnInv'
<1>1. /\ TurnFits(r) /\ TurnShape /\ DOMAIN sched = Requests
      /\ UNCHANGED ledger /\ UNCHANGED <<faults, at, mark, tally, calls, job>> /\ UNCHANGED hold
    BY DEF TurnInv, ScheduleInv, FallsDue, SweepTerminal, chatButRecovery, ledger, vars
<1>2. \A q \in Requests : q # r => sched'[q] = sched[q]
    BY <1>1 DEF FallsDue, SweepTerminal, RetireTerminal
<1>3. sched'[r] = "none" \/ (sched'[r] = "due" /\ Over(r))
    <2>1. CASE FallsDue(r)
        BY <1>1, <2>1 DEF FallsDue, TurnFits, DueFits, Over
    <2>2. CASE \E w \in Workers : SweepTerminal(w, r)
        BY <1>1, <2>2 DEF SweepTerminal, RetireTerminal
    <2> QED
        BY <2>1, <2>2
<1>4. Over(r) => Over(r)'
    BY <1>1 DEF Over, Aborted
<1>5. CallsFit(r)' /\ TallyFits(r)' /\ ClosedFits(r)'
    BY <1>1, <1>4 DEF TurnFits, CallsFit, TallyFits, ClosedFits, HaveRun, Keyed, Unseen
<1>6. DueFits(r)'
    BY <1>1, <1>3, <1>4 DEF TurnFits, DueFits, TimedOut, Aborted, Over
<1>7. TurnShape' /\ OthersStay(r) /\ TurnFits(r)' /\ StaysOver(r)
    BY <1>1, <1>2, <1>4, <1>5, <1>6 DEF TurnShape, OthersStay, TurnFits, StaysOver
<1> QED
    BY <1>1, <1>7, OneTurn

\* A step of one reconciler, which touches one hold and its schedule.
LEMMA OneJob ==
    ASSUME ControlInv, TurnInv, NEW w \in Workers, NEW r \in Requests,
           UNCHANGED <<faults, at, mark, tally, calls>>,
           \A q \in Requests : q # r => sched'[q] = sched[q],
           HoldStays(r), DOMAIN hold'[r] = HoldNames,
           sched'[r] \in {sched[r], "none"} \/ Over(r),
           UNCHANGED hold \/ ClosedFits(r)',
           \A v \in Workers : v # w => job'[v] = job[v],
           JobFits(w)'
    PROVE  TurnInv'
<1>1. Shape /\ TurnShape
    BY DEF ControlInv, TurnInv
<1>2. TurnShape'
    BY <1>1 DEF TurnShape, HoldStays, Shape
<1>3. ASSUME NEW q \in Requests PROVE Over(q)' <=> Over(q)
    BY DEF Over, Aborted
<1>4. ASSUME NEW q \in Requests PROVE TurnFits(q)'
    <2>1. TurnFits(q)
        BY DEF TurnInv
    <2>2. CallsFit(q)' /\ TallyFits(q)'
        BY <2>1 DEF TurnFits, CallsFit, TallyFits, HaveRun, Keyed, Unseen
    <2>3. DueFits(q)'
        <3>1. CASE q # r
            BY <1>3, <2>1, <3>1 DEF TurnFits, DueFits, TimedOut, Aborted
        <3>2. CASE q = r
            BY <1>3, <2>1, <3>2 DEF TurnFits, DueFits, TimedOut, Aborted, Over
        <3> QED
            BY <3>1, <3>2
    <2>4. ClosedFits(q)'
        <3>1. CASE q = r /\ ClosedFits(r)'
            BY <3>1
        <3>2. CASE hold'[q] = hold[q]
            BY <1>3, <2>1, <3>2 DEF TurnFits, ClosedFits
        <3>3. q # r => hold'[q] = hold[q]
            BY RequestsAreHolds DEF HoldStays
        <3> QED
            BY <3>1, <3>2, <3>3
    <2> QED
        BY <2>2, <2>3, <2>4 DEF TurnFits
<1>5. ASSUME NEW v \in Workers, v # w PROVE JobFits(v)'
    <2> SUFFICES ASSUME job[v] # NoJob PROVE JobFits(v)'
        BY <1>5 DEF JobFits
    <2>1. PICK o \in Requests : o = job[v].of
        BY <1>1 DEF Shape
    <2>2. /\ Over(o)
          /\ job[v].phase = "paying" => AllSettled(calls[o]) /\ job[v].total = Total(calls[o])
        BY <2>1 DEF TurnInv, JobFits
    <2>3. Over(o)' /\ calls'[o] = calls[o] /\ job'[v] = job[v]
        BY <1>3, <1>5, <2>2
    <2> QED
        BY <2>1, <2>2, <2>3 DEF JobFits
<1> QED
    BY <1>2, <1>4, <1>5 DEF TurnInv

LEMMA ListTurn ==
    ASSUME ControlInv, ScheduleInv, TurnInv, NEW w \in Workers, NEW r \in Requests, List(w, r)
    PROVE  TurnInv'
<1>1. Shape /\ TurnShape /\ TurnFits(r)
    BY DEF ControlInv, TurnInv
<1>2. /\ UNCHANGED <<faults, at, mark, tally, calls, sched>> /\ UNCHANGED ledger
      /\ sched[r] = "due"
      /\ job' = [job EXCEPT ![w] = [of |-> r, tries |-> tries[r], phase |-> "listed", total |-> 0]]
    BY DEF List, chatButRecovery
<1>3. HoldStays(r) /\ DOMAIN hold'[r] = HoldNames /\ UNCHANGED hold
    BY <1>1, <1>2, HoldsStand
<1>4. Over(r)'
    BY <1>1, <1>2 DEF TurnFits, DueFits, Over, Aborted
<1>5. JobFits(w)' /\ \A v \in Workers : v # w => job'[v] = job[v]
    BY <1>1, <1>2, <1>4 DEF JobFits, Shape
<1> QED
    BY <1>2, <1>3, <1>5, OneJob

LEMMA AskTurn ==
    ASSUME ControlInv, ScheduleInv, TurnInv, NEW w \in Workers, Ask(w)
    PROVE  TurnInv'
<1>1. Shape /\ TurnShape /\ job[w] # NoJob /\ JobFits(w)
    BY DEF ControlInv, TurnInv, Ask
<1>2. DOMAIN job[w] = JobFields /\ DOMAIN job = Workers
    BY <1>1 DEF Shape
<1>3. PICK r \in Requests : r = job[w].of
    BY <1>1 DEF Shape
<1>4. UNCHANGED <<faults, at, mark, tally, calls, sched>> /\ UNCHANGED ledger
    BY DEF Ask, chatButRecovery
<1>5. \/ AllSettled(calls[r])
         /\ job' = [job EXCEPT ![w].phase = "paying", ![w].total = Total(calls[r])]
      \/ job' = [job EXCEPT ![w].phase = "failing"]
    BY <1>3 DEF Ask, AllSettled
<1>6. HoldStays(r) /\ DOMAIN hold'[r] = HoldNames /\ UNCHANGED hold
    BY <1>1, <1>4, HoldsStand
<1>7. Over(r)'
    BY <1>1, <1>3, <1>4 DEF JobFits, Over, Aborted
<1>8. JobFits(w)' /\ \A v \in Workers : v # w => job'[v] = job[v]
    <2>1. CASE AllSettled(calls[r])
               /\ job' = [job EXCEPT ![w].phase = "paying", ![w].total = Total(calls[r])]
        <3>1. /\ job'[w].of = r /\ job'[w].total = Total(calls[r])
              /\ \A v \in Workers : v # w => job'[v] = job[v]
            BY <1>2, <1>3, <2>1, Zenon DEF JobFields
        <3>2. calls'[r] = calls[r]
            BY <1>4
        <3> QED
            BY <1>7, <2>1, <3>1, <3>2 DEF JobFits
    <2>2. CASE job' = [job EXCEPT ![w].phase = "failing"]
        <3>1. /\ job'[w].of = r /\ job'[w].phase = "failing"
              /\ \A v \in Workers : v # w => job'[v] = job[v]
            BY <1>2, <1>3, <2>2, Zenon DEF JobFields
        <3> QED
            BY <1>7, <3>1 DEF JobFits
    <2> QED
        BY <1>5, <2>1, <2>2
<1> QED
    BY <1>4, <1>6, <1>8, OneJob

\* What a reconciler pays was read when the request was over, so it still is
\* what all the calls used.
LEMMA PayTurn ==
    ASSUME ControlInv, ScheduleInv, TurnInv, NEW w \in Workers, Pay(w)
    PROVE  TurnInv'
<1>1. Shape /\ TurnShape /\ job[w] # NoJob /\ JobFits(w) /\ job[w].phase = "paying"
    BY DEF ControlInv, TurnInv, Pay
<1>2. DOMAIN job[w] = JobFields /\ DOMAIN job = Workers
    BY <1>1 DEF Shape
<1>3. PICK r \in Requests : r = job[w].of
    BY <1>1 DEF Shape
<1>4. PICK n : n = job[w].total
    OBVIOUS
<1>5. UNCHANGED <<faults, at, mark, tally, calls, sched>>
    BY DEF Pay, chatButRecovery
<1>6. /\ Over(r) /\ AllSettled(calls[r]) /\ n = Total(calls[r])
      /\ calls[r] \in Seq(CallType)
    BY <1>1, <1>3, <1>4 DEF JobFits, ScheduleInv
<1>7. Over(r)'
    BY <1>5, <1>6 DEF Over, Aborted
<1>8. (n = 0 /\ GiveBack(r)) \/ (n # 0 /\ Finalize(r, n)) \/ UNCHANGED ledger
    BY <1>3, <1>4 DEF Pay, FinalizeThrows
<1>9. \E p \in {"retiring", "failing"} :
          job' = [job EXCEPT ![w].phase = p, ![w].total = 0]
    BY DEF Pay
<1>10. JobFits(w)' /\ \A v \in Workers : v # w => job'[v] = job[v]
    <2>1. PICK p \in {"retiring", "failing"} : job' = [job EXCEPT ![w].phase = p, ![w].total = 0]
        BY <1>9
    <2>2. /\ job'[w].of = r /\ job'[w].phase = p
          /\ \A v \in Workers : v # w => job'[v] = job[v]
        BY <1>2, <1>3, <2>1, Zenon DEF JobFields
    <2> QED
        BY <1>7, <2>1, <2>2 DEF JobFits
<1>11. /\ HoldStays(r) /\ DOMAIN hold'[r] = HoldNames
       /\ \/ UNCHANGED hold
          \/ n = 0 /\ hold'[r].state = "refunded"
          \/ hold'[r].state = "settled" /\ hold'[r].usage = UsageOf(n)
    BY <1>1, <1>8, GivenBack, Finalized, HoldsStand, GiveBackTouchesOne, SettleTouchesOne,
       RequestsAreHolds
<1>12. n = 0 => UsedNothing(calls[r])
    BY <1>6, TotalOfNothing DEF UsedNothing, AllSettled
<1>13. UNCHANGED hold \/ ClosedFits(r)'
    <2>1. calls'[r] = calls[r] /\ \A i \in DOMAIN calls[r] : calls[r][i].status # "sent"
        BY <1>5, <1>6 DEF AllSettled
    <2> QED
        BY <1>6, <1>7, <1>11, <1>12, <2>1 DEF ClosedFits
<1> QED
    BY <1>5, <1>10, <1>11, <1>13, OneJob

LEMMA LeaveTurn ==
    ASSUME ControlInv, ScheduleInv, TurnInv, NEW w \in Workers,
           RetireJob(w) \/ Postpone(w) \/ WorkerDies(w)
    PROVE  TurnInv'
<1>1. Shape /\ TurnShape /\ job[w] # NoJob /\ JobFits(w) /\ DOMAIN sched = Requests
    BY DEF ControlInv, TurnInv, ScheduleInv, RetireJob, Postpone, WorkerDies
<1>2. PICK r \in Requests : r = job[w].of
    BY <1>1 DEF Shape
<1>3. /\ UNCHANGED <<faults, at, mark, tally, calls>> /\ UNCHANGED ledger
      /\ job' = [job EXCEPT ![w] = NoJob]
    BY DEF RetireJob, Postpone, WorkerDies, chatButRecovery
<1>4. HoldStays(r) /\ DOMAIN hold'[r] = HoldNames /\ UNCHANGED hold
    BY <1>1, <1>3, HoldsStand
<1>5. Over(r)
    BY <1>1, <1>2 DEF JobFits
<1>6. \A q \in Requests : q # r => sched'[q] = sched[q]
    BY <1>1, <1>2 DEF RetireJob, RetireTerminal, Postpone, WorkerDies
<1>7. JobFits(w)' /\ \A v \in Workers : v # w => job'[v] = job[v]
    BY <1>1, <1>3 DEF JobFits, Shape
<1> QED
    BY <1>3, <1>4, <1>5, <1>6, <1>7, OneJob

-----------------------------------------------------------------------------
(* The invariant.                                                          *)

LEMMA TurnInit == ChatInit => TurnInv
<1> SUFFICES ASSUME ChatInit PROVE TurnInv
    OBVIOUS
<1>1. TurnShape
    <2>1. DOMAIN NoHold = HoldNames
        BY DEF NoHold, Unsettled, HoldNames
    <2>2. mark = [q \in Requests |-> {}] /\ tally = [q \in Requests |-> NoTally]
          /\ hold = [h \in Holds |-> NoHold]
        BY DEF ChatInit, Init
    <2> QED
        BY <2>1, <2>2 DEF TurnShape, NoTally
<1>2. ASSUME NEW q \in Requests PROVE TurnFits(q)
    <2>1. /\ at[q] = "none" /\ mark[q] = {} /\ tally[q] = NoTally /\ calls[q] = <<>>
          /\ sched[q] = "none" /\ hold[q].state = "none"
        BY RequestsAreHolds DEF ChatInit, Init, NoHold, Unsettled
    <2>2. NoTally.keys = 0
        BY DEF NoTally
    <2> QED
        BY <2>1, <2>2 DEF TurnFits, CallsFit, TallyFits, DueFits, ClosedFits, Between, Keyed,
                          TimedOut, Timed
<1>3. \A w \in Workers : JobFits(w)
    BY DEF ChatInit, JobFits
<1> QED
    BY <1>1, <1>2, <1>3 DEF TurnInv

LEMMA QuietStateTurn ==
    ASSUME TurnInv, UNCHANGED <<faults, at, mark, tally, calls, sched, hold, job>>
    PROVE  TurnInv'
<1>1. ASSUME NEW q \in Requests PROVE TurnFits(q)'
    BY DEF TurnInv, TurnFits, CallsFit, TallyFits, DueFits, ClosedFits, HaveRun, Keyed, Unseen,
           Over, Aborted, TimedOut
<1>2. ASSUME NEW w \in Workers PROVE JobFits(w)'
    BY DEF TurnInv, JobFits, Over, Aborted
<1> QED
    BY <1>1, <1>2 DEF TurnInv, TurnShape

LEMMA TurnStep == ControlInv /\ ScheduleInv /\ TurnInv /\ [ChatNext]_allVars => TurnInv'
<1> SUFFICES ASSUME ControlInv, ScheduleInv, TurnInv, [ChatNext]_allVars PROVE TurnInv'
    OBVIOUS
<1>1. ASSUME NEW r \in Requests,
             \/ Proceed(r) \/ ClaimUnanswered(r) \/ Refuse(r) \/ CallFails(r) \/ Crash(r)
             \/ Observe(r) \/ Timeout(r)
      PROVE  TurnInv'
    <2>1. CASE \/ Refuse(r) \/ Throw(r) \/ CallFails(r) \/ LetGo(r) \/ ToCharge(r)
               \/ BeginFinish(r) \/ FinishRow(r) \/ Save(r) \/ Observe(r) \/ Timeout(r)
        BY <2>1, QuietTurn
    <2>2. CASE Claim(r) \/ ClaimUnanswered(r) \/ Admit(r) \/ Prepare(r) \/ NotSent(r) \/ Send(r)
               \/ CallReturns(r)
        BY <2>2, ClaimTurn, AdmitTurn, PrepareTurn, NotSentTurn, SendTurn, ReturnTurn
    <2>3. CASE Charge(r) \/ ReleaseHold(r) \/ HandOver(r) \/ Close(r) \/ Retire(r) \/ Crash(r)
        BY <2>3, ChargeTurn, ReleaseTurn, EndTurn
    <2> QED
        BY <1>1, <2>1, <2>2, <2>3 DEF Proceed
<1>2. ASSUME NEW r \in Requests, NEW i \in DOMAIN calls[r], ProviderEnds(r, i) \/ OxySettles(r, i)
      PROVE  TurnInv'
    BY <1>2, OxyTurn
<1>3. ASSUME NEW r \in Requests, FallsDue(r) \/ \E w \in Workers : SweepTerminal(w, r)
      PROVE  TurnInv'
    BY <1>3, DueTurn
<1>4. ASSUME NEW w \in Workers,
             \/ Ask(w) \/ Pay(w) \/ RetireJob(w) \/ Postpone(w) \/ WorkerDies(w)
             \/ \E r \in Requests : List(w, r)
      PROVE  TurnInv'
    BY <1>4, AskTurn, PayTurn, LeaveTurn, ListTurn
<1>5. CASE UNCHANGED allVars \/ \E t \in Turns : Stop(t) \/ Deadline(t)
    BY <1>5, QuietStateTurn DEF Stop, Deadline, recovery, ledger, allVars, vars, chatVars
<1>6. CASE ChatNext
    <2>1. \/ \E r \in Requests :
               \/ Proceed(r) \/ ClaimUnanswered(r) \/ Refuse(r) \/ CallFails(r) \/ Crash(r)
               \/ Observe(r) \/ Timeout(r)
          \/ \E r \in Requests : \E i \in DOMAIN calls[r] : ProviderEnds(r, i) \/ OxySettles(r, i)
          \/ \E r \in Requests : FallsDue(r) \/ \E w \in Workers : SweepTerminal(w, r)
          \/ \E t \in Turns : Stop(t) \/ Deadline(t)
          \/ \E w \in Workers :
               \/ Ask(w) \/ Pay(w) \/ RetireJob(w) \/ Postpone(w) \/ WorkerDies(w)
               \/ \E r \in Requests : List(w, r)
        BY <1>6 DEF ChatNext, Reconcile
    <2> QED
        BY <2>1, <1>1, <1>2, <1>3, <1>4, <1>5
<1> QED
    BY <1>5, <1>6

LEMMA Turn == ChatSpec => []TurnInv
<1>1. ControlInv /\ ScheduleInv /\ TurnInv /\ [ChatNext]_allVars => TurnInv'
    BY TurnStep
<1> QED
    BY <1>1, Control, Schedule, TurnInit, PTL DEF ChatSpec

-----------------------------------------------------------------------------
(* The theorems.                                                           *)

\* For any number of turns and requests, whatever fails: a Stop that was
\* answered "cancelled" and a stored answer of the same turn exclude each other.
\* The row's two transitions out of "running" do, and nothing writes the row
\* of a turn that left it by the Stop.
THEOREM StopIsFinal == ChatSpec => []StopMeansUnsaved
<1>1. ControlInv => StopMeansUnsaved
    BY DEF ControlInv, Shape, Commitment, Finishing, StopMeansUnsaved
<1> QED
    BY <1>1, Control, PTL

\* A turn resent while it runs, after it ended or after its process died holds
\* credits once: who holds credits owns the row, and it has one owner.
THEOREM OneRequestRuns == ChatSpec => []OneRunPerTurn
<1>1. ControlInv => OneRunPerTurn
    BY RequestsAreHolds DEF ControlInv, Shape, Ownership, OneRunPerTurn
<1> QED
    BY <1>1, Control, PTL

\* A hold a reconciler could settle is never forgotten, whatever two reconcilers,
\* a dying one and the request itself do to its schedule in whatever order:
\* only a closed hold's schedule is dropped, and giving up is counted first.
THEOREM HoldsAreScheduled == ChatSpec => []OpenHoldIsScheduled
<1>1. ScheduleInv => OpenHoldIsScheduled
    BY DEF ScheduleInv
<1> QED
    BY <1>1, Schedule, PTL

\* Whatever fails and whoever gives a hold back, a reconciler that lost its
\* lease included: no call made on it used anything, and none is on its way.
\* A request releases its own hold only when it knows of no intent, and the one
\* it may not know of was never sent; a reconciler refunds only what it read
\* when the request was over and every record settled.
THEOREM UsedIsKept == ChatSpec => []UsedIsNotRefunded
<1>1. TurnInv => UsedIsNotRefunded
    BY DEF TurnInv, TurnFits, ClosedFits, UsedNothing, UsedIsNotRefunded
<1> QED
    BY <1>1, Turn, PTL

\* Whoever settles a hold, the request that saw its answers or a reconciler that
\* read the records: the usage is the sum over all the hold's calls, and stays
\* it, as no call is added to or still run on a settled hold.
THEOREM EveryCallIsCharged == ChatSpec => []ChargedForEveryCall
<1>1. TurnInv => ChargedForEveryCall
    BY DEF TurnInv, TurnFits, ClosedFits, ChargedForEveryCall
<1> QED
    BY <1>1, Turn, PTL

-----------------------------------------------------------------------------
(* A chat turn uses the ledger as CreditLedger says.                       *)

\* Whatever a call used is a usage the ledger may be asked to settle.
EveryUsage == \A n \in Nat : UsageOf(n) \in Usages

SeenCounted == tally \in [Requests -> [keys : Int, seen : Nat]]

LEMMA CountsUp ==
    ASSUME SeenCounted, NEW r \in Requests, NEW n \in Nat,
           \/ tally' = [tally EXCEPT ![r].keys = @ + 1]
           \/ tally' = [tally EXCEPT ![r].keys = @ - 1]
           \/ tally' = [tally EXCEPT ![r].seen = @ + n]
           \/ tally' = [tally EXCEPT ![r] = NoTally]
           \/ UNCHANGED tally
    PROVE  SeenCounted'
<1> DEFINE Tallies == [keys : Int, seen : Nat]
<1>1. tally \in [Requests -> Tallies] /\ tally[r] \in Tallies
    BY DEF SeenCounted
<1>2. /\ \A k \in Int : [tally[r] EXCEPT !.keys = k] \in Tallies
      /\ \A k \in Nat : [tally[r] EXCEPT !.seen = k] \in Tallies
      /\ NoTally \in Tallies
    BY <1>1 DEF NoTally
<1>3. PICK c \in Tallies : tally' = [tally EXCEPT ![r] = c] \/ UNCHANGED tally
    <2>1. tally[r].keys + 1 \in Int /\ tally[r].keys - 1 \in Int /\ tally[r].seen + n \in Nat
        BY <1>1
    <2> HIDE DEF Tallies
    <2> QED
        BY <1>2, <2>1
<1>4. tally' \in [Requests -> Tallies]
    <2> HIDE DEF Tallies
    <2> QED
        BY <1>1, <1>3
<1> QED
    BY <1>4 DEF SeenCounted

LEMMA SeenAtFirst == ChatInit => SeenCounted
BY DEF ChatInit, SeenCounted, NoTally

\* A request counts what its calls used, and nothing below zero.
LEMMA RequestCounts ==
    ASSUME ScheduleInv, TurnInv, SeenCounted, NEW r \in Requests,
           Proceed(r) \/ ClaimUnanswered(r) \/ Refuse(r) \/ CallFails(r) \/ Crash(r)
    PROVE  SeenCounted'
<1>1. CASE CallReturns(r)
    <2>1. calls[r] \in Seq(CallType) /\ calls[r] # <<>>
        BY <1>1 DEF ScheduleInv, TurnInv, TurnFits, CallsFit, CallReturns
    <2>2. Last(calls[r]) \in CallType
        BY <2>1 DEF Last
    <2>3. Last(calls[r]).tokens \in Nat
        BY <2>2, CallTokens
    <2>4. PICK n \in {Last(calls[r]).tokens, 0} : tally' = [tally EXCEPT ![r].seen = @ + n]
        BY <1>1 DEF CallReturns
    <2> QED
        BY <2>3, <2>4, CountsUp
<1>2. CASE Prepare(r) \/ NotSent(r)
    BY <1>2, CountsUp DEF Prepare, NotSent
<1>3. CASE HandOver(r) \/ Close(r) \/ Retire(r) \/ Crash(r)
    BY <1>3, CountsUp DEF HandOver, Close, Retire, Crash, Ends
<1>4. CASE \/ Claim(r) \/ ClaimUnanswered(r) \/ Admit(r) \/ Refuse(r) \/ Throw(r) \/ CallFails(r)
           \/ Send(r) \/ LetGo(r) \/ BeginFinish(r) \/ Save(r) \/ ToCharge(r) \/ Charge(r)
           \/ FinishRow(r) \/ ReleaseHold(r)
    BY <1>4
       DEF Claim, ClaimUnanswered, Admit, Refuse, Throw, CallFails, Send, LetGo, BeginFinish,
           Save, ToCharge, Charge, FinishRow, ReleaseHold, chatButReq, SeenCounted
<1> QED
    BY <1>1, <1>2, <1>3, <1>4 DEF Proceed

\* Nobody else touches the count.
LEMMA OthersCount ==
    ASSUME SeenCounted,
           \/ UNCHANGED allVars
           \/ \E r \in Requests :
                 \/ Observe(r) \/ Timeout(r) \/ FallsDue(r)
                 \/ \E i \in DOMAIN calls[r] : ProviderEnds(r, i) \/ OxySettles(r, i)
           \/ \E t \in Turns : Stop(t) \/ Deadline(t)
           \/ \E w \in Workers :
                 \/ Ask(w) \/ Pay(w) \/ RetireJob(w) \/ Postpone(w) \/ WorkerDies(w)
                 \/ \E r \in Requests : SweepTerminal(w, r) \/ List(w, r)
    PROVE  SeenCounted'
<1>1. UNCHANGED tally
    BY DEF allVars, chatVars, Observe, Timeout, FallsDue, ProviderEnds, OxySettles, Stop,
           Deadline, Ask, Pay, RetireJob, Postpone, WorkerDies, SweepTerminal, List,
           chatButCalls, chatButRecovery
<1> QED
    BY <1>1 DEF SeenCounted

LEMMA Seen == ChatSpec => []SeenCounted
<1>1. ScheduleInv /\ TurnInv /\ SeenCounted /\ [ChatNext]_allVars => SeenCounted'
    BY RequestCounts, OthersCount DEF ChatNext, Reconcile
<1> QED
    BY <1>1, SeenAtFirst, Schedule, Turn, PTL DEF ChatSpec

\* What a request or a reconciler does to the ledger is a step of its own.
LEMMA FinalizeIsStep ==
    ASSUME EveryUsage, NEW r \in Requests, NEW n \in Nat, Finalize(r, n)
    PROVE  Next
BY RequestsAreHolds DEF EveryUsage, Finalize, HoldStep, Next

LEMMA GiveBackIsStep ==
    ASSUME NEW r \in Requests, GiveBack(r)
    PROVE  [Next]_vars
BY RequestsAreHolds DEF GiveBack, HoldStep, Next, ledger

LEMMA RequestPays ==
    ASSUME EveryUsage, SeenCounted, NEW r \in Requests,
           Proceed(r) \/ ClaimUnanswered(r) \/ Refuse(r) \/ CallFails(r) \/ Crash(r)
    PROVE  [Next]_vars
<1>1. CASE Admit(r)
    BY <1>1, RequestsAreHolds DEF Admit, HoldStep, Next
<1>2. CASE Charge(r)
    <2>1. tally[r].seen \in Nat
        BY DEF SeenCounted
    <2>2. Finalize(r, tally[r].seen) \/ UNCHANGED ledger
        BY <1>2 DEF Charge, FinalizeThrows
    <2> QED
        BY <2>1, <2>2, FinalizeIsStep DEF ledger
<1>3. CASE ReleaseHold(r)
    <2>1. GiveBack(r) \/ UNCHANGED ledger
        BY <1>3 DEF ReleaseHold
    <2> QED
        BY <2>1, GiveBackIsStep DEF ledger
<1>4. CASE \/ Claim(r) \/ ClaimUnanswered(r) \/ Refuse(r) \/ Throw(r) \/ CallFails(r) \/ Prepare(r)
           \/ NotSent(r) \/ Send(r) \/ CallReturns(r) \/ LetGo(r) \/ BeginFinish(r) \/ Save(r)
           \/ ToCharge(r) \/ FinishRow(r) \/ HandOver(r) \/ Close(r) \/ Retire(r) \/ Crash(r)
    <2>1. UNCHANGED ledger
        BY <1>4
           DEF Claim, ClaimUnanswered, Refuse, Throw, CallFails, Prepare, NotSent, Send,
               CallReturns, LetGo, BeginFinish, Save, ToCharge, FinishRow, HandOver, Close,
               Retire, Crash
    <2> QED
        BY <2>1 DEF ledger
<1> QED
    BY <1>1, <1>2, <1>3, <1>4 DEF Proceed

LEMMA OthersPay ==
    ASSUME EveryUsage, ControlInv, ScheduleInv, TurnInv,
           \/ UNCHANGED allVars
           \/ \E r \in Requests :
                 \/ Observe(r) \/ Timeout(r) \/ FallsDue(r)
                 \/ \E i \in DOMAIN calls[r] : ProviderEnds(r, i) \/ OxySettles(r, i)
           \/ \E t \in Turns : Stop(t) \/ Deadline(t)
           \/ \E w \in Workers :
                 \/ Ask(w) \/ Pay(w) \/ RetireJob(w) \/ Postpone(w) \/ WorkerDies(w)
                 \/ \E r \in Requests : SweepTerminal(w, r) \/ List(w, r)
    PROVE  [Next]_vars
<1>1. ASSUME NEW w \in Workers, Pay(w) PROVE [Next]_vars
    <2> DEFINE r == job[w].of
               n == job[w].total
    <2>1. job[w] # NoJob /\ job[w].phase = "paying" /\ r \in Requests
        BY <1>1 DEF Pay, ControlInv, Shape
    <2>2. n \in Nat
        <3>1. n = Total(calls[r]) /\ calls[r] \in Seq(CallType)
            BY <2>1 DEF TurnInv, JobFits, ScheduleInv
        <3> QED
            BY <3>1, TotalNat
    <2>3. GiveBack(r) \/ Finalize(r, n) \/ UNCHANGED ledger
        BY <1>1 DEF Pay, FinalizeThrows
    <2> QED
        BY <2>1, <2>2, <2>3, GiveBackIsStep, FinalizeIsStep DEF ledger
<1>2. CASE \/ UNCHANGED allVars
           \/ \E r \in Requests :
                 \/ Observe(r) \/ Timeout(r) \/ FallsDue(r)
                 \/ \E i \in DOMAIN calls[r] : ProviderEnds(r, i) \/ OxySettles(r, i)
           \/ \E t \in Turns : Stop(t) \/ Deadline(t)
           \/ \E w \in Workers :
                 \/ Ask(w) \/ RetireJob(w) \/ Postpone(w) \/ WorkerDies(w)
                 \/ \E r \in Requests : SweepTerminal(w, r) \/ List(w, r)
    <2>1. UNCHANGED ledger
        BY <1>2
           DEF allVars, ledger, Observe, Timeout, FallsDue, ProviderEnds, OxySettles, Stop,
               Deadline, Ask, RetireJob, Postpone, WorkerDies, SweepTerminal, List
    <2> QED
        BY <2>1 DEF ledger
<1> QED
    BY <1>1, <1>2

\* Requests, reconcilers and Oxy together do to the account only what the ledger
\* allows, so whatever is proved of the ledger holds of chat turns, as long as
\* the ledger can be asked to settle whatever a model call used.
THEOREM TurnsUseTheLedger == ASSUME EveryUsage PROVE ChatSpec => Spec
<1>1. ChatInit => Init
    BY DEF ChatInit
<1>2. ControlInv /\ ScheduleInv /\ TurnInv /\ SeenCounted /\ [ChatNext]_allVars => [Next]_vars
    BY RequestPays, OthersPay DEF ChatNext, Reconcile
<1> QED
    BY <1>1, <1>2, Control, Schedule, Turn, Seen, PTL DEF ChatSpec, Spec

\* For one: whoever settles or gives back a turn's hold, twice or late, its
\* callers are told one charge, what is closed stays closed, and the operation
\* rows account for every credit of the account.
THEOREM TurnsAreAccountedFor ==
    ASSUME EveryUsage, AllByTokens
    PROVE  ChatSpec => /\ [](NoOverdraft /\ RepliesAgree /\ TakesAtMostPrice)
                       /\ [](PurchasedNeverLost /\ RowsExplainBalance)
                       /\ TerminalForGood
<1>1. Spec => [](NoOverdraft /\ RepliesAgree /\ TakesAtMostPrice)
    BY NeverOverdrawn, RepliesAlwaysAgree, SettlementsTakeAtMostPrice, PTL
<1>2. Spec => [](PurchasedNeverLost /\ RowsExplainBalance)
    BY PurchasesAreKept, RowsExplainTheBalance, PTL
<1> QED
    BY <1>1, <1>2, TurnsUseTheLedger, TerminalHoldsStay, PTL
=============================================================================
