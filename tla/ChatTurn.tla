------------------------------- MODULE ChatTurn -------------------------------
(***************************************************************************)
(* A chat turn a client can stop: the row that says who may run and finish *)
(* it, the request that drives the model and holds credits, and the        *)
(* reconciliation that settles the hold when the request does not.         *)
(*                                                                         *)
(*   row          db/chat/turnControlRepository.ts   chat_turn_controls    *)
(*   observer     lib/chat/turn-control.ts                                 *)
(*   request      routes/v1/chat-completions.ts, lib/chat/provider-loop.ts *)
(*   intents      lib/inference/kaana-language-model.ts                    *)
(*   reconciler   lib/credit-reconciliation.ts                             *)
(*   credits      CreditLedger, one hold per request                       *)
(*                                                                         *)
(* Only requests that carry a turn id are here: they are the ones that     *)
(* write an intent before each model call.  The row's retention (a day)    *)
(* is longer than anything modelled, and nothing else uses the account     *)
(* meanwhile: that is CreditLedger's subject.  One action is one           *)
(* statement, one transaction or one call.                                 *)
(***************************************************************************)
EXTENDS CreditLedger, Sequences, SequencesExt

CONSTANTS
    Turns,         \* turn ids clients mint
    MaxRequests,   \* bound: requests that carry one, a resent turn's among them
    Workers,       \* processes reconciling: the leader, and one that was
    Tokens,        \* tokens one model call uses
    SystemTokens,  \* those of them that are Alia's own prompt
    MaxSteps,      \* bound: model calls of a turn, one per tool round
    MaxTries,      \* MAX_RECONCILIATION_ATTEMPTS
    FaultSets,     \* the combinations of rarer events explored, see FaultKinds
    NoJob

\* Numbered in the order they claim; each one's hold has its number.
Requests == 1 .. MaxRequests
NoOwner  == 0

\* crash       the request's process dies
\* twoLeaders  a process that lost the scheduler lease still reconciles
\* workerDies  a reconciling process dies, once
\* controlDown the control store does not answer in time
\* lostReply   an intent is committed and the answer lost
\* noReceipt   a call's usage stays unknown or estimated
\* noUsage     the model's answer carries no usage
\* ledgerDown  a settlement or refund throws
FaultKinds == {"crash", "twoLeaders", "workerDies", "controlDown", "lostReply",
               "noReceipt", "noUsage", "ledgerDown"}

ASSUME ChatTurnAssumption ==
    /\ MaxRequests \in Nat
    /\ Requests \subseteq Tracked /\ Requests \cap FixedPriced = {}
    /\ Tokens \subseteq Nat
    /\ SystemTokens \in Nat
    /\ MaxSteps \in Nat \ {0}
    /\ MaxTries \in Nat \ {0}
    /\ FaultSets \subseteq SUBSET FaultKinds

VARIABLES
    faults,     \* the rarer events of this behaviour
    turnOf,     \* the turn id each request carries
    row,        \* chat_turn_controls of each turn: [state, owner, late]
    stopped,    \* history: turns whose Stop was answered "cancelled"
    at,         \* where each request's handler is
    mark,       \* its flags, see Marks
    tally,      \* its state.inferenceAttemptKeys and tokenUsage: [keys, seen]
    calls,      \* credit_operation_attempts of each request, and their receipts
    saved,      \* history: requests whose answer was stored
    sched,      \* credit_reconciliations.next_attempt_at: none, later or due
    tries,      \* credit_reconciliations.attempts
    job,        \* what each reconciling process is working on
    died        \* a reconciling process has died

chatVars == <<faults, turnOf, row, stopped, at, mark, tally, calls, saved, sched, tries, job, died>>
allVars  == <<vars, chatVars>>
ledger   == vars
recovery == <<sched, tries, job, died>>

Live     == {"claimed", "ready", "prepared", "calling", "answered", "committing",
             "finishing", "saved", "charging", "closing", "releasing", "retiring"}
Timed    == {"claimed", "ready", "prepared", "calling", "answered", "committing",
             "finishing", "saved", "charging"}
Places   == Live \cup {"none", "refused", "done", "dead"}
RowStates == {"none", "running", "cancelled", "finishing", "completed", "failed"}

\* aborted    providerAbort.signal
\* timedOut   state.globalTimedOut: the client was answered
\* letGo      no entry of ChatTurnObserver.active any more
\* settled    state.creditsSettled
\* completed  the loop returned
Marks == {"aborted", "timedOut", "letGo", "settled", "completed"}

NoTally == [keys |-> 0, seen |-> 0]

UsageOf(n) == [total |-> n, system |-> SystemTokens]

Total(s) == FoldSeq(LAMBDA c, n : c.tokens + n, 0, s)

ChatInit ==
    /\ Init
    /\ faults \in FaultSets
    /\ turnOf \in [Requests -> Turns]
    /\ row = [t \in Turns |-> [state |-> "none", owner |-> NoOwner, late |-> FALSE]]
    /\ stopped = {}
    /\ at = [r \in Requests |-> "none"]
    /\ mark = [r \in Requests |-> {}]
    /\ tally = [r \in Requests |-> NoTally]
    /\ calls = [r \in Requests |-> <<>>]
    /\ saved = {}
    /\ sched = [r \in Requests |-> "none"]
    /\ tries = [r \in Requests |-> 0]
    /\ job = [w \in Workers |-> NoJob]
    /\ died = FALSE

-----------------------------------------------------------------------------
(* The row.                                                                *)

Row(r) == row[turnOf[r]]

SetRow(t, state) == row' = [row EXCEPT ![t].state = state]

Aborted(r)  == "aborted" \in mark[r]
TimedOut(r) == "timedOut" \in mark[r]

Notes(r, to, marks) ==
    /\ at' = [at EXCEPT ![r] = to]
    /\ mark' = [mark EXCEPT ![r] = @ \cup marks]

Goes(r, to) == Notes(r, to, {})

\* What the handler knew goes with it.
Ends(r, to) ==
    /\ at' = [at EXCEPT ![r] = to]
    /\ mark' = [mark EXCEPT ![r] = {}]
    /\ tally' = [tally EXCEPT ![r] = NoTally]

\* Slip: a turn that did not complete is run again.
ClaimFailed(r) ==
    /\ at[r] = "none" /\ \A q \in 1 .. r - 1 : at[q] # "none"
    /\ Row(r).state \in {"none", "failed"}
    /\ row' = [row EXCEPT ![turnOf[r]] = [state |-> "running", owner |-> r, late |-> FALSE]]
    /\ Goes(r, "claimed")
    /\ UNCHANGED <<ledger, faults, turnOf, stopped, tally, calls, saved, recovery>>

\* admitOrCancel with an owner: the first to insert the row runs the turn, and
\* is observed.  Any other request with that id is refused and changes nothing.
Claim(r) ==
    /\ at[r] = "none" /\ \A q \in 1 .. r - 1 : at[q] # "none"
    /\ Row(r).state = "none"
    /\ row' = [row EXCEPT ![turnOf[r]] = [state |-> "running", owner |-> r, late |-> FALSE]]
    /\ Goes(r, "claimed")
    /\ UNCHANGED <<ledger, faults, turnOf, stopped, tally, calls, saved, recovery>>

\* The insert commits, the claim is answered 503: the request gives up.
ClaimUnanswered(r) ==
    /\ "controlDown" \in faults
    /\ at[r] = "none" /\ \A q \in 1 .. r - 1 : at[q] # "none"
    /\ Row(r).state = "none"
    /\ row' = [row EXCEPT ![turnOf[r]] = [state |-> "running", owner |-> r, late |-> FALSE]]
    /\ Goes(r, "refused")
    /\ UNCHANGED <<ledger, faults, turnOf, stopped, tally, calls, saved, recovery>>

\* admitOrCancel without one: a Stop, also one that overtakes its turn.  The
\* answer is the row's state afterwards.
Stop(t) ==
    /\ row[t].state \in {"none", "running"}
    /\ SetRow(t, "cancelled")
    /\ stopped' = stopped \cup {t}
    /\ UNCHANGED <<ledger, faults, turnOf, at, mark, tally, calls, saved, recovery>>

\* The deadline of a running row: 80 s after the claim, so later than the
\* request's timer.
Deadline(t) ==
    /\ row[t].state = "running"
    /\ ~row[t].late
    /\ TimedOut(row[t].owner) \/ at[row[t].owner] \notin Timed
    /\ row' = [row EXCEPT ![t].late = TRUE]
    /\ UNCHANGED <<ledger, faults, turnOf, stopped, at, mark, tally, calls, saved, recovery>>

\* ChatTurnObserver.check: rows that are no longer this request's to run abort
\* it.  A row only ever leaves "running", so the read and its effect are one.
Observe(r) ==
    /\ at[r] \in Timed \cup {"closing"} /\ "letGo" \notin mark[r]
    /\ \/ Row(r).state # "running" \/ Row(r).owner # r \/ Row(r).late
       \/ "controlDown" \in faults
    /\ Notes(r, at[r], {"aborted", "letGo"})
    /\ UNCHANGED <<ledger, faults, turnOf, row, stopped, tally, calls, saved, recovery>>

\* globalTimer: the client is told that the request timed out.
Timeout(r) ==
    /\ at[r] \in Timed
    /\ ~TimedOut(r)
    /\ Notes(r, at[r], {"timedOut", "aborted"})
    /\ UNCHANGED <<ledger, faults, turnOf, row, stopped, tally, calls, saved, recovery>>

-----------------------------------------------------------------------------
(* The request, up to its answer.                                          *)

chatButHandler == <<faults, turnOf, row, stopped, calls, saved, recovery>>
chatButReq     == <<chatButHandler, tally>>

\* buildChatRequestContext reserves credits ...
Admit(r) ==
    /\ at[r] = "claimed"
    /\ ~Aborted(r)
    /\ \E n \in Amounts : Reserve(r, n)
    /\ Goes(r, "ready")
    /\ UNCHANGED chatButReq

\* ... or refuses the request: no credits, or something wrong with it.
Refuse(r) ==
    /\ at[r] = "claimed"
    /\ Goes(r, "closing")
    /\ UNCHANGED <<ledger, chatButReq>>

\* An aborted request throws wherever it looks: in admission, before a call,
\* while the model streams, before the answer is stored and before it is charged.
Throw(r) ==
    /\ at[r] \in {"claimed", "ready", "calling", "answered", "saved"}
    /\ Aborted(r)
    /\ Goes(r, "closing")
    /\ UNCHANGED <<ledger, chatButReq>>

\* The model call fails or breaks off; Oxy may still be running it.
CallFails(r) ==
    /\ at[r] = "calling"
    /\ Goes(r, "closing")
    /\ UNCHANGED <<ledger, chatButReq>>

Intent == [status |-> "intent", tokens |-> 0]

\* recordChatInferenceAttempt "prepared", under the operation row's lock: the
\* intent and, two minutes ahead, its reconciliation.
Prepare(r) ==
    /\ at[r] = "ready" /\ ~Aborted(r)
    /\ Len(calls[r]) < MaxSteps
    /\ hold[r].state = "open"
    /\ calls' = [calls EXCEPT ![r] = Append(@, Intent)]
    /\ sched' = [sched EXCEPT ![r] = "later"]
    /\ \/ Goes(r, "prepared") /\ tally' = [tally EXCEPT ![r].keys = @ + 1]
       \/ "lostReply" \in faults /\ Goes(r, "closing") /\ UNCHANGED tally
    /\ UNCHANGED <<ledger, faults, turnOf, row, stopped, saved, tries, job, died>>

\* prepareAttempt: aborted meanwhile, so the call is not made and its intent
\* is taken back; if that throws, the intent stays.
NotSent(r) ==
    /\ at[r] = "prepared" /\ Aborted(r)
    /\ \/ /\ hold[r].state = "open"
          /\ calls' = [calls EXCEPT ![r] = Front(@)]
          /\ tally' = [tally EXCEPT ![r].keys = @ - 1]
       \/ /\ hold[r].state # "open" \/ "ledgerDown" \in faults
          /\ UNCHANGED <<calls, tally>>
    /\ Goes(r, "closing")
    /\ UNCHANGED <<ledger, faults, turnOf, row, stopped, saved, recovery>>

Send(r) ==
    /\ at[r] = "prepared" /\ ~Aborted(r)
    /\ calls' = [calls EXCEPT ![r][Len(calls[r])].status = "sent"]
    /\ Goes(r, "calling")
    /\ UNCHANGED <<ledger, faults, turnOf, row, stopped, tally, saved, recovery>>

\* The model is done; whether it asked for a tool, so for another call, or
\* answered is its choice.
CallReturns(r) ==
    /\ at[r] = "calling" /\ ~Aborted(r)
    /\ LET call == Last(calls[r]) IN
       /\ call.status # "sent"
       /\ \E to \in {"ready", "answered"}, n \in {call.tokens, 0} :
             /\ n = call.tokens \/ "noUsage" \in faults
             /\ to = "ready" => Len(calls[r]) < MaxSteps
             /\ Goes(r, to)
             /\ tally' = [tally EXCEPT ![r].seen = @ + n]
    /\ UNCHANGED <<ledger, chatButHandler>>

-----------------------------------------------------------------------------
(* The request, from its answer on.                                        *)

\* assertLive and beginFinish: the observer is let go, from here only the row
\* says whether a Stop came first.
LetGo(r) ==
    /\ at[r] = "answered" /\ ~Aborted(r)
    /\ Notes(r, "committing", {"letGo"})
    /\ UNCHANGED <<ledger, chatButReq>>

\* Slip: only the owner is compared.
BeginFinishOwned(r) ==
    /\ at[r] = "committing"
    /\ \/ /\ Row(r).owner = r /\ ~Row(r).late
          /\ SetRow(turnOf[r], "finishing")
          /\ Goes(r, "finishing")
       \/ /\ Row(r).owner # r \/ Row(r).late \/ "controlDown" \in faults
          /\ Notes(r, "closing", {"aborted"})
          /\ UNCHANGED row
    /\ UNCHANGED <<ledger, faults, turnOf, stopped, tally, calls, saved, recovery>>

\* The compare-and-set a Stop competes with; when its answer is lost the request
\* gives up, whoever won.
BeginFinish(r) ==
    /\ at[r] = "committing"
    /\ LET mine == Row(r).owner = r /\ Row(r).state = "running" /\ ~Row(r).late IN
       \/ /\ mine
          /\ SetRow(turnOf[r], "finishing")
          /\ \/ Goes(r, "finishing")
             \/ "controlDown" \in faults /\ Notes(r, "closing", {"aborted"})
       \/ /\ ~mine \/ "controlDown" \in faults
          /\ Notes(r, "closing", {"aborted"})
          /\ UNCHANGED row
    /\ UNCHANGED <<ledger, faults, turnOf, stopped, tally, calls, saved, recovery>>

\* saveConversationResult, which nothing aborts.
Save(r) ==
    /\ at[r] = "finishing"
    /\ saved' = saved \cup {r}
    /\ Goes(r, "saved")
    /\ UNCHANGED <<ledger, faults, turnOf, row, stopped, tally, calls, recovery>>

\* assertLive, then the charge; an answer with nothing in it is not charged.
ToCharge(r) ==
    /\ at[r] = "saved" /\ ~Aborted(r)
    /\ \/ Goes(r, "charging")
       \/ Notes(r, "closing", {"completed"})
    /\ UNCHANGED <<ledger, chatButReq>>

\* finalizeCredits; a replay is answered from the operation row.
Finalize(r, n) == SettleTracked(r, UsageOf(n)) \/ ReplayTracked(r, UsageOf(n))

\* It throws: the hold is not what was reserved any more, or the database is
\* not there.
FinalizeThrows(r, n) ==
    /\ \/ "ledgerDown" \in faults
       \/ hold[r].state = "refunded"
       \/ hold[r].state = "settled" /\ hold[r].usage # UsageOf(n)
    /\ UNCHANGED ledger

\* finalizeChatCredits: only a charge that returned counts as settled.
Charge(r) ==
    /\ at[r] = "charging"
    /\ \/ /\ Finalize(r, tally[r].seen)
          /\ Notes(r, "closing", {"completed", "settled"})
       \/ /\ FinalizeThrows(r, tally[r].seen)
          /\ Notes(r, "closing", {"completed"})
    /\ UNCHANGED chatButReq

\* finally: the timer and the observer go, the row gets its last state.
FinishRow(r) ==
    /\ at[r] = "closing"
    /\ Notes(r, "releasing", {"letGo"})
    /\ LET from == IF "completed" \in mark[r] THEN {"finishing"} ELSE {"running", "finishing"}
           to   == IF "completed" \in mark[r] THEN "completed" ELSE "failed"
       IN \/ /\ Row(r).owner = r /\ Row(r).state \in from
             /\ SetRow(turnOf[r], to)
          \/ /\ Row(r).owner # r \/ Row(r).state \notin from \/ "controlDown" \in faults
             /\ UNCHANGED row
    /\ UNCHANGED <<ledger, faults, turnOf, stopped, tally, calls, saved, recovery>>

\* refundReservation of a tracked hold: nothing to do once it is not admitted.
GiveBack(r) == IF hold[r].state = "open" THEN Refund(r) ELSE UNCHANGED ledger

\* Slip: what was not charged is refunded, dispatched or not.
RefundUncharged(r) ==
    /\ at[r] = "releasing" /\ "settled" \notin mark[r]
    /\ hold[r].state # "none"
    /\ Notes(r, "retiring", {"settled"})
    /\ GiveBack(r) \/ ("ledgerDown" \in faults /\ UNCHANGED ledger)
    /\ UNCHANGED chatButReq

\* The release point of a request that dispatched nothing; safeRefund swallows
\* its errors.
ReleaseHold(r) ==
    /\ at[r] = "releasing" /\ "settled" \notin mark[r]
    /\ hold[r].state # "none" /\ tally[r].keys = 0
    /\ Notes(r, "retiring", {"settled"})
    /\ GiveBack(r) \/ ("ledgerDown" \in faults /\ UNCHANGED ledger)
    /\ UNCHANGED chatButReq

\* requestCreditReconciliation: a call was dispatched, Oxy knows what it used.
HandOver(r) ==
    /\ at[r] = "releasing" /\ "settled" \notin mark[r]
    /\ hold[r].state # "none" /\ tally[r].keys > 0
    /\ Ends(r, "done")
    /\ \/ sched' = [sched EXCEPT ![r] = "due"]
       \/ "ledgerDown" \in faults /\ UNCHANGED sched
    /\ UNCHANGED <<ledger, faults, turnOf, row, stopped, calls, saved, tries, job, died>>

\* Nothing to release: no hold, or it was charged.
Close(r) ==
    /\ at[r] = "releasing"
    /\ "settled" \in mark[r] \/ hold[r].state = "none"
    /\ IF "settled" \in mark[r] THEN Goes(r, "retiring") /\ UNCHANGED tally ELSE Ends(r, "done")
    /\ UNCHANGED <<ledger, chatButHandler>>

\* Slip: the schedule is dropped whatever the operation's status.
RetireAnyStatus(r) == sched' = [sched EXCEPT ![r] = "none"]

\* retireTerminalCreditReconciliation.
RetireTerminal(r) ==
    sched' = [sched EXCEPT ![r] = IF hold[r].state \in {"settled", "refunded"} THEN "none" ELSE @]

Retire(r) ==
    /\ at[r] = "retiring"
    /\ Ends(r, "done")
    /\ RetireTerminal(r)
    /\ UNCHANGED <<ledger, faults, turnOf, row, stopped, calls, saved, tries, job, died>>

\* The process dies.
Crash(r) ==
    /\ "crash" \in faults
    /\ at[r] \in Live
    /\ Ends(r, "dead")
    /\ UNCHANGED <<ledger, chatButHandler>>

-----------------------------------------------------------------------------
(* Oxy, which runs the calls and keeps their records.                      *)

chatButCalls == <<faults, turnOf, row, stopped, at, mark, tally, saved, recovery>>

\* The model used some tokens, whether or not anybody still listens.
ProviderEnds(r, i) ==
    /\ calls[r][i].status = "sent"
    /\ \E n \in Tokens :
          calls' = [calls EXCEPT ![r][i] = [status |-> "used", tokens |-> n]]
    /\ UNCHANGED <<ledger, chatButCalls>>

\* Its generation record is settled, or can only be estimated.
OxySettles(r, i) ==
    /\ calls[r][i].status = "used"
    /\ \E s \in {"settled", "estimated"} :
          /\ s = "estimated" => "noReceipt" \in faults
          /\ calls' = [calls EXCEPT ![r][i].status = s]
    /\ UNCHANGED <<ledger, chatButCalls>>

-----------------------------------------------------------------------------
(* The reconciler: runCreditReconciliation.                                *)

chatButRecovery == <<faults, turnOf, row, stopped, at, mark, tally, calls, saved>>

\* next_attempt_at passes.  The two minutes outlast the 80 s of the request's
\* timer, so a request that still has its timer is not due.
FallsDue(r) ==
    /\ sched[r] = "later"
    /\ TimedOut(r) \/ at[r] \notin Timed
    /\ sched' = [sched EXCEPT ![r] = "due"]
    /\ UNCHANGED <<ledger, chatButRecovery, tries, job, died>>

\* The first statements of a round: schedules of closed operations are retired.
SweepTerminal(w, r) ==
    /\ job[w] = NoJob
    /\ sched[r] # "none" /\ hold[r].state \in {"settled", "refunded"}
    /\ RetireTerminal(r)
    /\ UNCHANGED <<ledger, chatButRecovery, tries, job, died>>

\* A due row and the attempts it had when it was listed.  Only the leader
\* lists, one round at a time.
List(w, r) ==
    /\ \A v \in Workers : job[v] = NoJob \/ (v # w /\ "twoLeaders" \in faults)
    /\ hold[r].state = "open" /\ sched[r] = "due"
    /\ job' = [job EXCEPT ![w] = [of |-> r, tries |-> tries[r], phase |-> "listed", total |-> 0]]
    /\ UNCHANGED <<ledger, chatButRecovery, sched, tries, died>>

\* Slip: a call Oxy has no settled record of counts as nothing used.
AskLeniently(w) ==
    /\ job[w] # NoJob /\ job[w].phase = "listed"
    /\ hold[job[w].of].state = "open"
    /\ job' = [job EXCEPT ![w].phase = "paying",
                          ![w].total = Total(SelectSeq(calls[job[w].of],
                                                       LAMBDA c : c.status = "settled"))]
    /\ UNCHANGED <<ledger, chatButRecovery, sched, tries, died>>

\* reconcileChatCreditOperation up to its verdict: every call that has an
\* intent must have a settled record.  A request that is due writes no more
\* intents, so the reads are one step.  Asking may also run into its timeout.
Ask(w) ==
    /\ job[w] # NoJob /\ job[w].phase = "listed"
    /\ hold[job[w].of].state = "open"
    /\ LET made  == calls[job[w].of]
           known == \A i \in DOMAIN made : made[i].status = "settled"
       IN \/ /\ known
             /\ job' = [job EXCEPT ![w].phase = "paying", ![w].total = Total(made)]
          \/ job' = [job EXCEPT ![w].phase = "failing"]
    /\ UNCHANGED <<ledger, chatButRecovery, sched, tries, died>>

\* Nothing used: the hold is given back.  Otherwise it is settled, or answered
\* from a settlement of the same usage.
Pay(w) ==
    /\ job[w] # NoJob /\ job[w].phase = "paying"
    /\ LET r == job[w].of
           n == job[w].total
       IN \/ /\ IF n = 0 THEN GiveBack(r) ELSE Finalize(r, n)
             /\ job' = [job EXCEPT ![w].phase = "retiring", ![w].total = 0]
          \/ /\ IF n = 0 THEN "ledgerDown" \in faults /\ UNCHANGED ledger
                         ELSE FinalizeThrows(r, n)
             /\ job' = [job EXCEPT ![w].phase = "failing", ![w].total = 0]
    /\ UNCHANGED <<chatButRecovery, sched, tries, died>>

\* The operation is closed, by this process or by another.
RetireJob(w) ==
    /\ job[w] # NoJob
    /\ \/ job[w].phase = "retiring"
       \/ job[w].phase = "listed" /\ hold[job[w].of].state # "open"
    /\ RetireTerminal(job[w].of)
    /\ job' = [job EXCEPT ![w] = NoJob]
    /\ UNCHANGED <<ledger, chatButRecovery, tries, died>>

\* Slip: a failed attempt is not scheduled again.
PostponeNever(w) ==
    /\ job[w] # NoJob /\ job[w].phase = "failing"
    /\ tries' = [tries EXCEPT ![job[w].of] = job[w].tries + 1]
    /\ sched' = [sched EXCEPT ![job[w].of] = "none"]
    /\ job' = [job EXCEPT ![w] = NoJob]
    /\ UNCHANGED <<ledger, chatButRecovery, died>>

\* Not yet: tried again later, until a person has to look.  Only while nobody
\* else counted.
Postpone(w) ==
    /\ job[w] # NoJob /\ job[w].phase = "failing"
    /\ LET r == job[w].of
           n == job[w].tries + 1
       IN IF tries[r] = job[w].tries
          THEN /\ tries' = [tries EXCEPT ![r] = n]
               /\ sched' = [sched EXCEPT ![r] = IF n >= MaxTries THEN "none" ELSE "later"]
          ELSE UNCHANGED <<tries, sched>>
    /\ job' = [job EXCEPT ![w] = NoJob]
    /\ UNCHANGED <<ledger, chatButRecovery, died>>

WorkerDies(w) ==
    /\ "workerDies" \in faults
    /\ ~died /\ job[w] # NoJob
    /\ died' = TRUE
    /\ job' = [job EXCEPT ![w] = NoJob]
    /\ UNCHANGED <<ledger, chatButRecovery, sched, tries>>

-----------------------------------------------------------------------------
Proceed(r) ==
    \/ Claim(r) \/ Admit(r) \/ Throw(r) \/ Prepare(r) \/ NotSent(r) \/ Send(r)
    \/ CallReturns(r) \/ LetGo(r) \/ BeginFinish(r) \/ Save(r) \/ ToCharge(r) \/ Charge(r)
    \/ FinishRow(r) \/ ReleaseHold(r) \/ HandOver(r) \/ Close(r) \/ Retire(r)

Reconcile(w) == Ask(w) \/ Pay(w) \/ RetireJob(w) \/ Postpone(w)

ChatNext ==
    \/ \E r \in Requests :
           \/ Proceed(r) \/ ClaimUnanswered(r) \/ Refuse(r) \/ CallFails(r) \/ Crash(r)
           \/ Observe(r) \/ Timeout(r) \/ FallsDue(r)
           \/ \E i \in DOMAIN calls[r] : ProviderEnds(r, i) \/ OxySettles(r, i)
    \/ \E t \in Turns : Stop(t) \/ Deadline(t)
    \/ \E w \in Workers :
           \/ Reconcile(w) \/ WorkerDies(w)
           \/ \E r \in Requests : SweepTerminal(w, r) \/ List(w, r)

ChatSpec == ChatInit /\ [][ChatNext]_allVars

Round(w) == Reconcile(w) \/ \E r \in Requests : List(w, r)

\* A handler goes on, its timer fires, a schedule falls due, a leader's round
\* lists what is due and goes on.  Nothing makes a client send, a model answer or
\* Oxy settle.
ChatFairness ==
    /\ \A r \in Requests :
          WF_allVars(at[r] # "none" /\ Proceed(r)) /\ WF_allVars(Timeout(r) \/ FallsDue(r))
    /\ \A w \in Workers : WF_allVars(Round(w))

ChatFairSpec == ChatSpec /\ ChatFairness

-----------------------------------------------------------------------------
(* Properties.                                                             *)

CallType == [status : {"intent", "sent", "used", "settled", "estimated"},
             tokens : Tokens \cup {0}]

\* The state has its type.
ChatTypeOK ==
    /\ faults \in FaultSets
    /\ turnOf \in [Requests -> Turns]
    /\ row \in [Turns -> [state : RowStates, owner : Requests \cup {NoOwner}, late : BOOLEAN]]
    /\ stopped \subseteq Turns
    /\ at \in [Requests -> Places]
    /\ mark \in [Requests -> SUBSET Marks]
    /\ tally \in [Requests -> [keys : Nat, seen : Nat]]
    /\ \A r \in Requests : calls[r] \in Seq(CallType) /\ Len(calls[r]) <= MaxSteps
    /\ saved \subseteq Requests
    /\ sched \in [Requests -> {"none", "later", "due"}]
    /\ tries \in [Requests -> 0 .. MaxTries + 1]
    /\ job \in [Workers -> [of : Requests, tries : 0 .. MaxTries + 1, total : Nat,
                            phase : {"listed", "paying", "retiring", "failing"}]
                           \cup {NoJob}]
    /\ died \in BOOLEAN

\* Who is told "cancelled" never finds the answer in the conversation later,
\* however the Stop, the observer and the finish interleave, also when the Stop
\* arrives before its turn (turnControlRepository.ts: "A simultaneous Stop must
\* win BEFORE this commit point").
StopMeansUnsaved == \A r \in saved : turnOf[r] \notin stopped

\* However often a client sends a turn, one request of it takes credits and
\* calls the model, also after a Stop, a failure or a crash.
OneRunPerTurn ==
    \A r, q \in Requests :
        (turnOf[r] = turnOf[q] /\ hold[r].state # "none" /\ hold[q].state # "none") => r = q

\* A hold is given back only when Oxy has settled every call made on it and
\* none used anything: a timeout, a Stop, a crash or a missing receipt is no
\* reason to (chat-completions.ts: "Lost metadata or a 404 cannot justify a
\* refund").
UsedIsNotRefunded ==
    \A r \in Requests : hold[r].state = "refunded" =>
        \A i \in DOMAIN calls[r] :
            \/ calls[r][i].status = "intent"
            \/ calls[r][i].status = "settled" /\ calls[r][i].tokens = 0

\* What a turn is charged for is what all its calls used, whoever charges it
\* and however many calls the request lived to see answered.
ChargedForEveryCall ==
    \A r \in Requests :
        (hold[r].state = "settled" /\ "noUsage" \notin faults) =>
            hold[r].usage = UsageOf(Total(calls[r]))

\* An open hold with an intent has a reconciliation ahead of it, or a person to
\* look at it: no loser of a race, no failed attempt and no cleanup takes the
\* schedule away.
OpenHoldIsScheduled ==
    \A r \in Requests :
        (hold[r].state = "open" /\ calls[r] # <<>>) => (sched[r] # "none" \/ tries[r] >= MaxTries)

\* Whatever the model and the control store do, a request that has begun ends.
EveryRequestEnds ==
    \A r \in Requests : at[r] \in Live ~> at[r] \in {"done", "dead"}

\* An open hold whose calls are intended is in the end closed, or somebody is
\* told to look at it.
EveryHoldIsDecided ==
    \A r \in Requests :
        (hold[r].state = "open" /\ calls[r] # <<>>) ~>
            (hold[r].state # "open" \/ calls[r] = <<>> \/ tries[r] >= MaxTries)

\* The comment on assertLive: a turn whose timeout was answered is neither
\* stored nor charged.  Violated: both statements may already be on their way.
TimedOutIsNotStored ==
    [][ \A r \in Requests : TimedOut(r) => (r \in saved' => r \in saved) ]_allVars

\* Every hold has a request that will release it, or an intent for the
\* reconciler to find ("This survives owner loss", credit-reconciliation.ts).
\* Violated: the process may die before the first intent.
HoldHasAnOwner ==
    \A r \in Requests :
        hold[r].state = "open" => (at[r] \in Live \/ calls[r] # <<>>)
=============================================================================
