---------------------------- MODULE ComputerHost ----------------------------
(***************************************************************************)
(* The computers agents run commands in: one container per actor.          *)
(*                                                                         *)
(*   lease, receipts  alia-computer-host/src/store.ts    one row each      *)
(*   operations       .../computer-service.ts   commands, files, start,    *)
(*                    stop, the idle reaper, the drain before a shutdown   *)
(*   containers       Docker, through its command line (external)          *)
(*                                                                         *)
(* Every statement of the store and every call of Docker is a step, and a  *)
(* call is where its last answer left it (pc).  Of time only this is kept: *)
(* a lease is longer than what it covers, so it lapses when that is over   *)
(* or its owner died (Lapse), unless Docker is slow; and a command sent to *)
(* Docker is there before a stop that came after it, unless it is late.    *)
(***************************************************************************)
EXTENDS Integers, FiniteSets

CONSTANTS
    Calls,      \* calls of the service; each is made at most once, save "read"
    NoCall,
    Actors,
    Ops,        \* operationIds
    NoOp,
    Scenarios,  \* what the calls may ask for: their kind, actor and operationId
    MaxRunning, \* config.maxRunning, less what the browser takes
    MaxFaults,  \* bound on the deaths of the host and the rarer faults together
    Faults      \* the rarer faults switched on, see FaultKinds

Commands  == {"command", "background"}
Stops     == {"stop", "reap"}
Kinds     == Commands \cup Stops \cup {"file", "start", "read", "drain"}

\* slow    a lease lapses under a call that still works in its computer
\* late    a command reaches Docker after a stop that began after it was sent
\* stuck   Docker does not stop a container
\* adrift  Docker gives up on a file operation whose process lives on
FaultKinds == {"slow", "late", "stuck", "adrift"}

ASSUME HostAssumption ==
    /\ NoCall \notin Calls /\ NoOp \notin Ops
    /\ \A s \in Scenarios :
         /\ s \in [Calls -> [kind : Kinds, actor : Actors, op : Ops \cup {NoOp}]]
         /\ \A c \in Calls : s[c].kind \in Commands \cup {"read"} <=> s[c].op \in Ops
         /\ \A c, d \in Calls : s[c].op \in Ops /\ s[c].op = s[d].op
                                 => s[c].actor = s[d].actor
    /\ MaxRunning \in Nat /\ MaxFaults \in Nat
    /\ Faults \subseteq FaultKinds

VARIABLES
    request,    \* what each call asks for, never changed
    token,      \* computer_leases.token: the call that won it
    live,       \* expires_at > now()
    stopping,   \* computer_leases.stopping
    receipt,    \* computer_commands.status
    author,     \* the call whose request a receipt holds
    box,        \* each actor's container
    inside,     \* the calls whose process runs in a container
    pc,         \* where each call is
    grip,       \* the token a stop works under
    said,       \* its answer, from the moment that is known
    draining,   \* drainingUntil > now()
    calm,       \* the drains since whose start nothing began or ended
                \* (epoch = before, idleForMs >= minIdleMs)
    runs,       \* history: how often each operationId was run
    mishaps,    \* history: the faults that happened
    crashes

leaseVars   == <<token, live, stopping>>
receiptVars == <<receipt, author>>
boxVars     == <<box, inside, runs>>
callVars    == <<pc, grip, said>>
hostVars    == <<draining, calm, crashes>>
vars == <<request, leaseVars, receiptVars, boxVars, callVars, hostVars, mishaps>>

Kind(c)  == request[c].kind
Actor(c) == request[c].actor
Op(c)    == request[c].op
OpsOf(a) == {Op(c) : c \in {d \in Calls : Actor(d) = a}} \ {NoOp}

Final    == {"started", "succeeded", "failed", "timed_out", "interrupted"}
Statuses == Final \cup {"none", "running", "forgotten"}
Answers  == Statuses \cup {"ok", "refused"}  \* "refused": any HostError
Over     == {"idle", "done", "gone"}
Working  == {"checking", "creating", "inserting", "confirming", "launching",
             "running", "lost", "ran", "releasing"}
Ending   == {"marking", "halting", "freeing"}
Places   == Over \cup Working \cup Ending
              \cup {"lookup", "judging", "stale", "waiting", "peeking",
                    "claiming", "preempting", "listing", "deciding"}

Running == {a \in Actors : box[a] = "running"}

HostTypeOK ==
    /\ request \in Scenarios
    /\ token \in [Actors -> Calls \cup {NoCall}]
    /\ live \in [Actors -> BOOLEAN]
    /\ stopping \in [Actors -> BOOLEAN]
    /\ receipt \in [Ops -> Statuses]
    /\ author \in [Ops -> Calls \cup {NoCall}]
    /\ box \in [Actors -> {"none", "running", "exited"}]
    /\ inside \subseteq Calls
    /\ pc \in [Calls -> Places]
    /\ grip \in [Calls -> Calls \cup {NoCall}]
    /\ said \in [Calls -> Answers]
    /\ draining \in BOOLEAN
    /\ calm \subseteq Calls
    /\ runs \in [Ops -> Nat]
    /\ mishaps \subseteq FaultKinds
    /\ crashes \in 0 .. MaxFaults

Init ==
    /\ request \in Scenarios
    /\ token = [a \in Actors |-> NoCall]
    /\ live = [a \in Actors |-> FALSE]
    /\ stopping = [a \in Actors |-> FALSE]
    /\ receipt = [o \in Ops |-> "none"]
    /\ author = [o \in Ops |-> NoCall]
    /\ box \in [Actors -> {"none", "running"}]
    /\ Cardinality(Running) =< MaxRunning
    /\ inside = {}
    /\ pc = [c \in Calls |-> "idle"]
    /\ grip = [c \in Calls |-> NoCall]
    /\ said = [c \in Calls |-> "none"]
    /\ draining = FALSE
    /\ calm = {}
    /\ runs = [o \in Ops |-> 0]
    /\ mishaps = {}
    /\ crashes = 0

\* One of the rarer faults happens, for the first time.
Luck == crashes + Cardinality(mishaps) < MaxFaults
Mishap(f) == Luck /\ f \in Faults \ mishaps /\ mishaps' = mishaps \cup {f}

----------------------------------------------------------------------------
(* Steps of a call, and the statements of the store *)

Goes(c, from, to) ==
    /\ pc[c] = from
    /\ pc' = [pc EXCEPT ![c] = to]
    /\ UNCHANGED <<grip, said>>

\* It goes on to tell this.
Tells(c, from, to, answer) ==
    /\ pc[c] = from
    /\ pc' = [pc EXCEPT ![c] = to]
    /\ said' = [said EXCEPT ![c] = answer]
    /\ UNCHANGED grip

\* A read is repeated, so it forgets what it was told.
Done(c, from, answer) ==
    IF Kind(c) = "read" THEN Tells(c, from, "idle", "none") ELSE Tells(c, from, "done", answer)

Holds(c, t) == /\ live[Actor(c)]
               /\ token[Actor(c)] = t
               /\ ~stopping[Actor(c)]

\* acquireLease: only a lapsed lease is won.
Win(c) ==
    /\ ~live[Actor(c)]
    /\ token' = [token EXCEPT ![Actor(c)] = c]
    /\ live' = [live EXCEPT ![Actor(c)] = TRUE]
    /\ stopping' = [stopping EXCEPT ![Actor(c)] = FALSE]

\* markStopping, under the token of whoever holds the lease.
TakeOver(c, t) ==
    /\ Holds(c, t)
    /\ stopping' = [stopping EXCEPT ![Actor(c)] = TRUE]
    /\ UNCHANGED <<token, live>>

\* interruptRunning: every receipt of the actor.
Interrupt(c) ==
    /\ receipt' = [o \in Ops |-> IF o \in OpsOf(Actor(c)) /\ receipt[o] = "running"
                                 THEN "interrupted" ELSE receipt[o]]
    /\ UNCHANGED author

\* finishReceipt, on a receipt that is still running.
Settles(c, status) ==
    /\ receipt' = IF receipt[Op(c)] = "running"
                  THEN [receipt EXCEPT ![Op(c)] = status] ELSE receipt
    /\ UNCHANGED author

\* The answer to a call whose operationId has a receipt already.
Known(c) == IF Kind(c) \in Commands /\ Kind(author[Op(c)]) # Kind(c)
            THEN "refused" ELSE receipt'[Op(c)]

----------------------------------------------------------------------------
(* The call arrives *)

First(c) == CASE Kind(c) \in Commands -> "lookup"
              [] Kind(c) \in {"file", "start"} -> "waiting"
              [] OTHER -> "peeking"

\* tracked(): refused while the host drains, and noticed by a drain under way.
Arrive(c) ==
    /\ Kind(c) \in Commands \cup {"file", "start", "stop"}
    /\ IF draining THEN Tells(c, "idle", "done", "refused") /\ UNCHANGED calm
                   ELSE Goes(c, "idle", First(c)) /\ calm' = {}
    /\ UNCHANGED <<request, leaseVars, receiptVars, boxVars, draining, crashes, mishaps>>

\* A receipt is asked for, outside of tracked().
Read(c) ==
    /\ Kind(c) = "read"
    /\ Goes(c, "idle", "lookup")
    /\ UNCHANGED <<request, leaseVars, receiptVars, boxVars, hostVars, mishaps>>

\* receipt(): a running one is only believed while the actor's lease lives.
Lookup(c) ==
    /\ pc[c] = "lookup"
    /\ UNCHANGED receiptVars
    /\ \/ /\ receipt[Op(c)] = "none"
          /\ IF Kind(c) = "read" THEN Done(c, "lookup", "none")
                                 ELSE Goes(c, "lookup", "waiting")
       \/ receipt[Op(c)] = "running" /\ Goes(c, "lookup", "judging")
       \/ receipt[Op(c)] \in Final \cup {"forgotten"} /\ Done(c, "lookup", Known(c))
    /\ UNCHANGED <<request, leaseVars, boxVars, hostVars, mishaps>>

\* Bug: a lapsed lease counts as held.
LapsedIsHeld(c) == token[Actor(c)] # NoCall

LeaseLives(c) == live[Actor(c)]

Judge(c) ==
    /\ UNCHANGED receiptVars
    /\ IF LeaseLives(c) THEN Done(c, "judging", Known(c)) ELSE Goes(c, "judging", "stale")
    /\ UNCHANGED <<request, leaseVars, boxVars, hostVars, mishaps>>

\* Nobody works for the actor, it seems: its running receipts were cut off.
GiveUpOn(c) ==
    /\ Interrupt(c)
    /\ Done(c, "stale", Known(c))
    /\ UNCHANGED <<request, leaseVars, boxVars, hostVars, mishaps>>

----------------------------------------------------------------------------
(* exclusive(): the lease around the work *)

\* Won at last; or won for a caller who went away meanwhile.
Acquire(c) ==
    /\ Win(c)
    /\ \/ Goes(c, "waiting", "checking")
       \/ Tells(c, "waiting", "releasing", "refused")
    /\ UNCHANGED <<request, receiptVars, boxVars, hostVars, mishaps>>

\* The wait is over, or the caller is gone.
GiveUp(c) ==
    /\ live[Actor(c)]
    /\ Tells(c, "waiting", "done", "refused")
    /\ UNCHANGED <<request, leaseVars, receiptVars, boxVars, hostVars, mishaps>>

\* releaseLease, unless a stop has taken the lease over.
Release(c) ==
    /\ Goes(c, "releasing", "done")
    /\ live' = [live EXCEPT ![Actor(c)] = @ /\ (token[Actor(c)] # c \/ stopping[Actor(c)])]
    /\ UNCHANGED <<request, token, stopping, receiptVars, boxVars, hostVars, mishaps>>

\* running(): the container is inspected, or Docker fails to.
Check(c) ==
    /\ Kind(c) \in Commands \cup {"file"}
    /\ \/ /\ box[Actor(c)] = "running"
          /\ Goes(c, "checking", IF Kind(c) = "file" THEN "launching" ELSE "inserting")
       \/ /\ box[Actor(c)] # "running"
          /\ Tells(c, "checking", "releasing", "refused")
       \/ Tells(c, "checking", "releasing", "refused")
    /\ UNCHANGED <<request, leaseVars, receiptVars, boxVars, hostVars, mishaps>>

\* start(): what is left of an earlier container goes; slots are counted.
CheckSlot(c) ==
    /\ Kind(c) = "start"
    /\ box' = [box EXCEPT ![Actor(c)] = IF @ = "running" THEN @ ELSE "none"]
    /\ \/ /\ box[Actor(c)] = "running"
          /\ Tells(c, "checking", "releasing", "ok")
       \/ /\ box[Actor(c)] # "running" /\ Cardinality(Running) >= MaxRunning
          /\ Tells(c, "checking", "releasing", "refused")
       \/ /\ box[Actor(c)] # "running" /\ Cardinality(Running) < MaxRunning
          /\ Goes(c, "checking", "creating")
    /\ UNCHANGED <<request, leaseVars, receiptVars, inside, runs, hostVars, mishaps>>

\* docker create and docker start: a name in use, or Docker, can refuse either.
Create(c) ==
    /\ \/ /\ box[Actor(c)] = "none"
          /\ box' = [box EXCEPT ![Actor(c)] = "running"]
          /\ Tells(c, "creating", "releasing", "ok")
       \/ /\ \/ UNCHANGED box
             \/ box[Actor(c)] = "none" /\ box' = [box EXCEPT ![Actor(c)] = "exited"]
          /\ Tells(c, "creating", "releasing", "refused")
    /\ UNCHANGED <<request, leaseVars, receiptVars, inside, runs, hostVars, mishaps>>

----------------------------------------------------------------------------
(* runCommand() and startBackground() *)

\* Bug: the row is written over.
InsertOver(c) ==
    /\ pc[c] = "inserting"
    /\ receipt' = [receipt EXCEPT ![Op(c)] = "running"]
    /\ author' = [author EXCEPT ![Op(c)] = c]
    /\ Goes(c, "inserting", "confirming")
    /\ UNCHANGED <<request, leaseVars, boxVars, hostVars, mishaps>>

\* insertReceipt, on conflict do nothing: the other call's receipt is returned.
Insert(c) ==
    /\ pc[c] = "inserting"
    /\ \/ /\ receipt[Op(c)] = "none"
          /\ receipt' = [receipt EXCEPT ![Op(c)] = "running"]
          /\ author' = [author EXCEPT ![Op(c)] = c]
          /\ Goes(c, "inserting", "confirming")
       \/ /\ receipt[Op(c)] # "none"
          /\ Tells(c, "inserting", "releasing", receipt[Op(c)])
          /\ UNCHANGED receiptVars
    /\ UNCHANGED <<request, leaseVars, boxVars, hostVars, mishaps>>

\* Bug: a stop that came before the receipt is not looked for.
ConfirmBlindly(c) ==
    /\ Goes(c, "confirming", "launching")
    /\ UNCHANGED <<request, leaseVars, receiptVars, boxVars, hostVars, mishaps>>

\* The lease is read again. Whoever lost it does not run, and tells what it
\* made of its receipt, or the receipt as it wrote it.
Confirm(c) ==
    /\ pc[c] = "confirming"
    /\ \/ /\ Holds(c, c)
          /\ Goes(c, "confirming", "launching")
          /\ UNCHANGED receiptVars
       \/ /\ ~Holds(c, c)
          /\ Settles(c, "interrupted")
          /\ Tells(c, "confirming", "releasing",
                   IF receipt[Op(c)] = "running" THEN "interrupted" ELSE "running")
    /\ UNCHANGED <<request, leaseVars, boxVars, hostVars, mishaps>>

\* docker exec reaches the container; one in the background is left there.
Land(c) ==
    /\ box[Actor(c)] = "running"
    /\ inside' = inside \cup {c}
    /\ runs' = IF Kind(c) \in Commands THEN [runs EXCEPT ![Op(c)] = @ + 1] ELSE runs
    /\ \/ Kind(c) # "background" /\ Goes(c, "launching", "running")
       \/ /\ Kind(c) = "background"
          /\ \E status \in {"started", "failed"} : Tells(c, "launching", "ran", status)
    /\ UNCHANGED <<request, leaseVars, receiptVars, box, hostVars, mishaps>>

\* It does not: there is no such container, or Docker fails, or is not heard of.
LandFails(c) ==
    /\ \/ Tells(c, "launching", "ran", "failed")
       \/ Kind(c) = "command" /\ Tells(c, "launching", "lost", "timed_out")
    /\ UNCHANGED <<request, leaseVars, receiptVars, boxVars, hostVars, mishaps>>

\* The process ends, of itself, of its time limit or with its container.
Exit(c) ==
    /\ inside' = inside \ {c}
    /\ \E status \in {"succeeded", "failed", "timed_out"} :
         /\ c \notin inside => status = "failed"
         /\ Tells(c, "running", "ran", status)
    /\ UNCHANGED <<request, leaseVars, receiptVars, box, runs, hostVars, mishaps>>

\* docker exec does not return in time and is killed; its process may live on.
\* A command then stops its whole computer, a file operation has failed.
Lose(c) ==
    /\ \/ /\ Kind(c) = "command"
          /\ Tells(c, "running", "lost", "timed_out")
          /\ UNCHANGED mishaps
       \/ /\ Kind(c) = "file"
          /\ Tells(c, "running", "ran", "failed")
          /\ IF c \in inside THEN Mishap("adrift") ELSE UNCHANGED mishaps
    /\ UNCHANGED <<request, leaseVars, receiptVars, boxVars, hostVars>>

\* Such a process has its time limit in the container too.
Orphaned(c) == c \in inside /\ Kind(c) \in {"command", "file"} /\ pc[c] # "running"

Leave(c) ==
    /\ Orphaned(c)
    /\ inside' = inside \ {c}
    /\ UNCHANGED <<request, leaseVars, receiptVars, box, runs, callVars, hostVars, mishaps>>

\* Unless a stop is at it already.
StopOwn(c) ==
    /\ \/ /\ TakeOver(c, c)
          /\ pc[c] = "lost"
          /\ pc' = [pc EXCEPT ![c] = "halting"]
          /\ grip' = [grip EXCEPT ![c] = c]
          /\ UNCHANGED said
       \/ /\ ~Holds(c, c)
          /\ Goes(c, "lost", "ran")
          /\ UNCHANGED leaseVars
    /\ UNCHANGED <<request, receiptVars, boxVars, hostVars, mishaps>>

\* Bug: the last word on a receipt is the command's, whoever spoke before.
FinishOver(c) ==
    /\ Kind(c) \in Commands
    /\ receipt' = [receipt EXCEPT ![Op(c)] = said[c]]
    /\ Goes(c, "ran", "releasing")
    /\ UNCHANGED <<request, author, leaseVars, boxVars, hostVars, mishaps>>

\* The receipt is finished, if it still runs, and what is stored is told;
\* of one in the background, the receipt as it was written.
Finish(c) ==
    /\ \/ /\ Kind(c) \in Commands
          /\ Settles(c, said[c])
          /\ Tells(c, "ran", "releasing",
                   IF Kind(c) = "background" /\ receipt[Op(c)] # "running"
                   THEN "running" ELSE receipt'[Op(c)])
       \/ /\ Kind(c) = "file"
          /\ Tells(c, "ran", "releasing", IF said[c] = "succeeded" THEN "ok" ELSE "failed")
          /\ UNCHANGED receiptVars
    /\ UNCHANGED <<request, leaseVars, boxVars, hostVars, mishaps>>

----------------------------------------------------------------------------
(* stopByHash(): a stop, the sweep for idle computers, a lost command's end *)

\* reapIdle() looks at the computers that run; stop() came through Arrive.
Sweep(c) ==
    /\ Kind(c) = "reap"
    /\ box[Actor(c)] = "running"
    /\ Goes(c, "idle", "peeking")
    /\ UNCHANGED <<request, leaseVars, receiptVars, boxVars, hostVars, mishaps>>

\* Only a request may cut a command short, and only a command.
Peek(c) ==
    /\ \/ ~live[Actor(c)] /\ Goes(c, "peeking", "claiming")
       \/ /\ Kind(c) = "stop"
          /\ live[Actor(c)] /\ ~stopping[Actor(c)]
          /\ Kind(token[Actor(c)]) \in Commands
          /\ pc[c] = "peeking"
          /\ pc' = [pc EXCEPT ![c] = "preempting"]
          /\ grip' = [grip EXCEPT ![c] = token[Actor(c)]]
          /\ UNCHANGED said
       \/ /\ live[Actor(c)]
          /\ \/ Kind(c) = "reap" \/ stopping[Actor(c)]
             \/ Kind(token[Actor(c)]) \notin Commands
          /\ Tells(c, "peeking", "done", "refused")
    /\ UNCHANGED <<request, leaseVars, receiptVars, boxVars, hostVars, mishaps>>

Claim(c) ==
    /\ pc[c] = "claiming"
    /\ \/ /\ Win(c)
          /\ pc' = [pc EXCEPT ![c] = "marking"]
          /\ grip' = [grip EXCEPT ![c] = c]
          /\ UNCHANGED said
       \/ /\ live[Actor(c)]
          /\ Tells(c, "claiming", "done", "refused")
          /\ UNCHANGED leaseVars
    /\ UNCHANGED <<request, receiptVars, boxVars, hostVars, mishaps>>

Preempt(c) ==
    /\ \/ TakeOver(c, grip[c]) /\ Goes(c, "preempting", "marking")
       \/ /\ ~Holds(c, grip[c])
          /\ pc[c] = "preempting"
          /\ pc' = [pc EXCEPT ![c] = "done"]
          /\ grip' = [grip EXCEPT ![c] = NoCall]
          /\ said' = [said EXCEPT ![c] = "refused"]
          /\ UNCHANGED leaseVars
    /\ UNCHANGED <<request, receiptVars, boxVars, hostVars, mishaps>>

\* Intent first: what runs is interrupted before the container is stopped.
Mark(c) ==
    /\ Interrupt(c)
    /\ Goes(c, "marking", "halting")
    /\ UNCHANGED <<request, leaseVars, boxVars, hostVars, mishaps>>

\* What was sent to Docker before is there before, unless it is late.
Sent(a) == {c \in Calls : Actor(c) = a /\ pc[c] = "launching"}

\* docker stop and docker rm; a stop is told when they fail, a command goes on.
Halt(c) ==
    /\ IF Sent(Actor(c)) # {} THEN Mishap("late") ELSE UNCHANGED mishaps
    /\ \E left \in {"none", "exited"} :
         /\ box' = [box EXCEPT ![Actor(c)] = IF @ = "none" THEN "none" ELSE left]
         /\ Tells(c, "halting", "freeing", IF Kind(c) = "command" THEN said[c]
                                           ELSE IF left = "none" THEN "ok" ELSE "refused")
    /\ inside' = {d \in inside : Actor(d) # Actor(c)}
    /\ UNCHANGED <<request, leaseVars, receiptVars, runs, hostVars>>

HaltFails(c) ==
    /\ box[Actor(c)] = "running" /\ Mishap("stuck")
    /\ Tells(c, "halting", "freeing", IF Kind(c) = "command" THEN said[c] ELSE "refused")
    /\ UNCHANGED <<request, leaseVars, receiptVars, boxVars, hostVars>>

\* releaseStopped, whatever became of the container.
Free(c) ==
    /\ pc[c] = "freeing"
    /\ pc' = [pc EXCEPT ![c] = IF Kind(c) = "command" THEN "ran" ELSE "done"]
    /\ grip' = [grip EXCEPT ![c] = NoCall]
    /\ UNCHANGED said
    /\ LET mine == token[Actor(c)] = grip[c]
       IN /\ live' = [live EXCEPT ![Actor(c)] = @ /\ ~mine]
          /\ stopping' = [stopping EXCEPT ![Actor(c)] = @ /\ ~mine]
    /\ UNCHANGED <<request, token, receiptVars, boxVars, hostVars, mishaps>>

\* Receipts are forgotten a week later, when nobody asks for the operation again.
Prune(o) ==
    /\ receipt[o] \in Final
    /\ \A c \in Calls : Op(c) = o => pc[c] \in Over /\ (Kind(c) # "read" => pc[c] # "idle")
    /\ receipt' = [receipt EXCEPT ![o] = "forgotten"]
    /\ UNCHANGED <<request, author, leaseVars, boxVars, callVars, hostVars, mishaps>>

----------------------------------------------------------------------------
(* The host stops itself when it is idle *)

InFlight == {c \in Calls : Kind(c) \notin {"read", "reap", "drain"} /\ pc[c] \notin Over}

\* Bug: whatever is in flight when the drain is asked for may end under its eyes.
DrainAsksBusy(c) ==
    /\ Kind(c) = "drain"
    /\ Goes(c, "idle", "listing")
    /\ calm' = calm \cup {c}
    /\ UNCHANGED <<request, leaseVars, receiptVars, boxVars, draining, crashes, mishaps>>

\* The host has been idle for minIdleMs by the time the drain decides only if
\* nothing is in flight now: what ends meanwhile moves lastBusyAt.
DrainAsks(c) ==
    /\ Kind(c) = "drain"
    /\ Goes(c, "idle", "listing")
    /\ calm' = IF InFlight = {} THEN calm \cup {c} ELSE calm
    /\ UNCHANGED <<request, leaseVars, receiptVars, boxVars, draining, crashes, mishaps>>

DrainLists(c) ==
    /\ IF Running = {} THEN Goes(c, "listing", "deciding")
                       ELSE Tells(c, "listing", "done", "refused")
    /\ UNCHANGED <<request, leaseVars, receiptVars, boxVars, hostVars, mishaps>>

\* Nothing is in flight, and nothing began since the drain was asked for.
MayDrain(c) == c \in calm /\ InFlight = {}

DrainDecides(c) ==
    /\ \/ MayDrain(c) /\ Tells(c, "deciding", "done", "ok") /\ draining' = TRUE
       \/ ~MayDrain(c) /\ Tells(c, "deciding", "done", "refused") /\ UNCHANGED draining
    /\ UNCHANGED <<request, leaseVars, receiptVars, boxVars, calm, crashes, mishaps>>

\* The instance did not stop after all, or stopped and was started again.
DrainEnds ==
    /\ draining
    /\ draining' = FALSE
    /\ UNCHANGED <<request, leaseVars, receiptVars, boxVars, callVars, calm, crashes, mishaps>>

----------------------------------------------------------------------------
(* Time and crashes *)

\* Somebody works under the actor's lease, or a process it started does.
Covered(a) ==
    \/ \E c \in Calls : \/ pc[c] \in Working /\ token[a] = c
                        \/ pc[c] \in Ending /\ grip[c] = token[a]
    \/ \E c \in inside : token[a] = c /\ Kind(c) # "background"

\* A lease lapses when what it covers is over, its owner being dead.
Lapse(a) ==
    /\ live[a]
    /\ live' = [live EXCEPT ![a] = FALSE]
    /\ IF Covered(a) THEN Mishap("slow") ELSE UNCHANGED mishaps
    /\ UNCHANGED <<request, token, stopping, receiptVars, boxVars, callVars, hostVars>>

\* The host dies, and with it maybe the machine and every container on it.
Crash ==
    /\ Luck
    /\ crashes' = crashes + 1
    /\ pc' = [c \in Calls |-> CASE pc[c] \in Over -> pc[c]
                                [] Kind(c) = "read" -> "idle"
                                [] OTHER -> "gone"]
    /\ said' = [c \in Calls |-> IF pc[c] \in Over THEN said[c] ELSE "none"]
    /\ draining' = FALSE
    /\ calm' = {}
    /\ \/ UNCHANGED <<box, inside>>
       \/ /\ box' = [a \in Actors |-> IF box[a] = "running" THEN "exited" ELSE box[a]]
          /\ inside' = {}
    /\ grip' = [c \in Calls |-> NoCall]
    /\ UNCHANGED <<request, leaseVars, receiptVars, runs, mishaps>>

Asking(c)   == Read(c) \/ Lookup(c) \/ Judge(c) \/ GiveUpOn(c)
Queueing(c) == Acquire(c) \/ GiveUp(c) \/ Check(c) \/ CheckSlot(c) \/ Create(c) \/ Release(c)
Commanding(c) == \/ Insert(c) \/ Confirm(c) \/ Land(c) \/ LandFails(c) \/ Exit(c)
               \/ Lose(c) \/ StopOwn(c) \/ Finish(c)
Stopping(c) == \/ Peek(c) \/ Claim(c) \/ Preempt(c) \/ Mark(c) \/ Halt(c)
               \/ HaltFails(c) \/ Free(c)
Draining(c) == DrainLists(c) \/ DrainDecides(c)

\* What a call under way does next, or the process it left behind.
Step(c) == \/ Asking(c) \/ Queueing(c) \/ Commanding(c) \/ Stopping(c) \/ Draining(c)
           \/ Leave(c)

Begin(c) == Arrive(c) \/ Sweep(c) \/ DrainAsks(c)

Next ==
    \/ \E c \in Calls : Begin(c) \/ Step(c)
    \/ \E a \in Actors : Lapse(a)
    \/ \E o \in Ops : Prune(o)
    \/ DrainEnds
    \/ Crash

Spec == Init /\ [][Next]_vars

\* What a call under way does next is done, a process ends, a lease lapses, and
\* whoever asks for a receipt keeps asking.
Fairness ==
    /\ \A c \in Calls : WF_vars(Step(c))
    /\ \A a \in Actors : WF_vars(Lapse(a) /\ ~Covered(a))

FairSpec == Spec /\ Fairness

----------------------------------------------------------------------------
(* Properties *)

\* However often a caller repeats an operationId, whatever is stopped, lapses or
\* crashes in between, its command is run at most once (store.ts:18-22).
RunsOnce == \A o \in Ops : runs[o] =< 1

\* Nothing but jobs in the background runs in a computer whose lease another
\* holds, or nobody: no two operations interleave in one container, and what a
\* stop, a time-out or a crash left behind is over before the next one starts
\* (store.ts:7-17, computer-service.ts:684-685).
LeaseCovers ==
    \A c \in inside : Kind(c) # "background" /\ mishaps = {}
        => live[Actor(c)] /\ token[Actor(c)] = c

\* The same, whatever goes wrong with Docker: "Two replicas of the Alia API, two
\* tool calls of one run, or two hosts some day, cannot interleave inside one
\* container" (store.ts:10-11).
NeverInterleaved ==
    \A c, d \in inside : Actor(c) = Actor(d) /\ c # d
        => Kind(c) = "background" \/ Kind(d) = "background"

\* What a caller was told of the outcome of its command is what is stored, and
\* what every other caller is told: no late success over an interruption, no
\* second outcome (store.ts:18-22).
AnswersAgree ==
    \A c \in Calls : pc[c] = "done" /\ Kind(c) \in Commands /\ said[c] \in Final
        => receipt[Op(c)] \in {said[c], "forgotten"}

\* "The same operationId with a different command is a 409" (store.ts:21-22).
ConflictIsRefused ==
    \A c \in Calls : pc[c] = "done" /\ Kind(c) \in Commands /\ said[c] \in Final
        => Kind(author[Op(c)]) = Kind(c)

\* "A receipt still running whose actor holds no live lease was cut off by a
\* crash" (store.ts:26-27): no command whose owner still has its lease is
\* written off.
WrittenOff(c) ==
    /\ author[Op(c)] = c /\ receipt[Op(c)] = "interrupted"
    /\ pc[c] \in {"confirming", "launching", "running"} /\ Holds(c, c)

OnlyLostIsWrittenOff == \A c \in Calls : Kind(c) \in Commands => ~WrittenOff(c)

\* While the host may be switched off no call is under way and no container
\* runs, whatever began or ended while the drain was looking
\* (computer-service.ts:200-205).
DrainedIsQuiet == draining => InFlight = {} /\ Running = {} /\ inside = {}

\* Never more computers than the host has slots for (computer-service.ts:106-110).
SlotsSuffice == Cardinality(Running) =< MaxRunning

\* A command's receipt does not stay "running" for ever, whoever died over it,
\* if somebody keeps asking for it (store.ts:26-28).
Watched(o) == \E c \in Calls : Kind(c) = "read" /\ Op(c) = o

EveryReceiptEnds ==
    \A o \in Ops : Watched(o) /\ receipt[o] = "running" ~> receipt[o] # "running"

=============================================================================
