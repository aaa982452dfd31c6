---------------------------- MODULE CreditLedger ----------------------------
(***************************************************************************)
(* One account's credits: the balance row, the reservations taken on it    *)
(* and the product quota that funds a reservation the balance cannot.      *)
(*                                                                         *)
(*   balance row   db/billing/userCreditsRepository.ts   user_credits      *)
(*   operations    lib/credits-manager.ts                credit_operations *)
(*   product quota lib/product-credit-allocations.ts                       *)
(*                                                                         *)
(* A tracked hold has a credit_operations row, every settlement of it is   *)
(* one transaction that locks that row.  An untracked hold exists only in  *)
(* its caller's hands, who settles or refunds it once.  One action is one  *)
(* statement or one transaction whose writes all lie under locks it holds; *)
(* a settlement that issues two statements without such a lock has two     *)
(* actions.  Statements that throw change nothing and are not actions.     *)
(***************************************************************************)
EXTENDS Integers, FiniteSets, FiniteSetsExt

CONSTANTS
    Holds,          \* reservations
    Tracked,        \* those taken with a price book, so with an operation row
    FixedPriced,    \* those whose owner settles with finalizeFixedCredits
    Grants,         \* product grants, each one allocation row
    Included,       \* the quota each grant includes
    FreeLimit,      \* user_credits.credits_free_limit
    Amounts,        \* what callers reserve
    Usages,         \* token counts: [total, system]
    Prices,         \* prices the callers of finalizeFixedCredits computed
    TokensPerCredit, MinCredits,
    Purchases,      \* sizes of purchases and rewards
    MaxPurchases,   \* how many of them
    NoGrant, NoUsage

ASSUME LedgerAssumption ==
    /\ Tracked \subseteq Holds
    /\ FixedPriced \subseteq Holds
    /\ Included \in [Grants -> Nat]
    /\ FreeLimit \in Nat
    /\ Amounts \subseteq Nat \ {0}
    /\ Usages \subseteq [total : Nat, system : Nat]
    /\ Prices \subseteq Nat
    /\ TokensPerCredit \in Nat \ {0}
    /\ MinCredits \in Nat \ {0}
    /\ Purchases \subseteq Nat \ {0}
    /\ MaxPurchases \in Nat
    /\ NoGrant \notin Grants
    /\ NoUsage \notin Usages

VARIABLES
    free, paid,    \* user_credits.credits_free, credits_paid
    due,           \* a day has passed since credits_last_refresh
    hold,          \* the reservations, with their operation rows
    alloc,         \* product_credit_allocations
    grant,         \* the grant Oxy's snapshot selects now
    \* History, read by no action:
    purchases,     \* purchases made
    purchased,     \* credits they brought
    granted,       \* credits brought by purchases and allowance refreshes
    held, heldPaid,\* credits in open balance-funded holds; of those labelled paid
    charged,       \* credits recorded as charged to the balance
    exhausted,     \* reservations since the last refresh that took from the
                   \* allowance and are labelled paid_balance
    answers        \* the charges each hold's settlement calls returned

balance == <<free, paid>>
history == <<purchases, purchased, granted, held, heldPaid, charged, exhausted, answers>>
vars    == <<free, paid, due, hold, alloc, grant, purchases, purchased, granted,
             held, heldPaid, charged, exhausted, answers>>

States  == {"none", "open", "settled", "refunded"}
Sources == {"free_allowance", "paid_balance", "product_allowance"}

\* short: the price a settlement found the balance could not cover, while it
\* has not yet emptied the balance.  took: history, what the settlement moved.
Unsettled(state, n, source, g) ==
    [state |-> state, amount |-> n, source |-> source, of |-> g,
     asked |-> 0, charge |-> 0, took |-> 0, usage |-> NoUsage, short |-> 0]

NoHold == Unsettled("none", 0, "free_allowance", NoGrant)

Init ==
    /\ free = FreeLimit
    /\ paid = 0
    /\ due = FALSE
    /\ hold = [h \in Holds |-> NoHold]
    /\ alloc = [g \in Grants |-> [active |-> FALSE, reserved |-> 0, consumed |-> 0]]
    /\ grant \in Grants \cup {NoGrant}
    /\ purchases = 0
    /\ purchased = 0
    /\ granted = FreeLimit
    /\ held = 0
    /\ heldPaid = 0
    /\ charged = 0
    /\ exhausted = 0
    /\ answers = [h \in Holds |-> {}]

-----------------------------------------------------------------------------
(* Prices.                                                                 *)

AtLeast(m, n) == IF n > m THEN n ELSE m

\* calculateCredits at the base rate: rounded up, never less than the minimum;
\* the tokens of Alia's own system prompt are not the person's.
Needed(u) ==
    IF u.total = 0 THEN MinCredits
    ELSE AtLeast(MinCredits,
                 (AtLeast(0, u.total - u.system) + TokensPerCredit - 1) \div TokensPerCredit)

\* Slip: the words of the refund bucket, not those of the source.
BucketOf(left) == IF left > 0 THEN "free" ELSE "paid"

\* Which balance funded a reservation, from the allowance left after it.
FundingSourceOf(left) == IF left > 0 THEN "free_allowance" ELSE "paid_balance"

-----------------------------------------------------------------------------
(* The balance row, one statement each.                                    *)

\* Slip: the WHERE clause without the total.
AlwaysAffords(n) == free + n >= 0

Affords(n) == free + paid >= n

SpendFreeFirst(n) ==
    /\ Affords(n)
    /\ free' = AtLeast(0, free - n)
    /\ paid' = paid - AtLeast(0, n - free)

\* Slip: everything given back goes to the allowance.
AlwaysFree(h) == IF hold[h].state = "none" THEN "paid" ELSE "free"

RefundBucket(h) == IF hold[h].source = "paid_balance" THEN "paid" ELSE "free"

AddCredits(n, bucket) ==
    /\ free' = IF bucket = "free" THEN free + n ELSE free
    /\ paid' = IF bucket = "paid" THEN paid + n ELSE paid

ZeroCredits == free' = 0 /\ paid' = 0

-----------------------------------------------------------------------------
(* The hold leaves the open state.                                         *)

FromBalance(h) == hold[h].source # "product_allowance"

\* Slip: the operation records the price, whatever was moved.
PriceAsMoved(h, price) == IF hold[h].amount > 0 THEN price ELSE 0

\* reserved + before - remaining: what the settlement moved.
Moved(h, price) == hold[h].amount + (free + paid) - (free' + paid')

CloseHold(h, state, price, charge, took, u) ==
    hold' = [hold EXCEPT ![h].state = state, ![h].asked = price, ![h].charge = charge,
                         ![h].took = took, ![h].usage = u, ![h].short = 0]

Release(h, charge) ==
    /\ held' = held - hold[h].amount
    /\ heldPaid' = heldPaid - (IF hold[h].source = "paid_balance" THEN hold[h].amount ELSE 0)
    /\ charged' = charged + charge
    /\ UNCHANGED <<purchases, purchased, granted, exhausted>>

Answer(h, c) == answers' = [answers EXCEPT ![h] = @ \cup {c}]

-----------------------------------------------------------------------------
(* Reserving.                                                              *)

\* reserveCredits when the balance covers it; with an admission the operation
\* row is inserted in the transaction of the spend.
Reserve(h, n) ==
    /\ hold[h].state = "none"
    /\ SpendFreeFirst(n)
    /\ hold' = [hold EXCEPT ![h] = Unsettled("open", n, FundingSourceOf(free'), NoGrant)]
    /\ held' = held + n
    /\ heldPaid' = heldPaid + (IF free' > 0 THEN 0 ELSE n)
    /\ exhausted' = exhausted + (IF free > 0 /\ free' = 0 THEN 1 ELSE 0)
    /\ UNCHANGED <<due, alloc, grant, purchases, purchased, granted, charged, answers>>

Room(g) == Included[g] - alloc[g].consumed - alloc[g].reserved

\* Slip: quota other holds have reserved is handed out again.
UnconsumedOf(g) == Included[g] - alloc[g].consumed

\* What an authorised settlement may take beyond its reservation.
Available(g) == Room(g)

\* reserveCredits when the balance does not cover it and the caller brought a
\* product snapshot: every allocation but the selected grant's is deactivated,
\* also when the quota has no room and the reservation is refused.
ReserveProduct(h, n) ==
    /\ hold[h].state = "none"
    /\ h \in Tracked
    /\ ~Affords(n)
    /\ LET granting(g) == g = grant /\ Room(g) >= n
       IN /\ alloc' = [g \in Grants |->
                          [active   |-> g = grant,
                           reserved |-> alloc[g].reserved + (IF granting(g) THEN n ELSE 0),
                           consumed |-> alloc[g].consumed]]
          /\ hold' = IF \E g \in Grants : granting(g)
                     THEN [hold EXCEPT ![h] = Unsettled("open", n, "product_allowance", grant)]
                     ELSE hold
    /\ UNCHANGED <<balance, due, grant, history>>

-----------------------------------------------------------------------------
(* Settling.                                                               *)

\* A hold to settle or refund; no transaction that holds its operation row's
\* lock is between two statements.
Settleable(h) == hold[h].state = "open" /\ hold[h].short = 0

\* _adjustReservation when one statement suffices.
AdjustOnce(h, price) ==
    \/ /\ price <= hold[h].amount
       /\ AddCredits(hold[h].amount - price, RefundBucket(h))
    \/ /\ price > hold[h].amount
       /\ SpendFreeFirst(price - hold[h].amount)

TooShort(h, price) == price > hold[h].amount /\ ~Affords(price - hold[h].amount)

\* _adjustReservation's first statement matched nothing: the second one, which
\* empties the balance, is still to come.
FindShort(h, price, u) ==
    /\ TooShort(h, price)
    /\ hold' = [hold EXCEPT ![h].short = price, ![h].usage = u]
    /\ UNCHANGED <<balance, due, alloc, grant, history>>

\* Slip: settleTrackedReservation without the lock on the balance row.
SettleUnlocked(h, u) ==
    /\ h \in Tracked \ FixedPriced
    /\ Settleable(h)
    /\ FromBalance(h)
    /\ LET price == Needed(u) IN
       \/ /\ AdjustOnce(h, price)
          /\ CloseHold(h, "settled", price, price, price, u)
          /\ Release(h, price)
          /\ Answer(h, price)
          /\ UNCHANGED <<due, alloc, grant>>
       \/ FindShort(h, price, u)

\* settleTrackedReservation: the balance row is locked before it is read, so
\* both statements of a short settlement are one step.
SettleTracked(h, u) ==
    /\ h \in Tracked \ FixedPriced
    /\ Settleable(h)
    /\ FromBalance(h)
    /\ LET price == Needed(u) IN
       /\ \/ AdjustOnce(h, price)
          \/ TooShort(h, price) /\ ZeroCredits
       /\ CloseHold(h, "settled", price, Moved(h, price), Moved(h, price), u)
       /\ Release(h, Moved(h, price))
       /\ Answer(h, price)
    /\ UNCHANGED <<due, alloc, grant>>

\* finalizeFixedCredits, and finalizeCredits of an untracked hold: the charge
\* recorded and returned is the price.
SettleUnlockedAt(h, price, u) ==
    /\ Settleable(h)
    /\ FromBalance(h)
    /\ \/ /\ AdjustOnce(h, price)
          /\ CloseHold(h, "settled", price, price, price, u)
          /\ Release(h, price)
          /\ Answer(h, price)
          /\ UNCHANGED <<due, alloc, grant>>
       \/ FindShort(h, price, u)

SettleUntracked(h, u) == h \notin Tracked /\ h \notin FixedPriced /\ SettleUnlockedAt(h, Needed(u), u)

SettleFixed(h, p) == h \in FixedPriced /\ SettleUnlockedAt(h, AtLeast(MinCredits, p), NoUsage)

\* The second statement: by now the balance may be another one.
EmptyBalance(h) ==
    /\ hold[h].short > 0
    /\ ZeroCredits
    /\ CloseHold(h, "settled", hold[h].short, hold[h].short,
                 hold[h].amount + free + paid, hold[h].usage)
    /\ Release(h, hold[h].short)
    /\ Answer(h, hold[h].short)
    /\ UNCHANGED <<due, alloc, grant>>

\* The process dies between them: a transaction rolls back, an untracked hold
\* is as unsettled as before.
AbandonShort(h) ==
    /\ hold[h].short > 0
    /\ hold' = [hold EXCEPT ![h].short = 0, ![h].usage = NoUsage]
    /\ UNCHANGED <<balance, due, alloc, grant, history>>

\* settleProductCreditAllocation.  The refreshed snapshot may be missing.
SettleProduct(h, price, u) ==
    /\ Settleable(h)
    /\ ~FromBalance(h)
    /\ LET g == hold[h].of
           n == hold[h].amount
       IN \E fresh \in BOOLEAN :
          LET beyond == IF fresh /\ grant = g /\ alloc[g].active THEN Available(g) ELSE 0
              charge == IF price <= n + beyond THEN price ELSE n + beyond
          IN /\ alloc[g].reserved >= n
             /\ alloc' = [alloc EXCEPT ![g].reserved = @ - n, ![g].consumed = @ + charge]
             /\ CloseHold(h, "settled", price, charge, charge, u)
             /\ Answer(h, charge)
    /\ UNCHANGED <<balance, due, grant, purchases, purchased, granted, held, heldPaid,
                   charged, exhausted>>

\* Both finalizers of a hold the product quota funds.
SettleProductTokens(h, u) == h \notin FixedPriced /\ SettleProduct(h, Needed(u), u)
SettleProductFixed(h, p)  == h \in FixedPriced /\ SettleProduct(h, AtLeast(MinCredits, p), NoUsage)

\* Slip: the replay answers what the settlement moved.
AnswerMoved(h) == hold[h].charge

\* What the replay of a settlement by tokens answers.
ReplayAnswer(h) == IF FromBalance(h) THEN hold[h].asked ELSE hold[h].charge

\* A settlement repeated with the usage of the first is answered from the
\* operation row; with another usage it throws, as does one of a refunded row.
ReplayTracked(h, u) ==
    /\ h \in Tracked
    /\ hold[h].state = "settled"
    /\ hold[h].usage = u
    /\ Answer(h, ReplayAnswer(h))
    /\ UNCHANGED <<balance, due, hold, alloc, grant, purchases, purchased, granted, held,
                   heldPaid, charged, exhausted>>

ReplayFixed(h, p) ==
    /\ h \in Tracked
    /\ hold[h].state = "settled"
    /\ hold[h].usage = NoUsage
    /\ hold[h].asked = AtLeast(MinCredits, p)
    /\ Answer(h, hold[h].charge)
    /\ UNCHANGED <<balance, due, hold, alloc, grant, purchases, purchased, granted, held,
                   heldPaid, charged, exhausted>>

-----------------------------------------------------------------------------
(* Refunding.                                                              *)

\* Slip: the operation row's status is not looked at.
RefundAnyStatus(h) ==
    /\ hold[h].state # "none"
    /\ FromBalance(h)
    /\ AddCredits(hold[h].amount, RefundBucket(h))
    /\ CloseHold(h, "refunded", 0, 0, 0, NoUsage)
    /\ Release(h, 0)
    /\ UNCHANGED <<due, alloc, grant, answers>>

\* refundReservation; of a tracked hold only while it is admitted.
Refund(h) ==
    /\ Settleable(h)
    /\ FromBalance(h)
    /\ AddCredits(hold[h].amount, RefundBucket(h))
    /\ CloseHold(h, "refunded", 0, 0, 0, NoUsage)
    /\ Release(h, 0)
    /\ UNCHANGED <<due, alloc, grant, answers>>

\* Slip: the operation is closed, its quota stays reserved.
RefundKeepsQuota(h) ==
    /\ Settleable(h)
    /\ ~FromBalance(h)
    /\ CloseHold(h, "refunded", 0, 0, 0, NoUsage)
    /\ UNCHANGED <<balance, due, alloc, grant, history>>

RefundProduct(h) ==
    /\ Settleable(h)
    /\ ~FromBalance(h)
    /\ alloc[hold[h].of].reserved >= hold[h].amount
    /\ alloc' = [alloc EXCEPT ![hold[h].of].reserved = @ - hold[h].amount]
    /\ CloseHold(h, "refunded", 0, 0, 0, NoUsage)
    /\ UNCHANGED <<balance, due, grant, history>>

-----------------------------------------------------------------------------
(* What else happens to the account.                                       *)

\* A purchase, a subscription period or a referral reward.
Purchase(n) ==
    /\ purchases < MaxPurchases
    /\ AddCredits(n, "paid")
    /\ purchases' = purchases + 1
    /\ purchased' = purchased + n
    /\ granted' = granted + n
    /\ UNCHANGED <<due, hold, alloc, grant, held, heldPaid, charged, exhausted, answers>>

\* refreshFreeCreditsIfDue: an assignment, not an increment.
Refresh ==
    /\ due
    /\ due' = FALSE
    /\ free' = FreeLimit
    /\ granted' = granted + (FreeLimit - free)
    /\ exhausted' = 0
    /\ UNCHANGED <<paid, hold, alloc, grant, purchases, purchased, held, heldPaid,
                   charged, answers>>

DayPasses ==
    /\ ~due
    /\ due' = TRUE
    /\ UNCHANGED <<balance, hold, alloc, grant, history>>

\* Oxy renews, ends or revokes the grant.
GrantChanges ==
    /\ grant' \in Grants \cup {NoGrant}
    /\ grant' # grant
    /\ UNCHANGED <<balance, due, hold, alloc, history>>

-----------------------------------------------------------------------------
HoldStep(h) ==
    \/ \E n \in Amounts : Reserve(h, n) \/ ReserveProduct(h, n)
    \/ \E u \in Usages :
           \/ SettleTracked(h, u) \/ SettleUntracked(h, u)
           \/ SettleProductTokens(h, u) \/ ReplayTracked(h, u)
    \/ \E p \in Prices : SettleFixed(h, p) \/ SettleProductFixed(h, p) \/ ReplayFixed(h, p)
    \/ EmptyBalance(h) \/ AbandonShort(h)
    \/ Refund(h) \/ RefundProduct(h)

Next ==
    \/ \E h \in Holds : HoldStep(h)
    \/ \E n \in Purchases : Purchase(n)
    \/ Refresh \/ DayPasses \/ GrantChanges

Spec == Init /\ [][Next]_vars

-----------------------------------------------------------------------------
(* Properties.                                                             *)

HoldType == [state : States, amount : Nat, source : Sources, of : Grants \cup {NoGrant},
             asked : Nat, charge : Int, took : Int, usage : Usages \cup {NoUsage},
             short : Nat]

TypeOK ==
    /\ free \in Int /\ paid \in Int
    /\ due \in BOOLEAN
    /\ hold \in [Holds -> HoldType]
    /\ \A h \in Holds : ~FromBalance(h) => hold[h].of \in Grants
    /\ alloc \in [Grants -> [active : BOOLEAN, reserved : Int, consumed : Int]]
    /\ grant \in Grants \cup {NoGrant}
    /\ purchases \in Nat /\ purchased \in Nat /\ granted \in Int
    /\ held \in Int /\ heldPaid \in Int /\ charged \in Int /\ exhausted \in Nat
    /\ answers \in [Holds -> SUBSET Int]

\* Neither bucket is ever overdrawn, however reservations, extra charges,
\* emptied balances and refunds interleave (userCreditsRepository.ts:10-18).
NoOverdraft == free >= 0 /\ paid >= 0

OpenOnBalance == {h \in Holds : hold[h].state = "open" /\ FromBalance(h)}
PaidFromBalance == {h \in Holds : hold[h].state = "settled" /\ FromBalance(h)}

AmountOf(h) == hold[h].amount
ChargeOf(h) == hold[h].charge

\* The operation rows explain the balance to the credit: whatever was granted is
\* in the buckets, held by an open operation, or recorded as charged by a
\* settled one.  It is what a recorded charge means when holds settle as
\* settleTrackedReservation settles them (credits-manager.ts:781-785).
LedgerExplainsBalance == free + paid + held + charged = granted

\* The same with the totals taken from the rows themselves.
RowsExplainBalance ==
    /\ LedgerExplainsBalance
    /\ held = MapThenSumSet(AmountOf, OpenOnBalance)
    /\ charged = MapThenSumSet(ChargeOf, PaidFromBalance)

\* A purchased credit is never lost: it is in the durable bucket, in an open
\* hold that will return it there, or it paid a recorded charge.  No order of
\* refunds and allowance refreshes confiscates it (credits-manager.ts:538-551).
PurchasedNeverLost == purchased <= paid + heldPaid + charged

\* A settlement takes what its price asks for or, from an account that cannot
\* cover it, less; never more ("If actual usage > reserved: deduct more",
\* credits-manager.ts:360).
TakesAtMostPrice == \A h \in Holds : hold[h].state = "settled" => hold[h].took <= hold[h].asked

\* What a settlement reports as charged is what it took from the account
\* ("`creditsCharged` is what was SETTLED", credits-manager.ts:423).
ReportedIsTaken == \A h \in Holds : hold[h].state = "settled" => answers[h] \subseteq {hold[h].took}

\* However often a settlement is repeated, by a retry or a recovery, its
\* callers are told one charge.
RepliesAgree == \A h \in Holds : Cardinality(answers[h]) <= 1

\* A terminal hold is never settled, refunded or repriced again.
TerminalForGood ==
    [][\A h \in Holds : hold[h].state \in {"settled", "refunded"} => hold'[h] = hold[h]]_vars

\* A grant is never handed out beyond what it includes, whatever settlements
\* take on top of their reservations and whenever the grant ends.
QuotaNeverExceeded ==
    \A g \in Grants :
        /\ alloc[g].reserved >= 0
        /\ alloc[g].consumed + alloc[g].reserved <= Included[g]

FundedBy(g, state) ==
    {h \in Holds : hold[h].source = "product_allowance" /\ hold[h].of = g /\ hold[h].state = state}

\* The quota reserved on a grant is what its open holds reserved, the quota
\* consumed what its settled ones were charged: a settlement always finds its
\* own reservation (product-credit-allocations.ts:173).
QuotaExplained ==
    \A g \in Grants :
        /\ alloc[g].reserved = MapThenSumSet(AmountOf, FundedBy(g, "open"))
        /\ alloc[g].consumed = MapThenSumSet(ChargeOf, FundedBy(g, "settled"))

\* "The exhausting request reads as `paid_balance` ... That is one request per
\* account per allowance refresh" (domain/credit-funding.ts:25-29).
OneExhaustingRequest == exhausted <= 1

=============================================================================
