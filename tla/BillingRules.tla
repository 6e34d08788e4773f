---------------------------- MODULE BillingRules ----------------------------
(***************************************************************************)
(* The arithmetic of src/backend/src/billing: the monthly accruals of a    *)
(* contract, the FIFO allocation of money, the daily penalty and the       *)
(* chronological replay of the payment history.  Everything here is an     *)
(* operator of a contract record c (the rows the database holds for one    *)
(* contract); ContractLedger gives c its behaviour.                        *)
(*                                                                         *)
(* Data abstraction.  Money is a natural number of kopecks; rent and       *)
(* utilities are one amount.  A month has MonthLen days.  A day has three  *)
(* instants: UTC midnight (what a date picker sends), daytime, and the     *)
(* evening that is already the next day in Moscow.                         *)
(***************************************************************************)
EXTENDS Integers, Sequences, SequencesExt

CONSTANTS
    MonthLen,        \* days in a month
    PenaltyDay,      \* PENALTY_START_DAY: 10th of the next month in the code
    MonthlyAmount,   \* terms.rentAmount + terms.utilitiesAmount; 0: daily-only room
    DailyRate,       \* terms.dailyRateAmount
    RateNum, RateDen,\* PENALTY_DAILY_RATE = RateNum / RateDen
    StartDate, EndDate,
    ConventionalEnds,\* days that close their month early (30 August)
    MatCapital,      \* [from, to, until]: months covered by maternity capital
    SameDayReversed, \* how the engine's sort leaves two payments of one day
    None

ASSUME NoneAssumption == None \notin Int
ASSUME OrderAssumption == SameDayReversed \in BOOLEAN

ASSUME CalendarAssumption ==
    /\ MonthLen \in Nat \ {0} /\ PenaltyDay \in 1..MonthLen
    /\ StartDate \in Nat /\ EndDate \in Nat /\ StartDate <= EndDate
    /\ ConventionalEnds \subseteq Nat
ASSUME RateAssumption ==
    /\ MonthlyAmount \in Nat /\ DailyRate \in Nat
    /\ RateNum \in Nat /\ RateDen \in Nat \ {0}

-----------------------------------------------------------------------------
(* Time *)

SlotsPerDay == 3
UtcDay(t) == t \div SlotsPerDay              \* dateOnly
MoscowDay(t) == (t + 1) \div SlotsPerDay     \* moscowDateOnly
Midnight(d) == SlotsPerDay * d               \* a date used as an instant

MonthOf(d) == d \div MonthLen
MonthStart(d) == MonthLen * MonthOf(d)
MonthEnd(d) == MonthStart(d) + MonthLen - 1

-----------------------------------------------------------------------------
(* Accruals *)

\* generateMonthlyPeriods: the months the contract touches, cut at its ends.
Periods ==
    [i \in 1..(MonthOf(EndDate) - MonthOf(StartDate) + 1) |->
        LET first == MonthLen * (MonthOf(StartDate) + i - 1)
        IN  [start |-> Max({StartDate, first}),
             end   |-> Min({EndDate, MonthEnd(first)})]]

IsFullMonth(p) ==
    p.start = MonthStart(p.start) /\ p.end \in {MonthEnd(p.start)} \cup ConventionalEnds

DailyOnly == MonthlyAmount = 0

\* computeAccrualAmounts / computeDailyOnlyAccrualAmount
AmountFor(days, full) ==
    IF DailyOnly THEN DailyRate * days
    ELSE IF full THEN MonthlyAmount
    ELSE Min({DailyRate * days, MonthlyAmount})

Days(p) == p.end - p.start + 1

\* buildAccrualsForContract, with what buildAccrualPenaltyCalcs derives from
\* each row that never changes afterwards.
Accrual ==
    [i \in DOMAIN Periods |->
        LET p == Periods[i]
        IN  [start       |-> p.start,
             end         |-> p.end,
             charge      |-> AmountFor(Days(p), IsFullMonth(p)),
             daily       |-> DailyOnly \/ ~IsFullMonth(p),
             exempt      |-> MatCapital.from <= p.start /\ p.start <= MatCapital.to,
             penaltyFrom |-> MonthLen * (MonthOf(p.start) + 1) + PenaltyDay - 1]]

AccrualIds == DOMAIN Periods
NoAllocation == [i \in AccrualIds |-> 0]

Total(c, i) == Accrual[i].charge + c.adj[i]
Live(c) == {i \in AccrualIds : ~c.voided[i]}

-----------------------------------------------------------------------------
(* Payments and allocations.  A payment keeps its allocation rows:          *)
(* alloc[i] is the amount of the row for accrual i, 0 when there is none.   *)

Active(c) == {p \in DOMAIN c.payments : ~c.payments[p].reversed}

SumOver(f, S) == SumFunctionOnSet(f, S)

AllocTo(c, i) == [p \in DOMAIN c.payments |-> c.payments[p].alloc[i]]
PaidSums(c) == [p \in DOMAIN c.payments |-> c.payments[p].amount]
Penalties(c) == [p \in DOMAIN c.payments |-> c.payments[p].penalty]
RefundSums(c) == [r \in DOMAIN c.refunds |-> c.refunds[r].amount]

Allocated(c, i) == SumOver(AllocTo(c, i), DOMAIN c.payments)
AllocatedTotal(c) == SumOver([i \in AccrualIds |-> Allocated(c, i)], AccrualIds)
Received(c) == SumOver(PaidSums(c), Active(c))
PenaltyPaid(c) == SumOver(Penalties(c), Active(c))
Refunded(c) == SumOver(RefundSums(c), DOMAIN c.refunds)

Room(c, i) == Max({Total(c, i) - Allocated(c, i), 0})

Left(room, S, money) == Max({money - SumOver(room, S), 0})

\* Money poured into the accruals S in their order.
Pour(room, S, money) == [i \in S |-> Min({room[i], Left(room, {j \in S : j < i}, money)})]

\* Mutant: money goes to the latest accrual first.
PourNewestFirst(room, S, money) ==
    [i \in S |-> Min({room[i], Left(room, {j \in S : j > i}, money)})]

\* The rows of f, and those of g that f has none for.
Merged(f, g) ==
    [x \in DOMAIN f \cup DOMAIN g |-> IF x \in DOMAIN f THEN f[x] ELSE g[x]]

PlanOf(alloc, penalty, credit) ==
    [alloc   |-> [i \in AccrualIds |-> IF i \in DOMAIN alloc THEN alloc[i] ELSE 0],
     penalty |-> penalty,
     credit  |-> credit]

PlanLater(room, later, due, left, penalty) ==
    PlanOf(Merged(due, Pour(room, later, left - penalty)), penalty,
           Left(room, later, left - penalty))

PlanDue(room, due, later, money, owed) ==
    PlanLater(room, later, Pour(room, due, money), Left(room, due, money),
              Min({Left(room, due, money), Max({owed, 0})}))

DueOn(c, day) == {i \in Live(c) : Accrual[i].start <= day}
RoomOf(c) == [i \in AccrualIds |-> Room(c, i)]

\* Mutant: money goes to the latest accrual first.
FifoPlanNewestFirst(c, day, money, owed) ==
    PlanOf(PourNewestFirst(RoomOf(c), Live(c), money), 0, Left(RoomOf(c), Live(c), money))

\* Mutant: the remainder is not clamped at zero.
FifoPlanOverdraws(c, day, money, owed) ==
    [PlanDue(RoomOf(c), DueOn(c, day), Live(c) \ DueOn(c, day), money, owed)
        EXCEPT !.credit = money - SumOver(RoomOf(c), Live(c))]

\* The FIFO waterfall shared by allocatePaymentFifo and the replay: accruals
\* already started on `day`, then the penalty owed, then later accruals; the
\* rest is the contract's credit.
FifoPlan(c, day, money, owed) ==
    PlanDue(RoomOf(c), DueOn(c, day), Live(c) \ DueOn(c, day), money, owed)

\* isPartial of each allocation row
PartialRows(c, alloc) == {i \in AccrualIds : alloc[i] > 0 /\ alloc[i] < Total(c, i)}

-----------------------------------------------------------------------------
(* Penalty.  The journal is a function from the days that have a row.       *)

JournalSum(c, asOf) == SumOver(c.log, {d \in DOMAIN c.log : d <= asOf})

\* computePenaltyBalance: payments made after midnight of asOf do not count.
PenaltyBalance(c, asOf) ==
    JournalSum(c, asOf)
      - SumOver(Penalties(c), {p \in Active(c) : c.payments[p].at <= Midnight(asOf)})

\* What is left of each accrual once the day's payments are in.
PaidBy(c, day) == {p \in Active(c) : MoscowDay(c.payments[p].at) <= day}

LeftOn(c, day) ==
    [i \in AccrualIds |-> Total(c, i) - SumOver(AllocTo(c, i), PaidBy(c, day))]

OverdueOf(c, day, left) ==
    SumOver([i \in AccrualIds |-> IF Accrual[i].daily THEN left[i] ELSE Total(c, i)],
            {i \in Live(c) :
                /\ day >= Accrual[i].penaltyFrom
                /\ ~(Accrual[i].exempt /\ day <= MatCapital.until)
                /\ left[i] > 0})

\* overdueSumOnDay: a part month owes on what is left, a full month on its
\* whole charge until it is paid up.
OverdueSum(c, day) == OverdueOf(c, day, LeftOn(c, day))

\* times(PENALTY_DAILY_RATE).toDecimalPlaces(2), half up
DailyPenalty(base) == (2 * base * RateNum + RateDen) \div (2 * RateDen)

PenaltyStart(c) ==
    IF Live(c) = {} THEN None ELSE Min({Accrual[i].penaltyFrom : i \in Live(c)})

\* The last day penalties accrue on.
PenaltyEnd(c, today) ==
    IF c.status # "TERMINATED" THEN today
    ELSE IF c.actualEnd = None THEN StartDate - 1
    ELSE Min({c.actualEnd, today})

\* Journal rows for the days from..to, from the allocations as they are in c.
Rows(c, from, to) ==
    LET owed == [d \in from..to |-> OverdueSum(c, d)]
    IN  [d \in {x \in from..to : owed[x] > 0} |-> DailyPenalty(owed[d])]

\* The days penalties accrue on, none for a contract without accruals.
PenaltyDays(start, end) == IF start = None THEN {} ELSE start..end

\* The whole journal computed afresh, as recalculatePenaltyInTransaction does.
FreshJournal(c, today) ==
    IF Live(c) = {} THEN Rows(c, 1, 0)
    ELSE Rows(c, PenaltyStart(c), PenaltyEnd(c, today))

-----------------------------------------------------------------------------
(* The chronological replay, reconcilePaymentHistoryInTransaction           *)

\* Payments and refunds by Moscow day, payments first within a day.
EventBefore(c, a, b) ==
    LET dayOf(e) == IF e.kind = "payment" THEN MoscowDay(c.payments[e.id].at)
                                          ELSE c.refunds[e.id].day
        byTime   == LET ta == c.payments[a.id].at
                        tb == c.payments[b.id].at
                    IN  ta < tb \/ (ta = tb /\ a.id < b.id)
    IN  IF dayOf(a) # dayOf(b) THEN dayOf(a) < dayOf(b)
        ELSE IF a.kind # b.kind THEN a.kind = "payment"
        ELSE IF a.kind = "refund" THEN a.id < b.id
        ELSE byTime # SameDayReversed

Events(c) ==
    [kind : {"payment"}, id : Active(c)] \cup [kind : {"refund"}, id : DOMAIN c.refunds]

Latest(c, S) == CHOOSE e \in S : \A o \in S \ {e} : EventBefore(c, o, e)

\* The penalty accrued from the first day to the eve of the day.
AccruedBefore(c, day, today) ==
    LET days == PenaltyDays(PenaltyStart(c), Min({day - 1, PenaltyEnd(c, today)}))
    IN  SumOver([d \in days |-> DailyPenalty(OverdueSum(c, d))], days)

\* What the replay reads: the history without what it is about to decide.
History(c) ==
    [c EXCEPT !.payments = [p \in DOMAIN c.payments |->
                  [c.payments[p] EXCEPT !.alloc = NoAllocation, !.partial = {}, !.penalty = 0,
                                        !.website = FALSE, !.synced = FALSE]],
              !.log = <<>>, !.credit = 0, !.through = None, !.pending = FALSE]

Replayed(s, p, plan) ==
    [c |-> [s.c EXCEPT !.payments[p] =
               [@ EXCEPT !.alloc = plan.alloc, !.partial = PartialRows(s.c, plan.alloc),
                         !.penalty = plan.penalty]],
     penaltyPaid |-> s.penaltyPaid + plan.penalty,
     credit |-> plan.credit,
     overdrawn |-> s.overdrawn]

\* Mutant: the penalty earlier payments have paid is owed again.
ReplayPaymentForgetsPenalty(s, p, day, today) ==
    Replayed(s, p, FifoPlan(s.c, day, s.c.payments[p].amount + s.credit,
                            AccruedBefore(s.c, day, today)))

\* One payment of the replay, on its Moscow day.  s.c is the contract with the
\* payments replayed so far; penalties accrue up to the eve of the payment.
ReplayPayment(s, p, day, today) ==
    Replayed(s, p, FifoPlan(s.c, day, s.c.payments[p].amount + s.credit,
                            IF day > today THEN 0
                            ELSE AccruedBefore(s.c, day, today) - s.penaltyPaid))

\* One refund: the credit collected so far has to cover it.
ReplayRefund(s, r) ==
    [s EXCEPT !.credit = @ - s.c.refunds[r].amount,
              !.overdrawn = @ \/ s.credit < s.c.refunds[r].amount]

ReplayEvent(s, e, today) ==
    IF e.kind = "payment" THEN ReplayPayment(s, e.id, MoscowDay(s.c.payments[e.id].at), today)
                          ELSE ReplayRefund(s, e.id)

\* The history h replayed, its latest event last.
ReplayOf(h, today) ==
    LET after[S \in SUBSET Events(h)] ==
            IF S = {}
            THEN [c |-> h, penaltyPaid |-> 0, credit |-> 0, overdrawn |-> FALSE]
            ELSE ReplayEvent(after[S \ {Latest(h, S)}], Latest(h, S), today)
    IN  after[Events(h)]

Replay(c, today) == ReplayOf(History(c), today)

\* Payments whose allocation or penalty the replay r changes.
Reallocated(c, r) ==
    {p \in Active(c) : \/ c.payments[p].alloc # r.c.payments[p].alloc
                       \/ c.payments[p].partial # r.c.payments[p].partial
                       \/ c.payments[p].penalty # r.c.payments[p].penalty}

Changes(c, r) == Reallocated(c, r) # {} \/ r.credit # c.credit

ReplayChanges(c, today) == Changes(c, Replay(c, today))

\* Mutant: payments accounting has seen are reallocated like any other.
RefusesOverdraftOnly(c, r) == r.overdrawn

\* The two errors the replay throws; both roll the transaction back.
Refuses(c, r) ==
    \/ r.overdrawn
    \/ \E p \in Reallocated(c, r) : c.payments[p].website /\ c.payments[p].synced

ReplayRefused(c, today) == Refuses(c, Replay(c, today))

\* The rows of a payment that is not reversed, as the replay r has them.
Rewritten(c, r) ==
    [p \in DOMAIN c.payments |->
        IF p \in Active(c)
        THEN [c.payments[p] EXCEPT !.alloc = r.c.payments[p].alloc,
                                   !.partial = r.c.payments[p].partial,
                                   !.penalty = r.c.payments[p].penalty]
        ELSE c.payments[p]]

\* The rows after a replay that is not refused.
Applied(c, r) ==
    IF Changes(c, r) THEN [c EXCEPT !.payments = Rewritten(c, r), !.credit = r.credit] ELSE c

ApplyReplay(c, today) == Applied(c, Replay(c, today))

=============================================================================
