--------------------------- MODULE ContractLedger ---------------------------
(***************************************************************************)
(* The money of one rental contract: the rows of the tables contracts,     *)
(* accruals, payments, payment_allocations, contract_refunds and           *)
(* penalty_accrual_logs that belong to it, and every operation of          *)
(* src/backend/src that changes them.                                      *)
(*                                                                         *)
(* A database transaction is one step, except for the nightly accrual,     *)
(* which reads the contracts outside the transaction it commits in.        *)
(* LedgerTransactions takes the other transactions apart.                  *)
(***************************************************************************)
EXTENDS RefundRules

CONSTANTS
    FirstDay,        \* the day the behaviour starts on
    Horizon,         \* bound: the last day of the clock
    Amounts,         \* amounts of the payments staff enter
    OnlineAmounts,   \* amounts residents pay online
    BackDates,       \* bound: past and future days staff give a payment
    AllowFuture,     \* staff may enter a payment dated in the future
    RefundAmounts,
    RefundDays,
    LeaveDays,       \* actual end dates given to a termination
    MaxPayments, MaxRefunds, MaxReversals,
    NightOverlap,    \* a recalculation may run during the nightly accrual
    NightMissable    \* the server may be down at 02:00

ASSUME BoundsAssumption ==
    /\ FirstDay \in Nat /\ Horizon \in Nat
    /\ Amounts \subseteq Nat \ {0} /\ OnlineAmounts \subseteq Nat \ {0}
    /\ RefundAmounts \subseteq Nat \ {0}
    /\ LeaveDays \subseteq StartDate..EndDate
    /\ BackDates \subseteq Nat /\ RefundDays \subseteq Nat
    /\ AllowFuture \in BOOLEAN /\ NightOverlap \in BOOLEAN /\ NightMissable \in BOOLEAN
    /\ MaxPayments \in Nat /\ MaxRefunds \in Nat /\ MaxReversals \in Nat

VARIABLES
    now,       \* the clock, an instant
    contract,  \* the rows of the contract, as BillingRules describes them
    night      \* what the nightly accrual has read, or None

vars == <<now, contract, night>>

Today == MoscowDay(now)                     \* moscowDateOnly(new Date())

EarlyMorning == now % SlotsPerDay = 2       \* the slot of the 00:30-02:30 jobs

PaymentType ==
    [amount : Amounts \cup OnlineAmounts, at : Nat, penalty : Nat, alloc : [AccrualIds -> Nat],
     partial : SUBSET AccrualIds, reversed : BOOLEAN,
     website : BOOLEAN, synced : BOOLEAN]

RefundType ==
    [amount : RefundAmounts, credit : Nat, adjustment : Nat,
     accrual : AccrualIds \cup {None}, day : Nat]

TypeOK ==
    /\ now \in Nat
    /\ \A p \in DOMAIN contract.payments : contract.payments[p] \in PaymentType
    /\ \A r \in DOMAIN contract.refunds : contract.refunds[r] \in RefundType
    /\ contract.adj \in [AccrualIds -> Int]
    /\ contract.voided \in [AccrualIds -> BOOLEAN]
    /\ \A d \in DOMAIN contract.log : d \in Nat /\ contract.log[d] \in Nat
    /\ contract.credit \in Nat
    /\ contract.through \in Nat \cup {None}
    /\ contract.pending \in BOOLEAN
    /\ contract.status \in {"ACTIVE", "TERMINATED"}
    /\ contract.actualEnd \in Nat \cup {None}
    /\ night = None \/ \A d \in DOMAIN night.rows : d \in Nat /\ night.rows[d] \in Nat

NewContract ==
    [payments |-> <<>>, refunds |-> <<>>,
     adj |-> [i \in AccrualIds |-> 0], voided |-> [i \in AccrualIds |-> FALSE],
     log |-> <<>>, credit |-> 0, through |-> None, pending |-> FALSE,
     status |-> "ACTIVE", actualEnd |-> None]

Init ==
    /\ now = Midnight(FirstDay) + 1
    /\ contract = NewContract
    /\ night = None

-----------------------------------------------------------------------------
(* Payments *)

\* Mutant: a payment of today is not historical.
FlaggedBeforeToday(c, at) == [c EXCEPT !.pending = @ \/ MoscowDay(at) < Today]

\* flagHistoricalPenaltyRecalculation
Flagged(c, at) == [c EXCEPT !.pending = @ \/ MoscowDay(at) <= Today]

\* The payment row, allocatePaymentFifo and the flag, in one transaction.
WithPlan(c, amount, at, website, plan) ==
    Flagged([c EXCEPT !.credit = plan.credit,
                      !.payments = Append(@,
                         [amount |-> amount, at |-> at, penalty |-> plan.penalty,
                          alloc |-> plan.alloc, partial |-> PartialRows(c, plan.alloc),
                          reversed |-> FALSE, website |-> website, synced |-> FALSE])], at)

WithPayment(c, amount, at, website) ==
    WithPlan(c, amount, at, website,
             FifoPlan(c, UtcDay(at), amount + c.credit, PenaltyBalance(c, UtcDay(at))))

\* The dates a payment can carry: now, or a day picked in the calendar.
PaymentDates ==
    {now} \cup {t \in {Midnight(d) : d \in BackDates} : t <= now \/ AllowFuture}

\* createPayment by staff, or the approval of an imported payment.
CreatePayment ==
    /\ Len(contract.payments) < MaxPayments
    /\ \E amount \in Amounts, at \in PaymentDates :
          contract' = WithPayment(contract, amount, at, FALSE)
    /\ UNCHANGED <<now, night>>

\* reconcileBankStatus: the bank confirms an online payment.
ReceiveOnlinePayment ==
    /\ Len(contract.payments) < MaxPayments
    /\ \E amount \in OnlineAmounts : contract' = WithPayment(contract, amount, now, TRUE)
    /\ UNCHANGED <<now, night>>

\* reversePayment drops the allocations and leaves the credit as it is.
ReversePayment ==
    /\ \E p \in Active(contract) :
          /\ Cardinality(DOMAIN contract.payments \ Active(contract)) < MaxReversals
          /\ contract' = Flagged([contract EXCEPT
                            !.payments[p].alloc = NoAllocation,
                            !.payments[p].partial = {},
                            !.payments[p].reversed = TRUE], contract.payments[p].at)
    /\ UNCHANGED <<now, night>>

\* pushPayments: accounting has accepted the payment.
PushPayment ==
    /\ \E p \in Active(contract) :
          /\ contract.payments[p].website /\ ~contract.payments[p].synced
          /\ contract' = [contract EXCEPT !.payments[p].synced = TRUE]
    /\ UNCHANGED <<now, night>>

WithRefund(c, row) == [c EXCEPT !.refunds = Append(@, row), !.credit = @ - row.credit]

CreateRefund ==
    /\ Len(contract.refunds) < MaxRefunds
    /\ \E amount \in RefundAmounts, day \in RefundDays :
          /\ FirstDay <= day /\ day <= Today
          /\ RefundAllowed(contract, amount, day, Today)
          /\ contract' = WithRefund(contract, RefundRow(contract, amount, day, Today))
    /\ UNCHANGED <<now, night>>

-----------------------------------------------------------------------------
(* The chronological reconciliation *)

PaidSoFar(c) == {p \in Active(c) : c.payments[p].at <= now}

\* Penalty is taken back from the latest payments first.
ReleasePenalty(c, sum) ==
    LET after(p) == {q \in PaidSoFar(c) : \/ c.payments[q].at > c.payments[p].at
                                          \/ c.payments[q].at = c.payments[p].at /\ q > p}
        taken(p) == Left(Penalties(c), after(p), sum)
    IN  [c EXCEPT !.credit = @ + sum,
                  !.payments = [p \in DOMAIN c.payments |->
                      IF p \in PaidSoFar(c)
                      THEN [c.payments[p] EXCEPT !.penalty = Max({@ - taken(p), 0})]
                      ELSE c.payments[p]]]

WithJournal(c, today, journal) ==
    ReleasePenalty([c EXCEPT !.log = journal, !.through = today],
        Max({SumOver(Penalties(c), PaidSoFar(c)) - SumOver(journal, DOMAIN journal), 0}))

\* recalculatePenaltyInTransaction
WithFreshJournal(c, today) == WithJournal(c, today, FreshJournal(c, today))

\* Mutant: the journal is rebuilt without replaying the payments.
ReconciledJournalOnly(c) == [WithFreshJournal(c, Today) EXCEPT !.pending = FALSE]

\* reconcileChronologicalPenaltyInTransaction, when nothing is refused.
Reconciled(c) ==
    [WithFreshJournal(ApplyReplay(c, Today), Today) EXCEPT !.pending = FALSE]

\* The 00:30 job for a flagged contract, and the button that runs the same
\* reconciliation at any time.  A refused one rolls back.
ReconcilePending ==
    /\ night = None \/ NightOverlap
    /\ EarlyMorning /\ contract.pending
    /\ ~ReplayRefused(contract, Today)
    /\ contract' = Reconciled(contract)
    /\ UNCHANGED <<now, night>>

RecalculatePenalty ==
    /\ night = None \/ NightOverlap
    /\ ~ReplayRefused(contract, Today)
    /\ contract' = Reconciled(contract)
    /\ UNCHANGED <<now, night>>

\* recalcAccrualsForTermination, with the status written before it.
Shortened(c, day) ==
    LET cut == {i \in Live(c) : Accrual[i].start <= day /\ Accrual[i].end > day}
    IN  [c EXCEPT !.status = "TERMINATED", !.actualEnd = day,
                  !.voided = [i \in AccrualIds |-> @[i] \/ Accrual[i].start > day],
                  !.adj = [i \in AccrualIds |->
                      IF i \in cut
                      THEN AmountFor(day - Accrual[i].start + 1, FALSE) - Accrual[i].charge
                      ELSE @[i]]]

Terminate ==
    /\ contract.status # "TERMINATED"
    /\ \E day \in LeaveDays :
          /\ ~ReplayRefused(Shortened(contract, day), Today)
          /\ contract' = Reconciled(Shortened(contract, day))
    /\ UNCHANGED <<now, night>>

-----------------------------------------------------------------------------
(* The nightly accrual of 02:00 *)

\* Mutant: the day after the last accrued one is skipped.
AccruedThroughNextDay ==
    IF contract.through = None THEN PenaltyStart(contract) - 1 ELSE contract.through + 1

AccruedThrough ==
    IF contract.through = None THEN PenaltyStart(contract) - 1 ELSE contract.through

NightDue ==
    /\ EarlyMorning
    /\ contract.status # "TERMINATED"
    /\ \E i \in Live(contract) : Accrual[i].start <= Today - PenaltyDay
    /\ AccruedThrough < Today

NightRead ==
    /\ NightDue /\ night = None
    /\ night' = [rows |-> Rows(contract, AccruedThrough + 1, Today), today |-> Today]
    /\ UNCHANGED <<now, contract>>

\* Mutant: the status is not checked again when the rows are written.
NightCommitUnchecked ==
    /\ night # None
    /\ contract' = [contract EXCEPT !.through = night.today, !.log = Merged(@, night.rows)]
    /\ night' = None
    /\ UNCHANGED now

\* Rows of days that have one already are skipped (skipDuplicates).
NightCommit ==
    /\ night # None
    /\ contract' = IF contract.status = "TERMINATED" THEN contract
                   ELSE [contract EXCEPT !.through = night.today,
                                         !.log = Merged(@, night.rows)]
    /\ night' = None
    /\ UNCHANGED now

\* The accrual takes seconds: it ends in the slot it began in.
Tick ==
    /\ night = None
    /\ NightDue => NightMissable
    /\ now < Midnight(Horizon) + 1
    /\ now' = now + 1
    /\ UNCHANGED <<contract, night>>

Next ==
    \/ CreatePayment
    \/ ReceiveOnlinePayment
    \/ ReversePayment
    \/ PushPayment
    \/ CreateRefund
    \/ ReconcilePending
    \/ RecalculatePenalty
    \/ Terminate
    \/ NightRead
    \/ NightCommit
    \/ Tick

Spec == Init /\ [][Next]_vars

-----------------------------------------------------------------------------
(* Properties.  A contract is settled when no reconciliation is pending.    *)

\* Every kopeck received on a settled contract is in exactly one place: an
\* allocation, a penalty, the credit balance or a refund.  A reversal breaks
\* this until the reconciliation it asks for.
MoneyConserved ==
    contract.pending \/
        Received(contract) = AllocatedTotal(contract) + PenaltyPaid(contract)
                               + contract.credit + Refunded(contract)

\* Nothing is paid beyond what is charged, whatever order payments, terminations and
\* reconciliations come in: no accrual, a voided one is charged nothing; on a settled
\* contract not the penalty either, although two payments of one day each see the
\* whole penalty owed.
NothingOverpaid ==
    /\ \A i \in AccrualIds :
          Allocated(contract, i) <= IF contract.voided[i] THEN 0 ELSE Max({Total(contract, i), 0})
    /\ contract.pending \/ PenaltyPaid(contract) <= JournalSum(contract, Today)

\* On a settled contract money goes to the oldest charge first: a paid accrual
\* or a credit balance means that every earlier (any) live accrual is paid up.
OldestFirst ==
    contract.pending \/
        /\ \A i, j \in Live(contract) :
              i < j /\ Allocated(contract, j) > 0 => Room(contract, i) = 0
        /\ contract.credit > 0 => \A i \in Live(contract) : Room(contract, i) = 0

\* The journal of a settled contract is the one its allocations give, up to
\* the day the penalty has been accrued through.
JournalFresh ==
    contract.pending \/ contract.through = None \/
        contract.log = FreshJournal(contract, contract.through)

\* No penalty is charged for a day after the resident left, even when the
\* nightly accrual had read the contract before its termination.
NoPenaltyAfterLeaving ==
    contract.status = "TERMINATED" => \A d \in DOMAIN contract.log : d <= contract.actualEnd

RefundsInOrder ==
    \A r, s \in DOMAIN contract.refunds :
        r < s => contract.refunds[r].day <= contract.refunds[s].day

\* The money of a refund stays covered: a replay that does not run out of credit never
\* comes to, whatever is paid, entered late, reconciled, terminated or accrued.  What
\* can take the money away is a reversal, a refund given while a reconciliation is
\* pending, or one dated before a refund entered earlier.
CoveredStaysCovered ==
    [][\/ ~Replay(contract', Today').overdrawn
       \/ Active(contract) \ Active(contract') # {}
       \/ /\ Len(contract'.refunds) > Len(contract.refunds)
          /\ contract.pending \/ ~RefundsInOrder'
       \/ Replay(contract, Today).overdrawn]_vars

\* The rows of a settled contract are those a replay of its whole history would
\* write: what payments, refunds, terminations and penalties did one by one is
\* what the reconciliation would have done, the penalty it releases included.  Only
\* refunds out of order bring about a history whose replay runs out of credit, which
\* the reconciliation refuses instead of writing rows.
SettledIsReplayed ==
    contract.pending \/
        /\ ~ReplayChanges(contract, Today) \/ Replay(contract, Today).overdrawn
        /\ RefundsInOrder => ~Replay(contract, Today).overdrawn

\* Accounting has seen the allocation and the penalty of a synced payment:
\* only its reversal changes them.
SyncedAllocationFixed ==
    [][\A p \in DOMAIN contract.payments :
          /\ contract.payments[p].synced
          /\ contract'.payments[p].reversed = contract.payments[p].reversed
          => /\ contract'.payments[p].alloc = contract.payments[p].alloc
             /\ contract'.payments[p].penalty = contract.payments[p].penalty]_vars

=============================================================================
