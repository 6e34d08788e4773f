----------------------------- MODULE RefundRules -----------------------------
(***************************************************************************)
(* refund-balance.ts: how much of a contract's money may be given back.    *)
(* A refund r is [amount, credit, adjustment, accrual, day]; credit is the *)
(* part taken from the credit balance, adjustment the part attributed to a *)
(* downward correction of an accrual.                                      *)
(***************************************************************************)
EXTENDS BillingRules

RefundsOf(c, i, day) ==
    {r \in DOMAIN c.refunds : c.refunds[r].accrual = i /\ c.refunds[r].day <= day}

\* accrualPaidNetOfRefunds: payments count up to midnight of the day.
PaidNetOfRefunds(c, i, day) ==
    SumOver(AllocTo(c, i), {p \in Active(c) : c.payments[p].at <= Midnight(day)})
      - SumOver([r \in DOMAIN c.refunds |-> c.refunds[r].amount - c.refunds[r].credit],
                RefundsOf(c, i, day))

Overallocated(c, i, day) == Max({PaidNetOfRefunds(c, i, day) - Total(c, i), 0})

\* contractOverpayment: the future accruals are charged too.
Overpayment(c, day) ==
    LET received == SumOver(PaidSums(c), {p \in Active(c) : c.payments[p].at <= Midnight(day)})
        charged  == JournalSum(c, day) + SumOver([i \in AccrualIds |-> Total(c, i)], Live(c))
        refunded == SumOver(RefundSums(c), {r \in DOMAIN c.refunds : c.refunds[r].day <= day})
    IN  Max({received - charged - refunded, 0})

\* What is left of accrual i's downward correction on the day.
RefundableCorrection(c, i, day) ==
    Min({Overallocated(c, i, day),
         -c.adj[i] - SumOver([r \in DOMAIN c.refunds |-> c.refunds[r].adjustment],
                             RefundsOf(c, i, day))})

NothingAvailable == [accrual |-> None, amount |-> 0, correction |-> 0]

BestOf(c, over, corrected, overpaid, sum, correction) ==
    CASE over = 0 -> NothingAvailable
      [] over > 0 /\ corrected # {} ->
           [accrual |-> Max(corrected), amount |-> Min({over, c.credit + sum[Max(corrected)]}),
            correction |-> correction[Max(corrected)]]
      [] over > 0 /\ corrected = {} /\ overpaid # {} ->
           [accrual |-> Min(overpaid), amount |-> Min({over, c.credit + sum[Min(overpaid)]}),
            correction |-> 0]
      [] OTHER ->
           [accrual |-> None, amount |-> Min({over, c.credit}), correction |-> 0]

Best(c, over, sum, correction) ==
    BestOf(c, over,
           {i \in Live(c) : /\ c.adj[i] < 0
                            /\ Min({over, c.credit + sum[i]}) > 0
                            /\ correction[i] > 0},
           {i \in Live(c) : sum[i] > 0}, sum, correction)

\* availableContractRefund: a corrected accrual (the latest first), then an
\* overpaid one (the earliest first), then the credit alone.
Available(c, day) ==
    Best(c, Overpayment(c, day),
         [i \in AccrualIds |-> Overallocated(c, i, day)],
         [i \in AccrualIds |-> RefundableCorrection(c, i, day)])

\* Mutant: only what is available today counts.
AllowedToday(amount, then, now) == amount <= now.amount

\* createRefund accepts an amount that is available on the refund's day and
\* today, from the same accrual.
Allowed(amount, then, now) ==
    /\ then.amount > 0 /\ now.amount > 0 /\ then.accrual = now.accrual
    /\ amount <= then.amount /\ amount <= now.amount

RefundAllowed(c, amount, day, today) ==
    Allowed(amount, Available(c, day), Available(c, today))

\* The row written when the caller leaves the split to the server.
RowOf(amount, day, fromCredit, then, now) ==
    [amount |-> amount, credit |-> fromCredit, accrual |-> then.accrual, day |-> day,
     adjustment |-> Min({amount - fromCredit, then.correction, now.correction})]

RefundRow(c, amount, day, today) ==
    RowOf(amount, day, Min({amount, c.credit}), Available(c, day), Available(c, today))

=============================================================================
