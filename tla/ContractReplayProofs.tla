------------------------ MODULE ContractReplayProofs ------------------------
(***************************************************************************)
(* The rows of a contract beside the replay of its history, for every      *)
(* contract, every calendar, every set of amounts and dates.               *)
(*                                                                         *)
(* Most operations write rows without a replay, and the next replay reads  *)
(* another history: a payment, a refund or a day more.  So two replays are *)
(* put side by side, event by event.  For a refund or a day more, what the *)
(* operation wrote is found to be the difference between the two; for a    *)
(* payment more, that the second replay is never the poorer one.           *)
(***************************************************************************)
EXTENDS ContractLedgerProofs

-----------------------------------------------------------------------------
(* The order of two histories *)

\* Of two events one is before the other, not both.
LEMMA BeforeOnce ==
  ASSUME NEW h, Blank(h), NEW a \in Events(h), NEW b \in Events(h), a # b, EventBefore(h, a, b)
  PROVE  ~EventBefore(h, b, a)
<1>0. Fits(h) /\ RefundsFit(h) /\ DOMAIN h.payments \subseteq Nat
  BY DEF Blank
<1>1. /\ EventDay(h, a) \in Nat /\ EventDay(h, b) \in Nat /\ a.id \in Nat /\ b.id \in Nat
      /\ a.kind \in {"payment", "refund"} /\ b.kind \in {"payment", "refund"}
      /\ a.kind # b.kind \/ a.id # b.id
  BY <1>0, EventsFacts
<1>2. CASE EventDay(h, a) # EventDay(h, b) \/ a.kind # b.kind \/ a.kind = "refund"
  BY <1>1, <1>2, BeforeIs
<1>3. CASE EventDay(h, a) = EventDay(h, b) /\ a.kind = "payment" /\ b.kind = "payment"
  <2>1. h.payments[a.id].at \in Nat /\ h.payments[b.id].at \in Nat /\ a.id # b.id
    BY <1>0, <1>1, <1>3, EventsFacts
  <2>2. Sooner(h, a, b) <=> ~Sooner(h, b, a)
    BY <1>1, <2>1, SoonerTotal
  <2>3. SameDayReversed = TRUE \/ SameDayReversed = FALSE
    BY OrderAssumption
  <2> QED
    BY <1>3, <2>2, <2>3, BeforeIs
<1> QED
  BY <1>1, <1>2, <1>3

\* The event that all the others are before is the latest.
LEMMA LatestIs ==
  ASSUME NEW h, Blank(h), NEW S \in SUBSET Events(h), NEW e \in S,
         \A o \in S \ {e} : EventBefore(h, o, e)
  PROVE  Latest(h, S) = e
<1>0. Fits(h) /\ RefundsFit(h) /\ DOMAIN h.payments \subseteq Nat
  BY DEF Blank
<1>1. PICK l \in S : l = Latest(h, S) /\ \A o \in S \ {l} : EventBefore(h, o, l)
  BY <1>0, LatestFacts
<1>2. SUFFICES ASSUME l # e PROVE FALSE
  BY <1>1
<1>3. EventBefore(h, l, e) /\ EventBefore(h, e, l)
  BY <1>1, <1>2
<1> QED
  BY <1>2, <1>3, BeforeOnce

\* k is the history h with more refunds.
Follows(h, k) ==
    /\ k.payments = h.payments /\ k.adj = h.adj /\ k.voided = h.voided
    /\ k.status = h.status /\ k.actualEnd = h.actualEnd
    /\ DOMAIN h.refunds \subseteq DOMAIN k.refunds
    /\ \A r \in DOMAIN h.refunds : k.refunds[r] = h.refunds[r]

\* More refunds leave the order of the other events alone.
LEMMA FollowsOrder ==
  ASSUME NEW h, Blank(h), NEW k, Blank(k), Follows(h, k)
  PROVE  /\ Events(h) \subseteq Events(k) /\ Active(k) = Active(h)
         /\ \A e \in Events(h) : EventDay(k, e) = EventDay(h, e)
         /\ \A a, b \in Events(h) : EventBefore(k, a, b) <=> EventBefore(h, a, b)
         /\ \A S \in SUBSET Events(h) : S # {} => Latest(k, S) = Latest(h, S)
<1>0. Fits(h) /\ RefundsFit(h) /\ DOMAIN h.payments \subseteq Nat
  BY DEF Blank
<1>1. Active(k) = Active(h)
  BY DEF Active, Follows
<1>2. Events(h) \subseteq Events(k)
  <2> SUFFICES ASSUME NEW e \in Events(h) PROVE e \in Events(k)
    OBVIOUS
  <2>1. /\ e = [kind |-> e.kind, id |-> e.id] /\ e.kind \in {"payment", "refund"}
        /\ e.kind = "payment" => e.id \in Active(h)
        /\ e.kind = "refund" => e.id \in DOMAIN h.refunds
    BY <1>0, EventsFacts
  <2>2. /\ e.kind = "payment" => e.id \in Active(k)
        /\ e.kind = "refund" => e.id \in DOMAIN k.refunds
    BY <1>1, <2>1 DEF Follows
  <2> QED
    BY <2>1, <2>2 DEF Events
<1>3. ASSUME NEW e \in Events(h) PROVE EventDay(k, e) = EventDay(h, e)
  <2>1. e.kind \in {"payment", "refund"} /\ (e.kind = "refund" => e.id \in DOMAIN h.refunds)
    BY <1>0, EventsFacts
  <2> QED
    BY <2>1 DEF EventDay, Follows
<1>4. ASSUME NEW a \in Events(h), NEW b \in Events(h)
      PROVE  EventBefore(k, a, b) <=> EventBefore(h, a, b)
  <2>1. EventDay(k, a) = EventDay(h, a) /\ EventDay(k, b) = EventDay(h, b)
    BY <1>3
  <2>2. Sooner(k, a, b) <=> Sooner(h, a, b)
    BY DEF Sooner, Follows
  <2> QED
    BY <2>1, <2>2, BeforeIs
<1>5. ASSUME NEW S \in SUBSET Events(h), S # {} PROVE Latest(k, S) = Latest(h, S)
  <2>1. PICK e \in S : e = Latest(h, S) /\ \A o \in S \ {e} : EventBefore(h, o, e)
    BY <1>0, <1>5, LatestFacts
  <2>2. \A o \in S \ {e} : EventBefore(k, o, e)
    BY <1>4, <2>1
  <2>3. S \in SUBSET Events(k)
    BY <1>2
  <2> QED
    BY <2>1, <2>2, <2>3, LatestIs
<1> QED
  BY <1>1, <1>2, <1>3, <1>4, <1>5

-----------------------------------------------------------------------------
(* Two replays side by side *)

\* c and d have the same payments, allocations and penalties.
SameRows(c, d) ==
    /\ SameAllocations(c, d)
    /\ \A p \in DOMAIN c.payments :
          /\ d.payments[p].amount = c.payments[p].amount
          /\ d.payments[p].partial = c.payments[p].partial
          /\ d.payments[p].penalty = c.payments[p].penalty

\* The plans of the FIFO rule depend on the rooms.
LEMMA PlanSame ==
  ASSUME NEW c, NEW d, SameAllocations(c, d)
  PROVE  /\ \A day, money, owed : FifoPlan(d, day, money, owed) = FifoPlan(c, day, money, owed)
         /\ \A alloc : PartialRows(d, alloc) = PartialRows(c, alloc)
<1>1. \A i \in AccrualIds : Room(d, i) = Room(c, i)
  BY SameAccounts
<1>2. RoomOf(d) = RoomOf(c)
  BY <1>1 DEF RoomOf
<1>3. Live(d) = Live(c)
  BY DEF SameAllocations, Live
<1>4. \A day : DueOn(d, day) = DueOn(c, day)
  BY <1>3 DEF DueOn
<1>5. \A day, money, owed : FifoPlan(d, day, money, owed) = FifoPlan(c, day, money, owed)
  BY <1>2, <1>3, <1>4 DEF FifoPlan
<1>6. \A alloc : PartialRows(d, alloc) = PartialRows(c, alloc)
  BY DEF PartialRows, Total, SameAllocations
<1> QED
  BY <1>5, <1>6

\* What has accrued before a day of the past does not change as time goes on.
LEMMA AccruedLater ==
  ASSUME NEW c, Ends(c), NEW today \in Nat, NEW later \in Nat, today <= later,
         NEW day \in Nat, day <= today
  PROVE  AccruedBefore(c, day, later) = AccruedBefore(c, day, today)
<1>1. /\ \A d \in DaysBefore(c, day, today) : d \in Nat
      /\ \A d \in DaysBefore(c, day, later) : d \in Nat
      /\ \A d \in Nat : d \in DaysBefore(c, day, today) <=>
               /\ PenaltyStart(c) # None /\ PenaltyStart(c) <= d
               /\ d < day /\ d <= PenaltyEnd(c, today)
      /\ \A d \in Nat : d \in DaysBefore(c, day, later) <=>
               /\ PenaltyStart(c) # None /\ PenaltyStart(c) <= d
               /\ d < day /\ d <= PenaltyEnd(c, later)
  <2>1. day \in Int
    OBVIOUS
  <2> QED
    BY <2>1, DaysFacts
<1>2. \A d \in Nat : d < day => (d <= PenaltyEnd(c, today) <=> d <= PenaltyEnd(c, later))
  <2>1. CASE c.status # "TERMINATED"
    <3>1. PenaltyEnd(c, today) = today /\ PenaltyEnd(c, later) = later
      BY <2>1 DEF PenaltyEnd
    <3> QED
      BY <3>1
  <2>2. CASE c.status = "TERMINATED"
    <3>1. c.actualEnd \in Nat /\ c.actualEnd # None
      BY <2>2, NoneAssumption DEF Ends
    <3>2. PenaltyEnd(c, today) = Min({c.actualEnd, today}) /\ PenaltyEnd(c, later) = Min({c.actualEnd, later})
      BY <2>2, <3>1 DEF PenaltyEnd
    <3>3. PICK a \in Int : a = c.actualEnd
      BY <3>1
    <3>4. /\ PenaltyEnd(c, today) = Min({a, today}) /\ PenaltyEnd(c, later) = Min({a, later})
          /\ today \in Int /\ later \in Int
      BY <3>2, <3>3
    <3>5. \A z \in Int : /\ Min({a, z}) \in Int /\ Min({a, z}) <= a /\ Min({a, z}) <= z
                         /\ Min({a, z}) = a \/ Min({a, z}) = z
      BY MinOf, Zenon
    <3>6. /\ PenaltyEnd(c, today) \in Int /\ PenaltyEnd(c, today) <= a /\ PenaltyEnd(c, today) <= today
          /\ PenaltyEnd(c, today) = a \/ PenaltyEnd(c, today) = today
      BY <3>4, <3>5, Zenon
    <3>7. /\ PenaltyEnd(c, later) \in Int /\ PenaltyEnd(c, later) <= a /\ PenaltyEnd(c, later) <= later
          /\ PenaltyEnd(c, later) = a \/ PenaltyEnd(c, later) = later
      BY <3>4, <3>5, Zenon
    <3> QED
      BY <3>6, <3>7
  <2> QED
    BY <2>1, <2>2
<1>3. DaysBefore(c, day, later) = DaysBefore(c, day, today)
  BY <1>1, <1>2
<1> QED
  BY <1>3, AccruedDef

Alike(s, t) ==
    /\ SameRows(s.c, t.c)
    /\ t.penaltyPaid = s.penaltyPaid /\ t.credit = s.credit /\ t.overdrawn = s.overdrawn

\* b is c with another place of the payment p.
OnlyAt(c, b, p) ==
    Reallocates(c, b) /\ \A q \in DOMAIN c.payments \ {p} : b.payments[q] = c.payments[q]

\* A payment placed alike in two contracts with the same rows.
LEMMA SameRowsAfter ==
  ASSUME NEW c, NEW d, NEW b, NEW e, NEW p, SameRows(c, d), OnlyAt(c, b, p), OnlyAt(d, e, p),
         e.payments[p].alloc = b.payments[p].alloc, e.payments[p].partial = b.payments[p].partial,
         e.payments[p].penalty = b.payments[p].penalty
  PROVE  SameRows(b, e)
<1>0. /\ Reallocates(c, b) /\ \A q \in DOMAIN c.payments \ {p} : b.payments[q] = c.payments[q]
      /\ Reallocates(d, e) /\ \A q \in DOMAIN d.payments \ {p} : e.payments[q] = d.payments[q]
  BY DEF OnlyAt
<1>1. /\ d.adj = c.adj /\ d.voided = c.voided /\ d.status = c.status /\ d.actualEnd = c.actualEnd
      /\ DOMAIN d.payments = DOMAIN c.payments
      /\ DOMAIN b.payments = DOMAIN c.payments /\ DOMAIN e.payments = DOMAIN c.payments
  BY <1>0 DEF SameRows, SameAllocations, Reallocates
<1>2. /\ e.adj = b.adj /\ e.voided = b.voided /\ e.status = b.status /\ e.actualEnd = b.actualEnd
  BY <1>0, <1>1 DEF Reallocates
<1>3. ASSUME NEW q \in DOMAIN b.payments
      PROVE  /\ e.payments[q].alloc = b.payments[q].alloc
             /\ e.payments[q].at = b.payments[q].at
             /\ e.payments[q].reversed = b.payments[q].reversed
             /\ e.payments[q].amount = b.payments[q].amount
             /\ e.payments[q].partial = b.payments[q].partial
             /\ e.payments[q].penalty = b.payments[q].penalty
  <2>1. q \in DOMAIN c.payments /\ q \in DOMAIN d.payments
    BY <1>1
  <2>2. /\ e.payments[q].at = b.payments[q].at
        /\ e.payments[q].reversed = b.payments[q].reversed
        /\ e.payments[q].amount = b.payments[q].amount
    BY <1>0, <2>1 DEF SameRows, SameAllocations, Reallocates
  <2>3. CASE q = p
    BY <2>2, <2>3
  <2>4. CASE q # p
    <3>1. b.payments[q] = c.payments[q] /\ e.payments[q] = d.payments[q]
      BY <1>0, <2>1, <2>4
    <3> QED
      BY <2>1, <2>2, <3>1 DEF SameRows, SameAllocations
  <2> QED
    BY <2>3, <2>4
<1> QED
  BY <1>1, <1>2, <1>3 DEF SameRows, SameAllocations

\* What the penalty owed depends on is the same in both, and so is the plan.
LEMMA AlikeStep ==
  ASSUME NEW h, Blank(h), NEW k, Blank(k), Follows(h, k), NEW R, NEW s, NEW t,
         Underway(h, R, s), Underway(k, R, t), Alike(s, t), NEW today \in Nat, NEW later \in Nat,
         today <= later, Past(h, today), NEW e \in Events(h), e \notin R,
         NEW s2, s2 = ReplayEvent(s, e, today), NEW t2, t2 = ReplayEvent(t, e, later)
  PROVE  Alike(s2, t2)
<1>0. e \in Events(k) /\ EventDay(k, e) = EventDay(h, e) /\ Active(k) = Active(h)
  BY FollowsOrder
<1>1. \/ /\ e = [kind |-> "payment", id |-> e.id] /\ e.id \in Active(h) /\ e.id \notin Done(h, R)
         /\ EventDay(h, e) \in Nat /\ s2 = ReplayPayment(s, e.id, EventDay(h, e), today)
      \/ /\ e = [kind |-> "refund", id |-> e.id] /\ e.id \in DOMAIN h.refunds
         /\ s2 = ReplayRefund(s, e.id)
  BY EventStep
<1>2. \/ /\ e = [kind |-> "payment", id |-> e.id] /\ e.id \in Active(k) /\ e.id \notin Done(k, R)
         /\ EventDay(k, e) \in Nat /\ t2 = ReplayPayment(t, e.id, EventDay(k, e), later)
      \/ /\ e = [kind |-> "refund", id |-> e.id] /\ e.id \in DOMAIN k.refunds
         /\ t2 = ReplayRefund(t, e.id)
  BY <1>0, EventStep
<1>3. CASE e.kind = "payment"
  <2> DEFINE p == e.id
             day == EventDay(h, e)
  <2>1. /\ e = [kind |-> "payment", id |-> p]
        /\ p \in Active(h) /\ p \notin Done(h, R) /\ day \in Nat /\ s2 = ReplayPayment(s, p, day, today)
        /\ p \in Active(k) /\ p \notin Done(k, R) /\ t2 = ReplayPayment(t, p, day, later)
    BY <1>0, <1>1, <1>2, <1>3
  <2>2. day <= today
    <3>1. day = MoscowDay(h.payments[p].at)
      BY <1>3 DEF EventDay
    <3> QED
      BY <2>1, <3>1 DEF Past
  <2> HIDE DEF p, day
  <2>3. /\ Placed(s.c, s2.c, p, day, MoneyOf(s, p), OwedOn(s, day, today))
        /\ s2.c.payments[p].partial = PartialRows(s.c, PlanFor(s, p, day, today).alloc)
        /\ s2.penaltyPaid = s.penaltyPaid + PlanFor(s, p, day, today).penalty
        /\ s2.credit = PlanFor(s, p, day, today).credit
        /\ s2.overdrawn = s.overdrawn
    BY <2>1, PaymentReplayed
  <2>4. /\ Placed(t.c, t2.c, p, day, MoneyOf(t, p), OwedOn(t, day, later))
        /\ t2.c.payments[p].partial = PartialRows(t.c, PlanFor(t, p, day, later).alloc)
        /\ t2.penaltyPaid = t.penaltyPaid + PlanFor(t, p, day, later).penalty
        /\ t2.credit = PlanFor(t, p, day, later).credit
        /\ t2.overdrawn = t.overdrawn
    BY <2>1, PaymentReplayed
  <2>5. SameRows(s.c, t.c) /\ SameAllocations(s.c, t.c)
    BY DEF Alike, SameRows
  <2>6. MoneyOf(t, p) = MoneyOf(s, p)
    <3>1. /\ MoneyOf(s, p) = h.payments[p].amount + s.credit
          /\ MoneyOf(t, p) = k.payments[p].amount + t.credit
      BY <2>1, NotDone
    <3> QED
      BY <3>1 DEF Alike, Follows
  <2>7. OwedOn(t, day, later) = OwedOn(s, day, today)
    <3>1. AccruedBefore(t.c, day, later) = AccruedBefore(s.c, day, later)
      BY <2>5, SameAccounts
    <3>2. Ends(s.c)
      BY <2>1, NotDone
    <3>3. AccruedBefore(s.c, day, later) = AccruedBefore(s.c, day, today)
      BY <2>1, <2>2, <3>2, AccruedLater
    <3>4. ~(day > today) /\ ~(day > later)
      BY <2>1, <2>2
    <3> QED
      BY <3>1, <3>3, <3>4 DEF OwedOn, Alike
  <2>8. PlanFor(t, p, day, later) = PlanFor(s, p, day, today)
    BY <2>5, <2>6, <2>7, PlanSame DEF PlanFor
  <2>9. PartialRows(t.c, PlanFor(t, p, day, later).alloc) = PartialRows(s.c, PlanFor(s, p, day, today).alloc)
    BY <2>5, <2>8, PlanSame
  <2>10. /\ s2.c.payments[p].alloc = PlanFor(s, p, day, today).alloc
         /\ s2.c.payments[p].penalty = PlanFor(s, p, day, today).penalty
         /\ t2.c.payments[p].alloc = PlanFor(t, p, day, later).alloc
         /\ t2.c.payments[p].penalty = PlanFor(t, p, day, later).penalty
    BY <2>3, <2>4 DEF Placed, PlanFor
  <2>11. SameRows(s2.c, t2.c)
    <3>1. OnlyAt(s.c, s2.c, p) /\ OnlyAt(t.c, t2.c, p)
      BY <2>3, <2>4 DEF Placed, OnlyAt
    <3>2. /\ t2.c.payments[p].alloc = s2.c.payments[p].alloc
          /\ t2.c.payments[p].partial = s2.c.payments[p].partial
          /\ t2.c.payments[p].penalty = s2.c.payments[p].penalty
      BY <2>3, <2>4, <2>8, <2>9, <2>10
    <3> QED
      BY <2>5, <3>1, <3>2, SameRowsAfter
  <2>12. t2.penaltyPaid = s2.penaltyPaid /\ t2.credit = s2.credit /\ t2.overdrawn = s2.overdrawn
    BY <2>3, <2>4, <2>8 DEF Alike
  <2> QED
    BY <2>11, <2>12 DEF Alike
<1>4. CASE e.kind = "refund"
  <2> DEFINE r == e.id
  <2>1. /\ r \in DOMAIN h.refunds /\ s2 = ReplayRefund(s, r)
        /\ r \in DOMAIN k.refunds /\ t2 = ReplayRefund(t, r)
    BY <1>1, <1>2, <1>4
  <2> HIDE DEF r
  <2>2. /\ s2.c = s.c /\ s2.penaltyPaid = s.penaltyPaid
        /\ s2.credit = s.credit - s.c.refunds[r].amount
        /\ s2.overdrawn = (s.overdrawn \/ s.credit < s.c.refunds[r].amount)
    BY <2>1, RefundedIs DEF Underway
  <2>3. /\ t2.c = t.c /\ t2.penaltyPaid = t.penaltyPaid
        /\ t2.credit = t.credit - t.c.refunds[r].amount
        /\ t2.overdrawn = (t.overdrawn \/ t.credit < t.c.refunds[r].amount)
    BY <2>1, RefundedIs DEF Underway
  <2>4. t.c.refunds[r].amount = s.c.refunds[r].amount
    BY <2>1 DEF Underway, Reallocates, Follows
  <2> QED
    BY <2>2, <2>3, <2>4 DEF Alike
<1> QED
  BY <1>1, <1>3, <1>4

\* The events that two histories share leave the same rows, on whatever later day they
\* are replayed.
LEMMA AlikeStages ==
  ASSUME NEW h, Blank(h), NEW k, Blank(k), Follows(h, k), NEW today \in Nat, NEW later \in Nat,
         today <= later, Past(h, today)
  PROVE  \A S \in SUBSET Events(h) : Alike(Stages(h, today)[S], Stages(k, later)[S])
<1> DEFINE f == Stages(h, today)
           g == Stages(k, later)
           P == {S \in SUBSET Events(h) : Alike(f[S], g[S])}
<1>0. /\ Events(h) \subseteq Events(k)
      /\ \A S \in SUBSET Events(h) : S # {} => Latest(k, S) = Latest(h, S)
  BY FollowsOrder
<1>1. /\ IsFiniteSet(Events(h)) /\ f[{}] = Begun(h)
      /\ \A S \in SUBSET Events(h) : S # {} =>
               /\ Latest(h, S) \in S
               /\ f[S] = ReplayEvent(f[S \ {Latest(h, S)}], Latest(h, S), today)
  BY StagesAre
<1>2. /\ g[{}] = Begun(k)
      /\ \A S \in SUBSET Events(k) : S # {} =>
               g[S] = ReplayEvent(g[S \ {Latest(k, S)}], Latest(k, S), later)
  BY StagesAre
<1>3. /\ \A S \in SUBSET Events(h) : StageKept(h, S, f[S], today)
      /\ \A S \in SUBSET Events(k) : StageKept(k, S, g[S], later)
  BY StagesKeep
<1> HIDE DEF f, g
<1>4. ASSUME NEW S \in SUBSET Events(h), \A x \in S : S \ {x} \in P
      PROVE  S \in P
  <2>1. CASE S = {}
    <3>1. SameRows(h, k)
      BY DEF Follows, SameRows, SameAllocations
    <3>2. Alike(Begun(h), Begun(k))
      BY <3>1 DEF Alike, Begun
    <3> QED
      BY <1>1, <1>2, <2>1, <3>2
  <2>2. CASE S # {}
    <3>1. PICK e \in S : /\ e = Latest(h, S) /\ e = Latest(k, S)
                         /\ f[S] = ReplayEvent(f[S \ {e}], e, today)
                         /\ g[S] = ReplayEvent(g[S \ {e}], e, later)
      BY <1>0, <1>1, <1>2, <2>2
    <3>2. S \ {e} \in P
      BY <1>4
    <3>3. /\ Alike(f[S \ {e}], g[S \ {e}]) /\ e \in Events(h) /\ e \notin S \ {e}
          /\ Underway(h, S \ {e}, f[S \ {e}]) /\ Underway(k, S \ {e}, g[S \ {e}])
      <4>1. S \ {e} \in SUBSET Events(h) /\ S \ {e} \in SUBSET Events(k)
        BY <1>0
      <4> QED
        BY <1>3, <3>2, <4>1 DEF StageKept
    <3> HIDE DEF P
    <3>4. Alike(f[S], g[S])
      BY <3>1, <3>3, AlikeStep
    <3> QED
      BY <3>4 DEF P
  <2> QED
    BY <2>1, <2>2
<1> HIDE DEF P
<1>5. \A S \in SUBSET Events(h) : S \in P
  BY <1>1, <1>4, SubsetInduction
<1> QED
  BY <1>5 DEF P, f, g

\* S has every event that is before one of its events.
Closed(h, S) ==
    /\ S \subseteq Events(h)
    /\ \A a \in S, b \in Events(h) : EventBefore(h, b, a) => b \in S

\* d has the allocations and penalties that c has for the payments of S.
RowsKept(h, S, c, d) ==
    \A p \in Done(h, S) :
        /\ d.payments[p].alloc = c.payments[p].alloc
        /\ d.payments[p].partial = c.payments[p].partial
        /\ d.payments[p].penalty = c.payments[p].penalty

\* One event more changes no rows of the others, and a history out of credit stays so.
LEMMA PersistsStep ==
  ASSUME NEW h, Blank(h), NEW today \in Nat, NEW R, NEW s, Underway(h, R, s),
         NEW e \in Events(h), e \notin R, NEW t, t = ReplayEvent(s, e, today)
  PROVE  RowsKept(h, R, s.c, t.c) /\ (s.overdrawn => t.overdrawn)
<1>1. CASE /\ e = [kind |-> "payment", id |-> e.id] /\ e.id \in Active(h) /\ e.id \notin Done(h, R)
           /\ EventDay(h, e) \in Nat /\ t = ReplayPayment(s, e.id, EventDay(h, e), today)
  <2> DEFINE p == e.id
             day == EventDay(h, e)
  <2>1. /\ p \in Active(h) /\ p \notin Done(h, R) /\ day \in Nat /\ t = ReplayPayment(s, p, day, today)
    BY <1>1
  <2> HIDE DEF p, day
  <2>2. /\ Placed(s.c, t.c, p, day, MoneyOf(s, p), OwedOn(s, day, today))
        /\ t.overdrawn = s.overdrawn
    BY <2>1, PaymentReplayed
  <2>3. \A q \in Done(h, R) : q \in DOMAIN s.c.payments \ {p}
    BY <2>1 DEF Done, Active, Underway, Reallocates
  <2> QED
    BY <2>2, <2>3 DEF Placed, RowsKept
<1>2. CASE /\ e = [kind |-> "refund", id |-> e.id] /\ e.id \in DOMAIN h.refunds
           /\ t = ReplayRefund(s, e.id)
  <2>1. t.c = s.c /\ t.overdrawn = (s.overdrawn \/ s.credit < s.c.refunds[e.id].amount)
    BY <1>2, RefundedIs DEF Underway
  <2> QED
    BY <2>1 DEF RowsKept
<1> QED
  BY <1>1, <1>2, EventStep

\* Later events change no rows of earlier ones, and a history that runs out of credit
\* does not recover.
LEMMA Persists ==
  ASSUME NEW h, Blank(h), NEW today \in Nat, NEW S, Closed(h, S)
  PROVE  \A T \in SUBSET Events(h) : S \subseteq T =>
           /\ RowsKept(h, S, Stages(h, today)[S].c, Stages(h, today)[T].c)
           /\ Stages(h, today)[S].overdrawn => Stages(h, today)[T].overdrawn
<1> DEFINE g == Stages(h, today)
           Kept(T) == RowsKept(h, S, g[S].c, g[T].c) /\ (g[S].overdrawn => g[T].overdrawn)
           P == {T \in SUBSET Events(h) : S \subseteq T => Kept(T)}
<1>0. Fits(h) /\ RefundsFit(h) /\ DOMAIN h.payments \subseteq Nat
  BY DEF Blank
<1>1. /\ IsFiniteSet(Events(h))
      /\ \A T \in SUBSET Events(h) : T # {} =>
               /\ Latest(h, T) \in T
               /\ g[T] = ReplayEvent(g[T \ {Latest(h, T)}], Latest(h, T), today)
  BY StagesAre
<1>2. \A T \in SUBSET Events(h) : T # {} =>
         \A o \in T \ {Latest(h, T)} : EventBefore(h, o, Latest(h, T))
  BY <1>0, LatestFacts
<1>3. \A T \in SUBSET Events(h) : StageKept(h, T, g[T], today)
  BY StagesKeep
<1>4. Kept(S)
  BY DEF RowsKept
<1> HIDE DEF g
<1>5. ASSUME NEW T \in SUBSET Events(h), \A x \in T : T \ {x} \in P
      PROVE  T \in P
  <2> SUFFICES ASSUME S \subseteq T PROVE Kept(T)
    OBVIOUS
  <2>1. CASE T = S
    BY <1>4, <2>1
  <2>2. CASE T # S
    <3>0. T # {}
      BY <2>2
    <3>1. PICK e \in T : /\ e = Latest(h, T) /\ \A o \in T \ {e} : EventBefore(h, o, e)
                         /\ g[T] = ReplayEvent(g[T \ {e}], e, today)
      BY <1>1, <1>2, <3>0
    <3>2. e \notin S
      BY <2>2, <3>1 DEF Closed
    <3>3. Kept(T \ {e})
      <4>1. T \ {e} \in P /\ S \subseteq T \ {e}
        BY <1>5, <3>2
      <4> QED
        BY <4>1
    <3>4. Underway(h, T \ {e}, g[T \ {e}])
      <4>1. T \ {e} \in SUBSET Events(h)
        OBVIOUS
      <4> QED
        BY <1>3, <4>1 DEF StageKept
    <3>5. RowsKept(h, T \ {e}, g[T \ {e}].c, g[T].c) /\ (g[T \ {e}].overdrawn => g[T].overdrawn)
      <4>1. e \notin T \ {e} /\ e \in Events(h)
        OBVIOUS
      <4> QED
        BY <3>1, <3>4, <4>1, PersistsStep
    <3>6. Done(h, S) \subseteq Done(h, T \ {e})
      BY <3>2 DEF Done
    <3> QED
      BY <3>3, <3>5, <3>6 DEF RowsKept
  <2> QED
    BY <2>1, <2>2
<1> HIDE DEF P
<1>6. \A T \in SUBSET Events(h) : T \in P
  BY <1>1, <1>5, SubsetInduction
<1> QED
  BY <1>6 DEF P, g

-----------------------------------------------------------------------------
(* One refund more *)

\* t is s with the amount taken out of the credit, unless it is out of credit.
Shifted(s, t, amount) ==
    /\ s.overdrawn => t.overdrawn
    /\ ~t.overdrawn => /\ SameRows(s.c, t.c) /\ t.penaltyPaid = s.penaltyPaid
                       /\ t.credit = s.credit - amount

\* A refund out of a credit that covers it takes nothing but the credit.
LEMMA ShiftedBegins ==
  ASSUME NEW s, NEW u, Alike(s, u), StateRow(u), s.credit \in Int, s.overdrawn \in BOOLEAN,
         NEW r, NEW amount \in Nat,
         u.c.refunds[r].amount = amount, ~s.overdrawn => amount <= s.credit,
         NEW t, t = ReplayRefund(u, r)
  PROVE  Shifted(s, t, amount) /\ t.overdrawn = s.overdrawn
<1>1. /\ t.c = u.c /\ t.penaltyPaid = u.penaltyPaid
      /\ t.credit = u.credit - amount
      /\ t.overdrawn = (u.overdrawn \/ u.credit < amount)
  BY RefundedIs
<1>2. SameRows(s.c, t.c) /\ u.penaltyPaid = s.penaltyPaid /\ u.credit = s.credit
      /\ u.overdrawn = s.overdrawn
  BY <1>1 DEF Alike
<1>3. t.overdrawn = s.overdrawn
  <2>1. CASE s.overdrawn
    BY <1>1, <1>2, <2>1
  <2>2. CASE ~s.overdrawn
    <3>1. ~(u.credit < amount)
      BY <1>2, <2>2
    <3> QED
      BY <1>1, <1>2, <2>2, <3>1
  <2> QED
    BY <2>1, <2>2
<1> QED
  BY <1>1, <1>2, <1>3 DEF Shifted

\* A payment after the refund finds everything paid up, and only adds to the credit.
LEMMA ShiftedPayment ==
  ASSUME NEW h, Blank(h), NEW k, Blank(k), Follows(h, k), NEW today \in Nat, Past(h, today),
         NEW R, NEW s, StageKept(h, R, s, today), NEW U, NEW t, StageKept(k, U, t, today),
         NEW amount \in Nat, amount > 0, Shifted(s, t, amount),
         NEW p \in Active(h), p \in Active(k), p \notin Done(h, R), p \notin Done(k, U),
         NEW day \in Nat, PaidUntil(h, R, day),
         NEW s2, s2 = ReplayPayment(s, p, day, today), NEW t2, t2 = ReplayPayment(t, p, day, today)
  PROVE  Shifted(s2, t2, amount) /\ t2.overdrawn = t.overdrawn /\ s2.overdrawn = s.overdrawn
<1>1. /\ Underway(h, R, s) /\ Balanced(h, R, s) /\ Saturated(h, R, s, today)
      /\ Underway(k, U, t) /\ Balanced(k, U, t)
  BY DEF StageKept
<1>2. /\ Placed(s.c, s2.c, p, day, MoneyOf(s, p), OwedOn(s, day, today))
      /\ s2.c.payments[p].partial = PartialRows(s.c, PlanFor(s, p, day, today).alloc)
      /\ s2.penaltyPaid = s.penaltyPaid + PlanFor(s, p, day, today).penalty
      /\ s2.credit = PlanFor(s, p, day, today).credit
      /\ s2.overdrawn = s.overdrawn
  BY <1>1, PaymentReplayed
<1>3. /\ Placed(t.c, t2.c, p, day, MoneyOf(t, p), OwedOn(t, day, today))
      /\ t2.c.payments[p].partial = PartialRows(t.c, PlanFor(t, p, day, today).alloc)
      /\ t2.penaltyPaid = t.penaltyPaid + PlanFor(t, p, day, today).penalty
      /\ t2.credit = PlanFor(t, p, day, today).credit
      /\ t2.overdrawn = t.overdrawn
  BY <1>1, PaymentReplayed
<1>4. ASSUME ~t.overdrawn
      PROVE  /\ SameRows(s2.c, t2.c) /\ t2.penaltyPaid = s2.penaltyPaid
             /\ t2.credit = s2.credit - amount
  <2>1. /\ ~s.overdrawn /\ SameRows(s.c, t.c) /\ t.penaltyPaid = s.penaltyPaid
        /\ t.credit = s.credit - amount /\ SameAllocations(s.c, t.c)
    BY <1>4 DEF Shifted, SameRows
  <2>2. t.credit \in Nat /\ s.credit \in Nat /\ (s.credit > 0 => PaidUp(s.c))
    BY <1>1, <1>4, <2>1 DEF Balanced
  <2>3. s.credit > 0 /\ PaidUp(s.c) /\ PaidUp(t.c)
    <3>1. s.credit > 0
      BY <2>1, <2>2
    <3> QED
      BY <2>1, <2>2, <3>1, SameAccounts
  <2>4. /\ MoneyOf(s, p) = h.payments[p].amount + s.credit /\ h.payments[p].amount \in Nat
        /\ AccruedBefore(s.c, day, today) \in Nat /\ OwedOn(s, day, today) \in Int
        /\ s.penaltyPaid \in Nat /\ Fits(s.c)
    BY <1>1, NotDone
  <2>5. /\ MoneyOf(t, p) = k.payments[p].amount + t.credit /\ OwedOn(t, day, today) \in Int /\ Fits(t.c)
    BY <1>1, NotDone
  <2>6. OwedOn(s, day, today) <= 0
    <3>1. AccruedBefore(s.c, day, today) <= s.penaltyPaid
      BY <1>1, <2>3 DEF Saturated
    <3> QED
      BY <2>4, <3>1 DEF OwedOn
  <2>7. OwedOn(t, day, today) = OwedOn(s, day, today)
    <3>1. AccruedBefore(t.c, day, today) = AccruedBefore(s.c, day, today)
      BY <2>1, SameAccounts
    <3> QED
      BY <2>1, <3>1 DEF OwedOn
  <2>8. MoneyOf(s, p) \in Nat /\ MoneyOf(t, p) \in Nat /\ MoneyOf(t, p) = MoneyOf(s, p) - amount
    <3>1. k.payments[p].amount = h.payments[p].amount
      BY DEF Follows
    <3> QED
      BY <2>1, <2>2, <2>4, <2>5, <3>1
  <2>9. /\ PlanFor(s, p, day, today).alloc = NoAllocation
        /\ PlanFor(s, p, day, today).penalty = 0
        /\ PlanFor(s, p, day, today).credit = MoneyOf(s, p)
    BY <2>3, <2>4, <2>6, <2>8, PlanNothing DEF PlanFor
  <2>10. /\ PlanFor(t, p, day, today).alloc = NoAllocation
         /\ PlanFor(t, p, day, today).penalty = 0
         /\ PlanFor(t, p, day, today).credit = MoneyOf(t, p)
    BY <2>3, <2>5, <2>6, <2>7, <2>8, PlanNothing DEF PlanFor
  <2>11. /\ s2.c.payments[p].alloc = PlanFor(s, p, day, today).alloc
         /\ s2.c.payments[p].penalty = PlanFor(s, p, day, today).penalty
         /\ t2.c.payments[p].alloc = PlanFor(t, p, day, today).alloc
         /\ t2.c.payments[p].penalty = PlanFor(t, p, day, today).penalty
    BY <1>2, <1>3 DEF Placed, PlanFor
  <2>12. PartialRows(t.c, NoAllocation) = PartialRows(s.c, NoAllocation)
    BY <2>1, PlanSame
  <2>13. SameRows(s2.c, t2.c)
    <3>1. OnlyAt(s.c, s2.c, p) /\ OnlyAt(t.c, t2.c, p)
      BY <1>2, <1>3 DEF Placed, OnlyAt
    <3>2. /\ t2.c.payments[p].alloc = s2.c.payments[p].alloc
          /\ t2.c.payments[p].partial = s2.c.payments[p].partial
          /\ t2.c.payments[p].penalty = s2.c.payments[p].penalty
      BY <1>2, <1>3, <2>9, <2>10, <2>11, <2>12
    <3> QED
      BY <2>1, <3>1, <3>2, SameRowsAfter
  <2>14. t2.penaltyPaid = s2.penaltyPaid
    BY <1>2, <1>3, <2>1, <2>9, <2>10
  <2>15. t2.credit = s2.credit - amount
    BY <1>2, <1>3, <2>8, <2>9, <2>10
  <2> QED
    BY <2>13, <2>14, <2>15
<1> QED
  BY <1>2, <1>3, <1>4 DEF Shifted

\* Another refund takes the same from both credits.
LEMMA ShiftedRefund ==
  ASSUME NEW h, Blank(h), NEW k, Blank(k), Follows(h, k), NEW today \in Nat,
         NEW R, NEW s, Underway(h, R, s), NEW U, NEW t, Underway(k, U, t),
         NEW amount \in Nat, Shifted(s, t, amount), NEW r \in DOMAIN h.refunds, r \in DOMAIN k.refunds,
         NEW s2, s2 = ReplayRefund(s, r), NEW t2, t2 = ReplayRefund(t, r)
  PROVE  Shifted(s2, t2, amount)
<1>1. /\ s2.c = s.c /\ s2.penaltyPaid = s.penaltyPaid
      /\ s2.credit = s.credit - s.c.refunds[r].amount
      /\ s2.overdrawn = (s.overdrawn \/ s.credit < s.c.refunds[r].amount)
  BY RefundedIs DEF Underway
<1>2. /\ t2.c = t.c /\ t2.penaltyPaid = t.penaltyPaid
      /\ t2.credit = t.credit - t.c.refunds[r].amount
      /\ t2.overdrawn = (t.overdrawn \/ t.credit < t.c.refunds[r].amount)
  BY RefundedIs DEF Underway
<1>3. /\ t.c.refunds[r].amount = s.c.refunds[r].amount /\ s.c.refunds[r].amount \in Nat
      /\ s.credit \in Int /\ t.credit \in Int
  BY DEF Underway, Reallocates, Follows, Blank, RefundsFit
<1>4. CASE t.overdrawn
  BY <1>2, <1>4 DEF Shifted
<1>5. CASE ~t.overdrawn
  <2>1. /\ ~s.overdrawn /\ SameRows(s.c, t.c) /\ t.penaltyPaid = s.penaltyPaid
        /\ t.credit = s.credit - amount
    BY <1>5 DEF Shifted
  <2>2. ASSUME s2.overdrawn PROVE t2.overdrawn
    <3>1. s.credit < s.c.refunds[r].amount
      BY <1>1, <2>1, <2>2
    <3>2. t.credit < t.c.refunds[r].amount
      BY <1>3, <2>1, <3>1
    <3> QED
      BY <1>2, <3>2
  <2>3. t2.credit = s2.credit - amount
    BY <1>1, <1>2, <1>3, <2>1
  <2> QED
    BY <1>1, <1>2, <2>1, <2>2, <2>3 DEF Shifted
<1> QED
  BY <1>4, <1>5

\* k is h with one more refund, entered after the others.
OneMore(h, k, r) ==
    /\ Follows(h, k) /\ r \notin DOMAIN h.refunds /\ DOMAIN k.refunds = DOMAIN h.refunds \cup {r}
    /\ \A q \in DOMAIN h.refunds : q < r

Until(h, day) == {e \in Events(h) : EventDay(h, e) <= day}

\* The new refund comes after the other events of its day.
LEMMA OneMoreOrder ==
  ASSUME NEW h, Blank(h), NEW k, Blank(k), NEW r, OneMore(h, k, r),
         NEW n, n = [kind |-> "refund", id |-> r], NEW day, day = k.refunds[r].day
  PROVE  /\ Events(k) = Events(h) \cup {n} /\ n \notin Events(h)
         /\ \A e \in Events(h) : /\ e \in Until(h, day) => EventBefore(k, e, n) /\ ~EventBefore(k, n, e)
                                 /\ e \notin Until(h, day) => EventBefore(k, n, e)
<1>0. /\ Fits(h) /\ RefundsFit(h) /\ DOMAIN h.payments \subseteq Nat /\ Follows(h, k)
      /\ DOMAIN k.refunds = DOMAIN h.refunds \cup {r} /\ r \notin DOMAIN h.refunds
      /\ \A q \in DOMAIN h.refunds : q < r
      /\ r \in Nat /\ day \in Nat
  BY DEF Blank, OneMore, RefundsFit
<1>1. Events(k) = Events(h) \cup {n} /\ n \notin Events(h)
  <2>1. Active(k) = Active(h)
    BY <1>0, FollowsOrder
  <2> QED
    BY <1>0, <2>1 DEF Events
<1>2. EventDay(k, n) = day /\ n.kind = "refund" /\ n.id = r
  BY DEF EventDay
<1>3. ASSUME NEW e \in Events(h)
      PROVE  /\ EventDay(k, e) = EventDay(h, e) /\ EventDay(h, e) \in Nat
             /\ e.kind \in {"payment", "refund"} /\ e.id \in Nat
             /\ e.kind = "refund" => e.id < r
             /\ e \in Until(h, day) <=> EventDay(h, e) <= day
  <2>1. EventDay(k, e) = EventDay(h, e)
    BY <1>0, FollowsOrder
  <2>2. /\ e.kind \in {"payment", "refund"} /\ e.id \in Nat /\ EventDay(h, e) \in Nat
        /\ e.kind = "refund" => e.id \in DOMAIN h.refunds
    BY <1>0, EventsFacts
  <2> QED
    BY <1>0, <2>1, <2>2 DEF Until
<1>4. ASSUME NEW e \in Events(h)
      PROVE  /\ e \in Until(h, day) => EventBefore(k, e, n) /\ ~EventBefore(k, n, e)
             /\ e \notin Until(h, day) => EventBefore(k, n, e)
  <2>1. /\ EventBefore(k, e, n) <=>
             IF EventDay(k, e) # EventDay(k, n) THEN EventDay(k, e) < EventDay(k, n)
             ELSE IF e.kind # n.kind THEN e.kind = "payment"
             ELSE IF e.kind = "refund" THEN e.id < n.id
             ELSE (SameDayReversed /\ ~Sooner(k, e, n)) \/ (~SameDayReversed /\ Sooner(k, e, n))
        /\ EventBefore(k, n, e) <=>
             IF EventDay(k, n) # EventDay(k, e) THEN EventDay(k, n) < EventDay(k, e)
             ELSE IF n.kind # e.kind THEN n.kind = "payment"
             ELSE IF n.kind = "refund" THEN n.id < e.id
             ELSE (SameDayReversed /\ ~Sooner(k, n, e)) \/ (~SameDayReversed /\ Sooner(k, n, e))
    BY BeforeIs
  <2> QED
    BY <1>0, <1>2, <1>3, <2>1
<1> QED
  BY <1>1, <1>4

ShiftedAfter(h, k, n, P, amount, today) ==
    \A S \in SUBSET Events(h) : P \subseteq S =>
        /\ Shifted(Stages(h, today)[S], Stages(k, today)[S \cup {n}], amount)
        /\ (\A e \in S : e.kind = "refund" => e \in P)
             => Stages(k, today)[S \cup {n}].overdrawn = Stages(h, today)[S].overdrawn

\* A refund that the credit of its day covers only moves credit, up to the first event
\* that the credit left no longer covers, which can only be a later refund.
LEMMA ShiftedStages ==
  ASSUME NEW h, Blank(h), NEW k, Blank(k), NEW r, OneMore(h, k, r), NEW today \in Nat, Past(h, today),
         NEW n, n = [kind |-> "refund", id |-> r], NEW day, day = k.refunds[r].day,
         NEW amount \in Nat, amount > 0, amount = k.refunds[r].amount,
         NEW P, P = Until(h, day),
         ~Stages(h, today)[P].overdrawn => amount <= Stages(h, today)[P].credit
  PROVE  ShiftedAfter(h, k, n, P, amount, today)
<1> DEFINE f == Stages(h, today)
           g == Stages(k, today)
           Good(S) == /\ Shifted(f[S], g[S \cup {n}], amount)
                      /\ (\A e \in S : e.kind = "refund" => e \in P)
                           => g[S \cup {n}].overdrawn = f[S].overdrawn
           Q == {S \in SUBSET Events(h) : P \subseteq S => Good(S)}
<1>0. /\ Fits(h) /\ RefundsFit(h) /\ DOMAIN h.payments \subseteq Nat /\ Follows(h, k)
      /\ P \in SUBSET Events(h) /\ today <= today
  BY DEF Blank, OneMore, Until
<1>1. /\ Events(k) = Events(h) \cup {n} /\ n \notin Events(h)
      /\ \A e \in Events(h) : /\ e \in P => EventBefore(k, e, n) /\ ~EventBefore(k, n, e)
                              /\ e \notin P => EventBefore(k, n, e)
  BY OneMoreOrder
<1>2. /\ IsFiniteSet(Events(h))
      /\ \A S \in SUBSET Events(h) : S # {} =>
               /\ Latest(h, S) \in S
               /\ \A o \in S : EventDay(h, o) <= EventDay(h, Latest(h, S))
               /\ f[S] = ReplayEvent(f[S \ {Latest(h, S)}], Latest(h, S), today)
  BY StagesAre
<1>3. \A S \in SUBSET Events(k) : S # {} =>
               g[S] = ReplayEvent(g[S \ {Latest(k, S)}], Latest(k, S), today)
  BY StagesAre
<1>4. /\ \A S \in SUBSET Events(h) : StageKept(h, S, f[S], today)
      /\ \A S \in SUBSET Events(k) : StageKept(k, S, g[S], today)
  BY StagesKeep
<1>5. Alike(f[P], g[P])
  BY <1>0, AlikeStages
<1>6. ~f[P].overdrawn => amount <= f[P].credit
  OBVIOUS
<1> HIDE DEF f, g
<1>7. Good(P)
  <2>1. g[P \cup {n}] = ReplayRefund(g[P], r)
    <3>1. P \cup {n} \in SUBSET Events(k) /\ (P \cup {n}) \ {n} = P
      BY <1>0, <1>1
    <3>2. \A o \in (P \cup {n}) \ {n} : EventBefore(k, o, n)
      BY <1>0, <1>1
    <3>3. Latest(k, P \cup {n}) = n
      BY <3>1, <3>2, LatestIs
    <3>4. g[P \cup {n}] = ReplayEvent(g[P], n, today)
      BY <1>3, <3>1, <3>3
    <3> QED
      BY <3>4 DEF ReplayEvent
  <2>2. /\ StateRow(g[P]) /\ f[P].credit \in Int /\ f[P].overdrawn \in BOOLEAN
        /\ Reallocates(k, g[P].c)
    <3>1. P \in SUBSET Events(k)
      BY <1>0, <1>1
    <3> QED
      BY <1>0, <1>4, <3>1 DEF StageKept, Underway
  <2>3. g[P].c.refunds[r].amount = amount
    BY <2>2 DEF Reallocates
  <2>4. Shifted(f[P], g[P \cup {n}], amount) /\ g[P \cup {n}].overdrawn = f[P].overdrawn
    <3>1. PICK s, u, t : s = f[P] /\ u = g[P] /\ t = g[P \cup {n}]
      OBVIOUS
    <3>2. /\ Alike(s, u) /\ StateRow(u) /\ s.credit \in Int /\ s.overdrawn \in BOOLEAN
          /\ u.c.refunds[r].amount = amount /\ (~s.overdrawn => amount <= s.credit)
          /\ t = ReplayRefund(u, r)
      BY <1>5, <1>6, <2>1, <2>2, <2>3, <3>1
    <3>3. Shifted(s, t, amount) /\ t.overdrawn = s.overdrawn
      BY <3>2, ShiftedBegins
    <3> QED
      BY <3>1, <3>3
  <2> QED
    BY <2>4
<1>8. ASSUME NEW S \in SUBSET Events(h), \A x \in S : S \ {x} \in Q
      PROVE  S \in Q
  <2> SUFFICES ASSUME P \subseteq S PROVE Good(S)
    OBVIOUS
  <2>1. CASE S = P
    BY <1>7, <2>1
  <2>2. CASE S # P
    <3>0. S # {}
      BY <2>2
    <3>1. PICK e \in S : /\ e = Latest(h, S) /\ \A o \in S : EventDay(h, o) <= EventDay(h, e)
                         /\ f[S] = ReplayEvent(f[S \ {e}], e, today)
      BY <1>2, <3>0
    <3>2. \A o \in S \ {e} : EventBefore(h, o, e)
      BY <1>0, <3>0, <3>1, LatestFacts
    <3>3. e \notin P /\ e \in Events(h) /\ e # n
      <4>1. SUFFICES ASSUME e \in P, NEW o \in S PROVE o \in P
        BY <1>1, <2>2
      <4>3. /\ EventDay(h, o) \in Nat /\ EventDay(h, e) \in Nat /\ EventDay(h, o) <= EventDay(h, e)
            /\ EventDay(h, e) <= day
        BY <1>0, <3>1, <4>1, EventsFacts DEF Until
      <4>4. day \in Nat
        BY DEF OneMore, Blank, RefundsFit
      <4> QED
        BY <4>3, <4>4 DEF Until
    <3> DEFINE R == S \ {e}
               U == R \cup {n}
    <3>4. g[S \cup {n}] = ReplayEvent(g[U], e, today)
      <4>1. S \cup {n} \in SUBSET Events(k) /\ e \in S \cup {n} /\ (S \cup {n}) \ {e} = U
        BY <1>1, <3>3
      <4>2. \A o \in (S \cup {n}) \ {e} : EventBefore(k, o, e)
        <5>1. \A o \in S \ {e} : EventBefore(k, o, e)
          BY <1>0, <3>2, FollowsOrder
        <5>2. EventBefore(k, n, e)
          BY <1>1, <3>3
        <5> QED
          BY <5>1, <5>2
      <4>3. Latest(k, S \cup {n}) = e
        BY <4>1, <4>2, LatestIs
      <4> QED
        BY <1>3, <4>1, <4>3
    <3>5. Good(R)
      <4>1. R \in Q /\ P \subseteq R
        BY <1>8, <3>3
      <4> QED
        BY <4>1
    <3>6. /\ StageKept(h, R, f[R], today) /\ StageKept(k, U, g[U], today)
          /\ Underway(h, R, f[R]) /\ Underway(k, U, g[U])
      <4>1. R \in SUBSET Events(h) /\ U \in SUBSET Events(k)
        BY <1>1
      <4> QED
        BY <1>4, <4>1 DEF StageKept
    <3>7. /\ e \notin R /\ e \notin U /\ e \in Events(k) /\ EventDay(k, e) = EventDay(h, e)
          /\ Shifted(f[R], g[U], amount)
      <4>1. e \notin R /\ e \notin U /\ e \in Events(k)
        BY <1>1, <3>3
      <4> QED
        BY <1>0, <3>3, <3>5, <4>1, FollowsOrder
    <3>8. (\A o \in R : o.kind = "refund" => o \in P) => g[U].overdrawn = f[R].overdrawn
      BY <3>5
    <3>9. \A o \in R : EventDay(h, o) <= EventDay(h, e)
      BY <3>1
    <3>10. R \subseteq S
      OBVIOUS
    <3> HIDE DEF R, U
    <3>11. \/ /\ e = [kind |-> "payment", id |-> e.id] /\ e.id \in Active(h) /\ e.id \notin Done(h, R)
              /\ EventDay(h, e) \in Nat /\ f[S] = ReplayPayment(f[R], e.id, EventDay(h, e), today)
           \/ /\ e = [kind |-> "refund", id |-> e.id] /\ e.id \in DOMAIN h.refunds
              /\ f[S] = ReplayRefund(f[R], e.id)
      BY <3>1, <3>3, <3>6, <3>7, EventStep DEF R
    <3>12. \/ /\ e = [kind |-> "payment", id |-> e.id] /\ e.id \in Active(k) /\ e.id \notin Done(k, U)
              /\ EventDay(k, e) \in Nat
              /\ g[S \cup {n}] = ReplayPayment(g[U], e.id, EventDay(k, e), today)
           \/ /\ e = [kind |-> "refund", id |-> e.id] /\ e.id \in DOMAIN k.refunds
              /\ g[S \cup {n}] = ReplayRefund(g[U], e.id)
      BY <3>4, <3>6, <3>7, EventStep
    <3>13. CASE e.kind = "payment"
      <4> DEFINE p == e.id
                 x == EventDay(h, e)
      <4>1. /\ p \in Active(h) /\ p \in Active(k) /\ p \notin Done(h, R) /\ p \notin Done(k, U)
            /\ x \in Nat /\ f[S] = ReplayPayment(f[R], p, x, today)
            /\ g[S \cup {n}] = ReplayPayment(g[U], p, x, today)
        BY <3>7, <3>11, <3>12, <3>13
      <4>2. PaidUntil(h, R, x)
        BY <3>9 DEF PaidUntil
      <4> HIDE DEF p, x
      <4>3. /\ Shifted(f[S], g[S \cup {n}], amount) /\ g[S \cup {n}].overdrawn = g[U].overdrawn
            /\ f[S].overdrawn = f[R].overdrawn
        BY <1>0, <3>6, <3>7, <4>1, <4>2, ShiftedPayment
      <4> QED
        BY <3>8, <3>10, <4>3
    <3>14. CASE e.kind = "refund"
      <4> DEFINE q == e.id
      <4>1. /\ q \in DOMAIN h.refunds /\ q \in DOMAIN k.refunds
            /\ f[S] = ReplayRefund(f[R], q) /\ g[S \cup {n}] = ReplayRefund(g[U], q)
        BY <3>11, <3>12, <3>14
      <4> HIDE DEF q
      <4>2. Shifted(f[S], g[S \cup {n}], amount)
        BY <1>0, <3>6, <3>7, <4>1, ShiftedRefund
      <4> QED
        BY <3>3, <3>14, <4>2
    <3> QED
      BY <3>11, <3>13, <3>14
  <2> QED
    BY <2>1, <2>2
<1> HIDE DEF Q
<1>9. \A S \in SUBSET Events(h) : S \in Q
  BY <1>2, <1>8, SubsetInduction
<1> QED
  BY <1>9 DEF Q, f, g, ShiftedAfter

\* A reallocation leaves the history of a contract as it is.
LEMMA SameHistory ==
  ASSUME NEW c, Billable(c), NEW d, Billable(d), Untouched(c, d), Reallocates(c, d)
  PROVE  History(d) = History(c)
<1>1. ContractRow(c) /\ ContractRow(d)
  BY DEF Billable, LedgerRows
<1>2. DOMAIN d.payments = DOMAIN c.payments
  BY DEF Reallocates
<1>3. \A p \in DOMAIN c.payments : BlankRow(d.payments[p]) = BlankRow(c.payments[p])
  <2> SUFFICES ASSUME NEW p \in DOMAIN c.payments
               PROVE  BlankRow(d.payments[p]) = BlankRow(c.payments[p])
    OBVIOUS
  <2>1. PICK x, y : x = c.payments[p] /\ y = d.payments[p]
    OBVIOUS
  <2>2. PaymentRow(x) /\ PaymentRow(y)
    BY <1>2, <2>1, BillableFacts, PaymentTypeFacts
  <2>3. y.amount = x.amount /\ y.at = x.at /\ y.reversed = x.reversed
    BY <2>1 DEF Reallocates
  <2> QED
    BY <2>1, <2>2, <2>3, BlankRowIs
<1>4. [p \in DOMAIN d.payments |-> BlankRow(d.payments[p])]
        = [p \in DOMAIN c.payments |-> BlankRow(c.payments[p])]
  BY <1>2, <1>3
<1> QED
  BY <1>1, <1>4, HistoryIs DEF Untouched

\* Nothing is dated after today in the history of a contract without payments in the
\* future.
LEMMA PastOf ==
  ASSUME NEW c, Billable(c), now \in Nat, Dated(c, now), NEW h, h = History(c)
  PROVE  Past(h, Today)
<1>1. Reallocates(c, h) /\ Active(h) = Active(c)
  BY HistoryBlank
<1> SUFFICES ASSUME NEW p \in Active(h) PROVE MoscowDay(h.payments[p].at) <= Today
  BY DEF Past
<1>2. p \in DOMAIN c.payments
  BY <1>1 DEF Active
<1>3. h.payments[p].at = c.payments[p].at /\ c.payments[p].at \in Nat /\ c.payments[p].at <= now
  BY <1>1, <1>2, BillableFacts, PaymentTypeFacts DEF Dated, Reallocates
<1> QED
  BY <1>3, AskedFor

-----------------------------------------------------------------------------
(* A contract and the stages of its replay *)

\* The contract c has the rows of every stage of the replay of h, up to the first that
\* runs out of credit, and the credit of the last one.
Matched(c, h, today) ==
    /\ \A S \in SUBSET Events(h) :
          Closed(h, S) /\ ~Stages(h, today)[S].overdrawn => RowsKept(h, S, Stages(h, today)[S].c, c)
    /\ ~Stages(h, today)[Events(h)].overdrawn => c.credit = Stages(h, today)[Events(h)].credit

\* The journal through the day of a payment covers the penalty accrued before it.
JournalCovers(c, today) ==
    \A p \in Active(c) :
        AccruedBefore(c, MoscowDay(c.payments[p].at), today)
          <= JournalSum(c, MoscowDay(c.payments[p].at))

\* Rows kept of one stage are kept of another that is like it.
LEMMA RowsKeptAlike ==
  ASSUME NEW h, NEW k, NEW S, NEW T, NEW c, NEW d, SameRows(c, d),
         Done(k, T) = Done(h, S), Done(h, S) \subseteq DOMAIN c.payments,
         NEW b, RowsKept(h, S, c, b), NEW e,
         \A p \in Done(h, S) : /\ e.payments[p].alloc = b.payments[p].alloc
                               /\ e.payments[p].partial = b.payments[p].partial
                               /\ e.payments[p].penalty = b.payments[p].penalty
  PROVE  RowsKept(k, T, d, e)
BY DEF RowsKept, SameRows, SameAllocations

\* The payments of a stage are those of the history.
LEMMA StageRows ==
  ASSUME NEW h, Blank(h), NEW today \in Nat
  PROVE  \A S \in SUBSET Events(h) :
           /\ DOMAIN Stages(h, today)[S].c.payments = DOMAIN h.payments
           /\ Done(h, S) \subseteq DOMAIN h.payments
           /\ Stages(h, today)[S].overdrawn \in BOOLEAN
<1> SUFFICES ASSUME NEW S \in SUBSET Events(h)
             PROVE  /\ DOMAIN Stages(h, today)[S].c.payments = DOMAIN h.payments
                    /\ Done(h, S) \subseteq DOMAIN h.payments
                    /\ Stages(h, today)[S].overdrawn \in BOOLEAN
  OBVIOUS
<1>1. PICK s : s = Stages(h, today)[S]
  OBVIOUS
<1>2. Underway(h, S, s)
  BY <1>1, StagesKeep DEF StageKept
<1> QED
  BY <1>1, <1>2 DEF Underway, Reallocates, Done, Active

\* Time alone changes nothing.
LEMMA MatchedLater ==
  ASSUME NEW h, Blank(h), NEW c, NEW today \in Nat, NEW later \in Nat, today <= later,
         Past(h, today), Matched(c, h, today)
  PROVE  /\ Matched(c, h, later)
         /\ Stages(h, later)[Events(h)].overdrawn = Stages(h, today)[Events(h)].overdrawn
<1> DEFINE f == Stages(h, today)
           g == Stages(h, later)
<1>1. \A S \in SUBSET Events(h) : Alike(f[S], g[S])
  <2>1. Follows(h, h)
    BY DEF Follows
  <2> QED
    BY <2>1, AlikeStages
<1>2. \A S \in SUBSET Events(h) : /\ DOMAIN f[S].c.payments = DOMAIN h.payments
                                  /\ Done(h, S) \subseteq DOMAIN h.payments
  BY StageRows
<1>3. /\ \A S \in SUBSET Events(h) : Closed(h, S) /\ ~f[S].overdrawn => RowsKept(h, S, f[S].c, c)
      /\ ~f[Events(h)].overdrawn => c.credit = f[Events(h)].credit
  BY DEF Matched
<1> HIDE DEF f, g
<1>4. ASSUME NEW S \in SUBSET Events(h), Closed(h, S), ~g[S].overdrawn
      PROVE  RowsKept(h, S, g[S].c, c)
  <2>1. Alike(f[S], g[S])
    BY <1>1
  <2>2. SameRows(f[S].c, g[S].c) /\ ~f[S].overdrawn
    BY <1>4, <2>1 DEF Alike
  <2>3. RowsKept(h, S, f[S].c, c) /\ Done(h, S) \subseteq DOMAIN f[S].c.payments
    BY <1>2, <1>3, <1>4, <2>2
  <2> QED
    BY <2>2, <2>3, RowsKeptAlike
<1>5. /\ g[Events(h)].overdrawn = f[Events(h)].overdrawn
      /\ g[Events(h)].credit = f[Events(h)].credit
  BY <1>1 DEF Alike
<1> QED
  BY <1>3, <1>4, <1>5 DEF Matched, f, g

\* A reconciliation leaves the rows of its replay.
LEMMA MatchedReconciled ==
  ASSUME NEW c, Billable(c), now \in Nat, NEW d, AfterReplay(c, d), ~ReplayRefused(c, Today),
         NEW h, h = History(c)
  PROVE  Matched(d, h, Today) /\ ~Stages(h, Today)[Events(h)].overdrawn
<1> DEFINE f == Stages(h, Today)
           r == Replay(c, Today)
<1>1. Today \in Nat /\ Blank(h) /\ Active(h) = Active(c)
  BY TodayNat, HistoryBlank
<1>2. f[Events(h)] = r
  BY <1>1, StagesAre DEF Replay
<1>3. ~r.overdrawn
  BY DEF ReplayRefused, Refuses
<1>4. /\ d.credit = r.credit
      /\ \A p \in Active(c) : /\ d.payments[p].alloc = r.c.payments[p].alloc
                              /\ d.payments[p].partial = r.c.payments[p].partial
                              /\ d.payments[p].penalty = r.c.payments[p].penalty
  BY DEF AfterReplay
<1>5. ASSUME NEW S \in SUBSET Events(h), Closed(h, S)
      PROVE  RowsKept(h, S, f[S].c, d)
  <2>1. RowsKept(h, S, f[S].c, f[Events(h)].c)
    BY <1>1, <1>5, Persists
  <2>2. Done(h, S) \subseteq Active(c)
    BY <1>1 DEF Done
  <2> HIDE DEF f, r
  <2> QED
    BY <1>2, <1>4, <2>1, <2>2 DEF RowsKept
<1> HIDE DEF r
<1> QED
  BY <1>2, <1>3, <1>4, <1>5 DEF Matched

\* A fresh journal covers the penalty accrued before any day of the past.
LEMMA FreshCovers ==
  ASSUME NEW d, Billable(d), NEW today \in Nat, d.log = FreshJournal(d, today),
         NEW day \in Nat, day <= today
  PROVE  AccruedBefore(d, day, today) <= JournalSum(d, day)
<1> DEFINE J == JournalDays(d, today)
           V == {x \in J : x <= day}
           D == DaysBefore(d, day, today)
           U == {x \in D : OverdueSum(d, x) > 0}
           f == [x \in J |-> DailyPenalty(OverdueSum(d, x))]
           g == [x \in D |-> DailyPenalty(OverdueSum(d, x))]
<1>1. Fits(d) /\ Ends(d)
  BY BillableFacts
<1>2. /\ d.log = f /\ IsFiniteSet(J)
      /\ \A x \in J : f[x] \in Nat
  BY <1>1, FreshJournalIs
<1>3. DOMAIN d.log = J
  BY <1>2
<1>4. /\ IsFiniteSet(D) /\ D \subseteq Nat
      /\ \A x \in Nat : x \in D <=> /\ PenaltyStart(d) # None /\ PenaltyStart(d) <= x
                                    /\ x < day /\ x <= PenaltyEnd(d, today)
  BY <1>1, DaysFacts
<1>5. \A x \in Nat : x \in DaysBefore(d, today + 1, today) <=>
                        /\ PenaltyStart(d) # None /\ PenaltyStart(d) <= x
                        /\ x < today + 1 /\ x <= PenaltyEnd(d, today)
  <2>1. today + 1 \in Int
    OBVIOUS
  <2> QED
    BY <1>1, <2>1, DaysFacts
<1>6. \A x \in D : /\ OverdueSum(d, x) \in Nat /\ g[x] \in Nat
                   /\ OverdueSum(d, x) = 0 => g[x] = 0
  <2> SUFFICES ASSUME NEW x \in D
               PROVE  /\ OverdueSum(d, x) \in Nat /\ g[x] \in Nat
                      /\ OverdueSum(d, x) = 0 => g[x] = 0
    OBVIOUS
  <2>1. OverdueSum(d, x) \in Nat
    BY <1>1, <1>4, OverdueNat
  <2>2. DailyPenalty(OverdueSum(d, x)) \in Nat
    BY <2>1, DailyPenaltyNat
  <2> QED
    BY <2>1, <2>2, DailyPenaltyZero
<1>7. U \in SUBSET V
  <2> SUFFICES ASSUME NEW x \in U PROVE x \in V
    OBVIOUS
  <2>1. x \in Nat /\ x < day /\ x < today + 1
    BY <1>4
  <2>2. x \in DaysBefore(d, today + 1, today)
    BY <1>4, <1>5, <2>1
  <2> QED
    BY <2>1, <2>2 DEF JournalDays
<1>8. \A x \in U : f[x] = g[x]
  BY <1>7
<1>9. /\ \A x \in D \ U : OverdueSum(d, x) = 0
      /\ U \in SUBSET D /\ V \in SUBSET J
  BY <1>6
<1>10. JournalSum(d, day) = SumOver(f, V)
  BY <1>2, <1>3 DEF JournalSum
<1>11. AccruedBefore(d, day, today) = SumOver(g, D)
  BY AccruedDef
<1> HIDE DEF J, V, D, U, f, g
<1>12. SumOver(g, U) = SumOver(g, D)
  <2>1. \A x \in D : g[x] \in Int
    BY <1>6
  <2>2. \A x \in D \ U : g[x] = 0
    BY <1>6, <1>9
  <2> QED
    BY <1>4, <1>9, <2>1, <2>2, SumSupport
<1>13. IsFiniteSet(U) /\ IsFiniteSet(V)
  BY <1>2, <1>4, <1>9, FS_Subset
<1>14. SumOver(g, U) = SumOver(f, U)
  <2>1. \A x \in U : g[x] \in Int /\ g[x] = f[x]
    BY <1>6, <1>8, <1>9
  <2> QED
    BY <1>13, <2>1, SumEqual
<1>15. SumOver(f, U) <= SumOver(f, V)
  <2>1. \A x \in V : f[x] \in Int
    BY <1>2, <1>9
  <2>2. \A x \in V \ U : f[x] >= 0
    BY <1>2, <1>9
  <2> QED
    BY <1>7, <1>13, <2>1, <2>2, SumSubset
<1> QED
  BY <1>10, <1>11, <1>12, <1>14, <1>15

ReceivedUntil(c, day) == {p \in Active(c) : c.payments[p].at <= Midnight(day)}
RefundedUntil(c, day) == {r \in DOMAIN c.refunds : c.refunds[r].day <= day}
ChargedTotal(c) == SumOver([i \in AccrualIds |-> Total(c, i)], Live(c))

\* An overpayment is what was received beyond the charges and the refunds.
LEMMA OverpaymentIs ==
  ASSUME NEW c, Billable(c), NEW day \in Nat, Overpayment(c, day) > 0
  PROVE  /\ SumOver(PaidSums(c), ReceivedUntil(c, day)) \in Int
         /\ SumOver(RefundSums(c), RefundedUntil(c, day)) \in Int
         /\ ChargedTotal(c) \in Int /\ JournalSum(c, day) \in Nat
         /\ Overpayment(c, day)
              = SumOver(PaidSums(c), ReceivedUntil(c, day)) - (JournalSum(c, day) + ChargedTotal(c))
                  - SumOver(RefundSums(c), RefundedUntil(c, day))
<1> DEFINE S == ReceivedUntil(c, day)
           R == RefundedUntil(c, day)
           f == [i \in AccrualIds |-> Total(c, i)]
<1>1. SumOver(PaidSums(c), S) \in Int
  <2>1. IsFiniteSet(S) /\ S \subseteq DOMAIN c.payments
    <3>1. S \subseteq Active(c) /\ IsFiniteSet(Active(c)) /\ Active(c) \subseteq DOMAIN c.payments
      BY BillableFacts DEF ReceivedUntil
    <3> QED
      BY <3>1, FS_Subset
  <2>2. \A p \in S : PaidSums(c)[p] \in Int
    <3>1. \A p \in DOMAIN c.payments : c.payments[p].amount \in Nat
      BY BillableFacts, PaymentTypeFacts
    <3> QED
      BY <2>1, <3>1 DEF PaidSums
  <2> HIDE DEF S
  <2> QED
    BY <2>1, <2>2, SumInt
<1>2. SumOver(RefundSums(c), R) \in Int
  <2>1. IsFiniteSet(R) /\ R \subseteq DOMAIN c.refunds
    <3>1. R \subseteq DOMAIN c.refunds /\ IsFiniteSet(DOMAIN c.refunds)
      BY BillableFacts DEF RefundedUntil
    <3> QED
      BY <3>1, FS_Subset
  <2>2. \A r \in R : RefundSums(c)[r] \in Int
    <3>1. \A r \in DOMAIN c.refunds : c.refunds[r].amount \in Nat
      BY BillableFacts DEF RefundsFit
    <3> QED
      BY <2>1, <3>1 DEF RefundSums
  <2> HIDE DEF R
  <2> QED
    BY <2>1, <2>2, SumInt
<1>3. SumOver(f, Live(c)) \in Int
  <2>1. IsFiniteSet(Live(c)) /\ Live(c) \subseteq AccrualIds
    BY MonthsFacts, FS_Subset DEF Live
  <2>2. \A i \in Live(c) : f[i] \in Int
    BY <2>1 DEF Billable
  <2> HIDE DEF f
  <2> QED
    BY <2>1, <2>2, SumInt
<1>4. JournalSum(c, day) \in Nat
  BY JournalSumNat DEF Billable
<1>5. Overpayment(c, day)
        = Max({SumOver(PaidSums(c), S) - (JournalSum(c, day) + SumOver(f, Live(c)))
                 - SumOver(RefundSums(c), R), 0})
  BY DEF Overpayment, ReceivedUntil, RefundedUntil
<1>6. ChargedTotal(c) = SumOver(f, Live(c))
  BY DEF ChargedTotal
<1> HIDE DEF S, R, f
<1>7. PICK m \in Int : m = SumOver(PaidSums(c), S) - (JournalSum(c, day) + SumOver(f, Live(c)))
                 - SumOver(RefundSums(c), R)
  BY <1>1, <1>2, <1>3, <1>4
<1>8. Max({m, 0}) = m \/ Max({m, 0}) = 0
  <2>1. 0 \in Int
    OBVIOUS
  <2> QED
    BY <1>7, <2>1, MaxOf, Zenon
<1>9. Overpayment(c, day) = m
  BY <1>5, <1>7, <1>8
<1> QED
  BY <1>1, <1>2, <1>3, <1>4, <1>6, <1>7, <1>9 DEF S, R

\* No more is allocated than is charged.
LEMMA AllocatedIsCharged ==
  ASSUME NEW c, Fits(c), Within(c)
  PROVE  AllocatedTotal(c) <= ChargedTotal(c)
<1> DEFINE f == [i \in AccrualIds |-> Allocated(c, i)]
           g == [i \in AccrualIds |-> Total(c, i)]
<1>1. \A i \in AccrualIds : /\ f[i] \in Nat /\ g[i] \in Nat /\ c.voided[i] \in BOOLEAN
                            /\ f[i] <= IF c.voided[i] THEN 0 ELSE g[i]
  BY AllocatedNat DEF Fits, Within
<1>2. IsFiniteSet(AccrualIds) /\ Live(c) \in SUBSET AccrualIds /\ IsFiniteSet(Live(c))
  BY MonthsFacts, FS_Subset DEF Live
<1>3. /\ \A i \in AccrualIds \ Live(c) : f[i] = 0
      /\ \A i \in Live(c) : f[i] <= g[i]
  BY <1>1 DEF Live
<1>4. AllocatedTotal(c) = SumOver(f, AccrualIds) /\ ChargedTotal(c) = SumOver(g, Live(c))
  BY DEF AllocatedTotal, ChargedTotal
<1> HIDE DEF f, g
<1>5. SumOver(f, Live(c)) = SumOver(f, AccrualIds)
  <2>1. \A i \in AccrualIds : f[i] \in Int
    BY <1>1
  <2> QED
    BY <1>2, <1>3, <2>1, SumSupport
<1>6. SumOver(f, Live(c)) <= SumOver(g, Live(c))
  <2>1. \A i \in Live(c) : f[i] \in Int /\ g[i] \in Int /\ f[i] <= g[i]
    BY <1>1, <1>2, <1>3
  <2> QED
    BY <1>2, <2>1, SumLess
<1> QED
  BY <1>4, <1>5, <1>6

\* The events until a day come before the others.
LEMMA UntilClosed ==
  ASSUME NEW h, Blank(h), NEW day \in Nat
  PROVE  /\ Until(h, day) \in SUBSET Events(h) /\ Closed(h, Until(h, day))
         /\ \A p \in Active(h) : p \in Done(h, Until(h, day)) <=> MoscowDay(h.payments[p].at) <= day
         /\ GivenBack(h, Until(h, day)) = RefundedUntil(h, day)
<1>1. Fits(h) /\ RefundsFit(h) /\ DOMAIN h.payments \subseteq Nat
  BY DEF Blank
<1>2. Closed(h, Until(h, day))
  <2> SUFFICES ASSUME NEW a \in Until(h, day), NEW b \in Events(h), EventBefore(h, b, a)
               PROVE  b \in Until(h, day)
    BY DEF Closed, Until
  <2>1. a \in Events(h) /\ EventDay(h, a) <= day
    BY DEF Until
  <2>2. EventDay(h, b) <= EventDay(h, a)
    BY <1>1, <2>1, EventOrder
  <2>3. EventDay(h, a) \in Nat /\ EventDay(h, b) \in Nat
    BY <1>1, <2>1, EventsFacts
  <2> QED
    BY <2>1, <2>2, <2>3 DEF Until
<1>3. ASSUME NEW p \in Active(h)
      PROVE  p \in Done(h, Until(h, day)) <=> MoscowDay(h.payments[p].at) <= day
  <2>1. PICK e : e = [kind |-> "payment", id |-> p]
    OBVIOUS
  <2>2. e \in Events(h) /\ EventDay(h, e) = MoscowDay(h.payments[p].at)
    BY <2>1 DEF Events, EventDay
  <2> QED
    BY <2>1, <2>2 DEF Done, Until
<1>4. ASSUME NEW r \in DOMAIN h.refunds
      PROVE  r \in GivenBack(h, Until(h, day)) <=> h.refunds[r].day <= day
  <2>1. PICK e : e = [kind |-> "refund", id |-> r]
    OBVIOUS
  <2>2. e \in Events(h) /\ EventDay(h, e) = h.refunds[r].day
    BY <2>1 DEF Events, EventDay
  <2> QED
    BY <2>1, <2>2 DEF GivenBack, Until
<1>5. GivenBack(h, Until(h, day)) = RefundedUntil(h, day)
  BY <1>4 DEF GivenBack, RefundedUntil
<1> QED
  BY <1>2, <1>3, <1>5 DEF Until

\* The penalty paid by the payments until a day is in the journal of the day.
LEMMA PenaltyOfStage ==
  ASSUME NEW c, Billable(c), NEW h, h = History(c), NEW today \in Nat, JournalCovers(c, today),
         NEW day \in Nat, NEW P, P = Until(h, day), NEW s, StageKept(h, P, s, today),
         RowsKept(h, P, s.c, c)
  PROVE  s.penaltyPaid <= JournalSum(c, day)
<1>1. /\ Blank(h) /\ Reallocates(c, h) /\ Reallocates(h, c) /\ Active(h) = Active(c)
      /\ Fits(c) /\ Ends(c) /\ LedgerRows(c)
  BY HistoryBlank, BillableFacts DEF Billable
<1>2. Underway(h, P, s) /\ Covered(h, P, s, today)
  BY DEF StageKept
<1>3. /\ Fits(s.c) /\ Reallocates(h, s.c) /\ s.penaltyPaid \in Nat
  BY <1>2 DEF Underway
<1>4. /\ P \in SUBSET Events(h)
      /\ \A p \in Active(h) : p \in Done(h, P) <=> MoscowDay(h.payments[p].at) <= day
  BY <1>1, UntilClosed
<1>5. \A p \in DOMAIN c.payments : h.payments[p].at = c.payments[p].at /\ c.payments[p].at \in Nat
  BY <1>1, BillableFacts, PaymentTypeFacts DEF Reallocates
<1>6. \A e \in P : e.kind = "payment" => e.id \in Done(h, P) /\ e = [kind |-> "payment", id |-> e.id]
  <2> SUFFICES ASSUME NEW e \in P, e.kind = "payment"
               PROVE  e.id \in Done(h, P) /\ e = [kind |-> "payment", id |-> e.id]
    OBVIOUS
  <2>1. e \in Events(h)
    BY <1>4
  <2>2. e = [kind |-> e.kind, id |-> e.id] /\ e.id \in Active(h)
    BY <1>1, <2>1, EventsFacts DEF Blank
  <2>3. e = [kind |-> "payment", id |-> e.id]
    BY <2>2
  <2> QED
    BY <2>2, <2>3 DEF Done
<1>7. CASE Done(h, P) = {}
  <2>1. PaidUntil(h, P, 0)
    BY <1>6, <1>7 DEF PaidUntil
  <2>2. s.penaltyPaid <= AccruedBefore(s.c, 0, today)
    BY <1>2, <2>1 DEF Covered
  <2>3. AccruedBefore(s.c, 0, today) = 0
    <3>1. Ends(s.c)
      BY <1>1, <1>3 DEF Ends, Reallocates
    <3>2. DaysBefore(s.c, 0, today) = {}
      <4>1. /\ DaysBefore(s.c, 0, today) \subseteq Nat
            /\ \A d \in Nat : d \in DaysBefore(s.c, 0, today) => d < 0
        BY <3>1, DaysFacts
      <4> QED
        BY <4>1
    <3>3. AccruedBefore(s.c, 0, today)
            = SumOver([d \in DaysBefore(s.c, 0, today) |-> DailyPenalty(OverdueSum(s.c, d))],
                      DaysBefore(s.c, 0, today))
      BY AccruedDef
    <3> HIDE DEF AccruedBefore
    <3> QED
      BY <3>2, <3>3, SumEmpty
  <2>4. JournalSum(c, day) \in Nat
    BY <1>1, JournalSumNat
  <2> QED
    BY <1>3, <2>2, <2>3, <2>4
<1>8. CASE Done(h, P) # {}
  <2> DEFINE D == {MoscowDay(c.payments[p].at) : p \in Done(h, P)}
  <2>1. Done(h, P) \subseteq Active(c) /\ Active(c) \subseteq DOMAIN c.payments
    BY <1>1 DEF Done, Active
  <2>2. D \subseteq Nat /\ IsFiniteSet(D) /\ D # {}
    <3>1. \A p \in Done(h, P) : MoscowDay(c.payments[p].at) \in Nat
      BY <1>5, <2>1, TimeFacts
    <3>2. \A p \in Done(h, P) : MoscowDay(c.payments[p].at) <= day
      BY <1>1, <1>4, <1>5, <2>1
    <3>3. D \subseteq 0..day
      BY <3>1, <3>2
    <3>4. IsFiniteSet(0..day)
      BY FS_Interval
    <3>5. IsFiniteSet(D)
      BY <3>3, <3>4, FS_Subset
    <3> QED
      BY <1>8, <3>1, <3>5
  <2>3. \E x \in D : \A y \in D : y <= x
    <3>1. \A T \in SUBSET D : T # {} => \E x \in T : \A y \in T : y <= x
      <4> HIDE DEF D
      <4> QED
        BY <2>2, LargestOf
    <3> HIDE DEF D
    <3> QED
      BY <2>2, <3>1
  <2>4. PICK last \in D : \A y \in D : y <= last
    BY <2>3
  <2>5. PICK q \in Done(h, P) : last = MoscowDay(c.payments[q].at)
    BY <2>4
  <2>6. last \in Nat /\ q \in Active(c)
    BY <2>1, <2>2, <2>4
  <2>7. last <= day
    BY <1>1, <1>4, <1>5, <2>1, <2>5
  <2>8. PaidUntil(h, P, last)
    <3> SUFFICES ASSUME NEW e \in P, e.kind = "payment" PROVE EventDay(h, e) <= last
      BY DEF PaidUntil
    <3>1. e.id \in Done(h, P) /\ e.id \in DOMAIN c.payments
      BY <1>6, <2>1
    <3>2. EventDay(h, e) = MoscowDay(c.payments[e.id].at)
      BY <1>5, <3>1 DEF EventDay
    <3> QED
      BY <2>4, <3>1, <3>2
  <2> HIDE DEF D
  <2>9. s.penaltyPaid <= AccruedBefore(s.c, last, today)
    BY <1>2, <2>6, <2>8 DEF Covered
  <2>10. AccruedBefore(s.c, last, today) = AccruedBefore(c, last, today)
    <3>1. Reallocates(c, s.c)
      BY <1>1, <1>3, ReallocatesTwice
    <3>2. ASSUME NEW x \in Nat, x < last, NEW p \in PaidBy(c, x)
          PROVE  s.c.payments[p].alloc = c.payments[p].alloc
      <4>1. p \in Active(c) /\ p \in DOMAIN c.payments /\ MoscowDay(c.payments[p].at) <= x
        BY <2>1, <3>2 DEF PaidBy
      <4>2. MoscowDay(c.payments[p].at) \in Nat
        BY <1>5, <4>1, TimeFacts
      <4>3. MoscowDay(c.payments[p].at) <= day
        BY <2>6, <2>7, <3>2, <4>1, <4>2
      <4>4. p \in Done(h, P)
        BY <1>1, <1>4, <1>5, <4>1, <4>3
      <4> QED
        BY <4>4 DEF RowsKept
    <3>3. \A x \in Nat : PaidBy(s.c, x) = PaidBy(c, x)
      BY <3>1, ReallocatesFacts
    <3>4. SameBefore(c, s.c, last)
      BY <3>1, <3>2, <3>3 DEF SameBefore, Reallocates
    <3>5. last \in Int
      BY <2>6
    <3> QED
      BY <1>1, <1>3, <3>4, <3>5, AccruedSame
  <2>11. AccruedBefore(c, last, today) <= JournalSum(c, last)
    BY <2>5, <2>6 DEF JournalCovers
  <2>12. JournalSum(c, last) <= JournalSum(c, day)
    <3>1. last \in Int /\ day \in Int
      BY <2>6
    <3> QED
      BY <2>7, <3>1, JournalSumGrows
  <2>13. /\ JournalSum(c, last) \in Nat /\ JournalSum(c, day) \in Nat
         /\ AccruedBefore(c, last, today) \in Nat
    <3>1. last \in Int /\ day \in Int /\ last <= last
      BY <2>6
    <3>2. AccruedBefore(c, last, today) \in Nat
      BY <1>1, <3>1, AccruedGrows
    <3> QED
      BY <1>1, <3>1, <3>2, JournalSumNat
  <2> QED
    BY <1>3, <2>9, <2>10, <2>11, <2>12, <2>13
<1> QED
  BY <1>7, <1>8

\* What the contract has been overpaid on a day is in the credit that the replay has
\* on that day.
LEMMA CreditCovers ==
  ASSUME NEW c, Billable(c), NEW h, h = History(c), NEW today \in Nat,
         Matched(c, h, today), JournalCovers(c, today),
         NEW day \in Nat, NEW P, P = Until(h, day), NEW s, s = Stages(h, today)[P], ~s.overdrawn,
         NEW amount \in Nat, amount > 0, amount <= Overpayment(c, day)
  PROVE  amount <= s.credit
<1>1. /\ Blank(h) /\ Reallocates(c, h) /\ Reallocates(h, c) /\ Active(h) = Active(c)
      /\ Fits(c) /\ h.refunds = c.refunds /\ DOMAIN h.payments = DOMAIN c.payments
  BY HistoryBlank, BillableFacts
<1>2. /\ P \in SUBSET Events(h) /\ Closed(h, P)
      /\ \A p \in Active(h) : p \in Done(h, P) <=> MoscowDay(h.payments[p].at) <= day
      /\ GivenBack(h, P) = RefundedUntil(h, day)
  BY <1>1, UntilClosed
<1>3. StageKept(h, P, s, today)
  BY <1>1, <1>2, StagesKeep
<1>4. Underway(h, P, s) /\ Balanced(h, P, s)
  BY <1>3 DEF StageKept
<1>5. /\ s.credit \in Nat
      /\ SumOver(PaidSums(h), Done(h, P))
           = AllocatedTotal(s.c) + s.penaltyPaid + s.credit + SumOver(RefundSums(h), GivenBack(h, P))
  BY <1>4 DEF Balanced
<1>6. RowsKept(h, P, s.c, c)
  BY <1>2 DEF Matched
<1>7. s.penaltyPaid <= JournalSum(c, day) /\ s.penaltyPaid \in Nat
  BY <1>3, <1>4, <1>6, PenaltyOfStage DEF Underway
<1>8. AllocatedTotal(s.c) <= ChargedTotal(c)
  <2>1. Fits(s.c) /\ Within(s.c) /\ Reallocates(c, s.c)
    BY <1>1, <1>4, ReallocatesTwice DEF Underway
  <2>2. Live(s.c) = Live(c) /\ \A i : Total(s.c, i) = Total(c, i)
    BY <2>1, ReallocatesFacts
  <2>3. ChargedTotal(s.c) = ChargedTotal(c)
    BY <2>2 DEF ChargedTotal
  <2>4. AllocatedTotal(s.c) <= ChargedTotal(s.c)
    BY <2>1, AllocatedIsCharged
  <2> QED
    BY <2>3, <2>4
<1>9. AllocatedTotal(s.c) \in Int
  <2> DEFINE f == [i \in AccrualIds |-> Allocated(s.c, i)]
  <2>1. \A i \in AccrualIds : f[i] \in Int
    BY <1>4, AllocatedNat DEF Underway
  <2>2. AllocatedTotal(s.c) = SumOver(f, AccrualIds)
    BY DEF AllocatedTotal
  <2> HIDE DEF f
  <2> QED
    BY <2>1, <2>2, SumInt, MonthsFacts
<1>10. SumOver(PaidSums(c), ReceivedUntil(c, day)) <= SumOver(PaidSums(h), Done(h, P))
  <2> DEFINE U == ReceivedUntil(c, day)
             D == Done(h, P)
  <2>1. IsFiniteSet(D) /\ D \subseteq DOMAIN h.payments
        /\ \A p \in DOMAIN h.payments : PaidSums(h)[p] = h.payments[p].amount /\ PaidSums(h)[p] \in Int
    BY <1>1, DoneFinite
  <2>2. \A p \in DOMAIN h.payments : h.payments[p].amount \in Nat /\ PaidSums(c)[p] = PaidSums(h)[p]
    <3>1. \A p \in DOMAIN c.payments : c.payments[p].amount = h.payments[p].amount
                                       /\ c.payments[p].amount \in Nat
      BY <1>1, BillableFacts, PaymentTypeFacts DEF Reallocates
    <3> QED
      BY <1>1, <3>1 DEF PaidSums
  <2>3. U \in SUBSET D
    <3> SUFFICES ASSUME NEW p \in U PROVE p \in D
      OBVIOUS
    <3>1. p \in Active(c) /\ p \in DOMAIN c.payments /\ c.payments[p].at <= Midnight(day)
      BY DEF ReceivedUntil, Active
    <3>2. c.payments[p].at \in Nat /\ h.payments[p].at = c.payments[p].at
      BY <1>1, <3>1, BillableFacts, PaymentTypeFacts DEF Reallocates
    <3>3. Midnight(day) \in Nat /\ MoscowDay(Midnight(day)) = day
      BY TimeFacts
    <3>4. MoscowDay(c.payments[p].at) <= day
      <4>1. PICK m \in Nat : m = Midnight(day)
        BY <3>3
      <4>2. MoscowDay(c.payments[p].at) <= MoscowDay(m)
        BY <3>1, <3>2, <4>1, TimeFacts
      <4> QED
        BY <3>3, <4>1, <4>2
    <3> QED
      BY <1>1, <1>2, <3>1, <3>2, <3>4
  <2> HIDE DEF U, D
  <2>4. IsFiniteSet(U)
    BY <2>1, <2>3, FS_Subset
  <2>5. SumOver(PaidSums(c), U) = SumOver(PaidSums(h), U)
    <3>1. \A p \in U : PaidSums(c)[p] \in Int /\ PaidSums(c)[p] = PaidSums(h)[p]
      BY <2>1, <2>2, <2>3
    <3> QED
      BY <2>4, <3>1, SumEqual
  <2>6. SumOver(PaidSums(h), U) <= SumOver(PaidSums(h), D)
    <3>1. \A p \in D : PaidSums(h)[p] \in Int
      BY <2>1
    <3>2. \A p \in D \ U : PaidSums(h)[p] >= 0
      BY <2>1, <2>2
    <3> QED
      BY <2>1, <2>3, <3>1, <3>2, SumSubset
  <2> QED
    BY <2>5, <2>6 DEF U, D
<1>11. SumOver(RefundSums(h), GivenBack(h, P)) = SumOver(RefundSums(c), RefundedUntil(c, day))
  BY <1>1, <1>2 DEF RefundSums, RefundedUntil
<1>12. Overpayment(c, day) > 0
  BY OverpaymentNat
<1>13. /\ SumOver(PaidSums(c), ReceivedUntil(c, day)) \in Int
       /\ SumOver(RefundSums(c), RefundedUntil(c, day)) \in Int
       /\ ChargedTotal(c) \in Int /\ JournalSum(c, day) \in Nat
       /\ Overpayment(c, day)
            = SumOver(PaidSums(c), ReceivedUntil(c, day)) - (JournalSum(c, day) + ChargedTotal(c))
                - SumOver(RefundSums(c), RefundedUntil(c, day))
  BY <1>12, OverpaymentIs
<1>14. SumOver(PaidSums(h), Done(h, P)) \in Int
  BY <1>5, <1>7, <1>9, <1>11, <1>13
<1> HIDE DEF Overpayment, JournalSum
<1> QED
  BY <1>5, <1>7, <1>8, <1>9, <1>10, <1>11, <1>13, <1>14

OrderedRefunds(c) ==
    \A r, q \in DOMAIN c.refunds : r < q => c.refunds[r].day <= c.refunds[q].day

\* After a refund the history has one refund more.
LEMMA RefundHistory ==
  ASSUME NEW c, Billable(c), NEW d, Billable(d), NEW amount, RefundPaid(c, d, amount),
         NEW h, h = History(c), NEW k, k = History(d), NEW r, r = Len(c.refunds) + 1
  PROVE  /\ Blank(h) /\ Blank(k) /\ OneMore(h, k, r)
         /\ k.refunds[r] = d.refunds[r] /\ k.refunds[r].amount = amount
<1>1. /\ Blank(h) /\ Blank(k) /\ h.refunds = c.refunds /\ k.refunds = d.refunds
  BY HistoryBlank
<1>2. /\ d.payments = c.payments /\ d.adj = c.adj /\ d.voided = c.voided
      /\ d.status = c.status /\ d.actualEnd = c.actualEnd
      /\ DOMAIN d.refunds = DOMAIN c.refunds \cup {r} /\ r \notin DOMAIN c.refunds
      /\ \A q \in DOMAIN c.refunds : d.refunds[q] = c.refunds[q]
      /\ d.refunds[r].amount = amount
  BY DEF RefundPaid
<1>3. /\ ContractRow(c) /\ ContractRow(d)
  BY DEF Billable, LedgerRows
<1>4. /\ k.payments = h.payments /\ k.adj = h.adj /\ k.voided = h.voided
      /\ k.status = h.status /\ k.actualEnd = h.actualEnd
  BY <1>2, <1>3, HistoryIs
<1>5. \A q \in DOMAIN c.refunds : q < r
  <2>1. Len(c.refunds) \in Nat /\ DOMAIN c.refunds = 1..Len(c.refunds)
    BY BillableFacts
  <2> QED
    BY <2>1
<1>6. Follows(h, k)
  BY <1>1, <1>2, <1>4 DEF Follows
<1> QED
  BY <1>1, <1>2, <1>5, <1>6 DEF OneMore

\* A refund leaves the rows of every stage, those of the new history included.
LEMMA RefundMatched ==
  ASSUME NEW c, Billable(c), NEW d, Billable(d), NEW amount \in Nat, amount > 0,
         RefundPaid(c, d, amount), NEW day \in Nat, d.refunds[Len(c.refunds) + 1].day = day,
         NEW today \in Nat, NEW h, h = History(c), NEW k, k = History(d), Past(h, today),
         Matched(c, h, today), JournalCovers(c, today), amount <= Overpayment(c, day),
         OrderedRefunds(c) => ~Stages(h, today)[Events(h)].overdrawn
  PROVE  /\ Matched(d, k, today)
         /\ OrderedRefunds(d) => ~Stages(k, today)[Events(k)].overdrawn
<1> DEFINE f == Stages(h, today)
           g == Stages(k, today)
<1>1. PICK r, n, P : /\ r = Len(c.refunds) + 1 /\ n = [kind |-> "refund", id |-> r]
                     /\ P = Until(h, day)
  OBVIOUS
<1>2. /\ Blank(h) /\ Blank(k) /\ OneMore(h, k, r) /\ Follows(h, k)
      /\ k.refunds[r].amount = amount /\ k.refunds[r].day = day
  BY <1>1, RefundHistory DEF OneMore
<1>3. /\ Active(h) = Active(c) /\ Active(k) = Active(h) /\ Active(c) \subseteq DOMAIN c.payments
      /\ h.refunds = c.refunds /\ k.refunds = d.refunds
  <2>1. Active(k) = Active(h)
    BY <1>2, FollowsOrder
  <2> QED
    BY <2>1, HistoryBlank, BillableFacts
<1>4. /\ P \in SUBSET Events(h) /\ Closed(h, P)
  BY <1>1, <1>2, UntilClosed
<1>5. /\ Events(k) = Events(h) \cup {n} /\ n \notin Events(h)
      /\ \A e \in P : EventBefore(k, e, n)
  <2>1. /\ Events(k) = Events(h) \cup {n} /\ n \notin Events(h)
        /\ \A e \in Events(h) : /\ e \in Until(h, day) => EventBefore(k, e, n) /\ ~EventBefore(k, n, e)
                                /\ e \notin Until(h, day) => EventBefore(k, n, e)
    BY <1>1, <1>2, OneMoreOrder
  <2> QED
    BY <1>1, <1>4, <2>1
<1>6. ~f[P].overdrawn => amount <= f[P].credit
  <2> SUFFICES ASSUME ~f[P].overdrawn PROVE amount <= f[P].credit
    OBVIOUS
  <2>1. PICK s : s = f[P] /\ ~s.overdrawn
    OBVIOUS
  <2>2. amount <= s.credit
    BY <1>1, <2>1, CreditCovers
  <2> QED
    BY <2>1, <2>2
<1>7. \A S \in SUBSET Events(h) : P \subseteq S =>
        /\ Shifted(f[S], g[S \cup {n}], amount)
        /\ (\A e \in S : e.kind = "refund" => e \in P) => g[S \cup {n}].overdrawn = f[S].overdrawn
  <2>1. /\ n = [kind |-> "refund", id |-> r] /\ day = k.refunds[r].day /\ P = Until(h, day)
        /\ amount = k.refunds[r].amount
    BY <1>1, <1>2
  <2>2. ~Stages(h, today)[P].overdrawn => amount <= Stages(h, today)[P].credit
    BY <1>6
  <2> HIDE DEF f, g
  <2>3. ShiftedAfter(h, k, n, P, amount, today)
    BY <1>2, <2>1, <2>2, ShiftedStages
  <2> QED
    BY <2>3 DEF f, g, ShiftedAfter
<1>8. \A S \in SUBSET Events(h) : Alike(f[S], g[S])
  BY <1>2, AlikeStages
<1>9. \A S \in SUBSET Events(h) : /\ Done(h, S) \subseteq DOMAIN f[S].c.payments
                                  /\ Done(h, S) \subseteq DOMAIN h.payments
                                  /\ f[S].overdrawn \in BOOLEAN
  BY <1>2, StageRows
<1>10. /\ \A S \in SUBSET Events(h) : Closed(h, S) /\ ~f[S].overdrawn => RowsKept(h, S, f[S].c, c)
       /\ ~f[Events(h)].overdrawn => c.credit = f[Events(h)].credit
  BY DEF Matched
<1>11. d.payments = c.payments /\ d.credit = c.credit - amount
  BY DEF RefundPaid
<1> HIDE DEF f, g
<1>12. ASSUME NEW S \in SUBSET Events(h), NEW T, Done(k, T) = Done(h, S), Closed(h, S),
              SameRows(f[S].c, g[T].c), ~f[S].overdrawn
       PROVE  RowsKept(k, T, g[T].c, d)
  <2>1. RowsKept(h, S, f[S].c, c) /\ Done(h, S) \subseteq DOMAIN f[S].c.payments
    BY <1>9, <1>10, <1>12
  <2> QED
    BY <1>11, <1>12, <2>1, RowsKeptAlike
<1>13. ASSUME NEW S \in SUBSET Events(k), Closed(k, S), ~g[S].overdrawn
       PROVE  RowsKept(k, S, g[S].c, d)
  <2> DEFINE R == S \ {n}
  <2>1. R \in SUBSET Events(h)
    BY <1>5
  <2>2. Closed(h, R)
    <3> SUFFICES ASSUME NEW a \in R, NEW b \in Events(h), EventBefore(h, b, a) PROVE b \in R
      BY <2>1 DEF Closed
    <3>1. EventBefore(k, b, a) /\ b \in Events(k) /\ b # n
      BY <1>2, <1>5, <2>1, FollowsOrder
    <3> QED
      BY <1>13, <3>1 DEF Closed
  <2>3. Done(k, S) = Done(h, R)
    <3>1. \A p : [kind |-> "payment", id |-> p] # n
      BY <1>1
    <3> QED
      BY <1>3, <3>1 DEF Done
  <2>4. CASE n \notin S
    <3>1. R = S
      BY <2>4
    <3>2. Alike(f[S], g[S])
      BY <1>8, <2>1, <3>1
    <3>3. SameRows(f[S].c, g[S].c) /\ ~f[S].overdrawn
      BY <1>13, <3>2 DEF Alike
    <3> QED
      BY <1>12, <2>1, <2>2, <2>3, <3>1, <3>3
  <2>5. CASE n \in S
    <3>1. P \subseteq R /\ R \cup {n} = S
      <4>1. \A e \in P : e \in S /\ e # n
        BY <1>4, <1>5, <1>13, <2>5 DEF Closed
      <4> QED
        BY <2>5, <4>1
    <3>2. Shifted(f[R], g[S], amount)
      BY <1>7, <2>1, <3>1
    <3>3. SameRows(f[R].c, g[S].c) /\ ~f[R].overdrawn
      BY <1>13, <3>2 DEF Shifted
    <3> HIDE DEF R
    <3> QED
      BY <1>12, <2>1, <2>2, <2>3, <3>3
  <2> QED
    BY <2>4, <2>5
<1>14. Shifted(f[Events(h)], g[Events(k)], amount)
  BY <1>4, <1>5, <1>7
<1>15. ~g[Events(k)].overdrawn => d.credit = g[Events(k)].credit
  BY <1>10, <1>11, <1>14 DEF Shifted
<1>16. ASSUME OrderedRefunds(d) PROVE ~g[Events(k)].overdrawn
  <2>1. /\ DOMAIN d.refunds = DOMAIN c.refunds \cup {r}
        /\ \A q \in DOMAIN c.refunds : d.refunds[q] = c.refunds[q] /\ q < r
    BY <1>2, <1>3 DEF OneMore, Follows
  <2>2. OrderedRefunds(c)
    BY <1>16, <2>1 DEF OrderedRefunds
  <2>3. \A e \in Events(h) : e.kind = "refund" => e \in P
    <3> SUFFICES ASSUME NEW e \in Events(h), e.kind = "refund" PROVE e \in P
      OBVIOUS
    <3>1. e.id \in DOMAIN c.refunds
      BY <1>2, <1>3, EventsFacts DEF Blank
    <3>2. d.refunds[e.id].day <= d.refunds[r].day
      BY <1>16, <2>1, <3>1 DEF OrderedRefunds
    <3>3. EventDay(h, e) <= day
      BY <1>2, <1>3, <2>1, <3>1, <3>2 DEF EventDay
    <3> QED
      BY <1>1, <3>3 DEF Until
  <2>4. g[Events(k)].overdrawn = f[Events(h)].overdrawn
    BY <1>4, <1>5, <1>7, <2>3
  <2> QED
    BY <2>2, <2>4 DEF f
<1> QED
  BY <1>13, <1>15, <1>16 DEF Matched, g

-----------------------------------------------------------------------------
(* The rows of a settled contract are those of its replay *)

ReplayKept(c, today) ==
    \/ c.pending
    \/ /\ Matched(c, History(c), today)
       /\ JournalCovers(c, today)
       /\ OrderedRefunds(c) => ~Stages(History(c), today)[Events(History(c))].overdrawn

ReplayInv == LedgerInv /\ Dated(contract, now) /\ ReplayKept(contract, Today)

\* Contracts with the same payments owe the same before every day, and both journals
\* are sums of naturals.
LEMMA JournalCoversSame ==
  ASSUME NEW c, Billable(c), NEW d, Billable(d), NEW today \in Nat, Reallocates(c, d),
         \A day \in Nat : AccruedBefore(d, day, today) = AccruedBefore(c, day, today),
         \A day \in Int : JournalSum(c, day) <= JournalSum(d, day),
         JournalCovers(c, today)
  PROVE  JournalCovers(d, today)
<1> SUFFICES ASSUME NEW p \in Active(d)
             PROVE  AccruedBefore(d, MoscowDay(d.payments[p].at), today)
                      <= JournalSum(d, MoscowDay(d.payments[p].at))
  BY DEF JournalCovers
<1>1. p \in Active(c) /\ p \in DOMAIN c.payments /\ d.payments[p].at = c.payments[p].at
  BY ReallocatesFacts DEF Active, Reallocates
<1>2. PICK day \in Nat : day = MoscowDay(c.payments[p].at) /\ day = MoscowDay(d.payments[p].at)
  BY <1>1, BillableFacts, PaymentTypeFacts, TimeFacts
<1>3. AccruedBefore(c, day, today) <= JournalSum(c, day)
  BY <1>1, <1>2 DEF JournalCovers
<1>4. /\ AccruedBefore(d, day, today) = AccruedBefore(c, day, today)
      /\ JournalSum(c, day) <= JournalSum(d, day)
      /\ JournalSum(c, day) \in Nat /\ JournalSum(d, day) \in Nat
      /\ AccruedBefore(c, day, today) \in Nat
  <2>1. day \in Int /\ day <= day
    OBVIOUS
  <2>2. AccruedBefore(c, day, today) \in Nat
    BY <2>1, BillableFacts, AccruedGrows
  <2> QED
    BY <2>1, <2>2, JournalSumNat DEF Billable
<1> QED
  BY <1>2, <1>3, <1>4

\* What changes no allocation and no penalty, and takes nothing out of the journal.
LEMMA ReplayKeptSame ==
  ASSUME NEW c, Billable(c), NEW d, Billable(d), SameMoney(c, d), Untouched(c, d),
         d.pending = c.pending,
         \A p \in DOMAIN c.payments : d.payments[p].partial = c.payments[p].partial,
         \A day \in Int : JournalSum(c, day) <= JournalSum(d, day),
         NEW today \in Nat, ReplayKept(c, today)
  PROVE  ReplayKept(d, today)
<1> SUFFICES ASSUME ~c.pending
             PROVE  /\ Matched(d, History(d), today) /\ JournalCovers(d, today)
                    /\ OrderedRefunds(d) => ~Stages(History(d), today)[Events(History(d))].overdrawn
  BY DEF ReplayKept
<1>1. PICK h : h = History(c)
  OBVIOUS
<1>2. /\ Matched(c, h, today) /\ JournalCovers(c, today)
      /\ OrderedRefunds(c) => ~Stages(h, today)[Events(h)].overdrawn
  BY <1>1 DEF ReplayKept
<1>3. Reallocates(c, d) /\ d.credit = c.credit
  BY DEF SameMoney
<1>4. History(d) = h
  BY <1>1, <1>3, SameHistory
<1>5. Matched(d, h, today)
  <2>1. ASSUME NEW S, NEW x, RowsKept(h, S, x, c)
        PROVE  RowsKept(h, S, x, d)
    <3>1. Done(h, S) \subseteq DOMAIN c.payments
      <4>1. Active(h) = Active(c) /\ Active(c) \subseteq DOMAIN c.payments
        BY <1>1, HistoryBlank, BillableFacts
      <4> QED
        BY <4>1 DEF Done
    <3> QED
      BY <2>1, <3>1 DEF RowsKept, SameMoney
  <2> QED
    BY <1>2, <1>3, <2>1 DEF Matched
<1>6. \A day \in Nat : AccruedBefore(d, day, today) = AccruedBefore(c, day, today)
  BY SameMoneyFacts
<1>7. JournalCovers(d, today)
  BY <1>2, <1>3, <1>6, JournalCoversSame
<1>8. OrderedRefunds(d) => OrderedRefunds(c)
  BY DEF OrderedRefunds, Untouched
<1> QED
  BY <1>2, <1>4, <1>5, <1>7, <1>8

\* What a reconciliation leaves.
LEMMA ReplayKeptReconciled ==
  ASSUME NEW c, Billable(c), now \in Nat, Dated(c, now), ~ReplayRefused(c, Today),
         NEW d, AfterReplay(c, d)
  PROVE  ReplayKept(d, Today)
<1>1. PICK h : h = History(c)
  OBVIOUS
<1>2. /\ Billable(d) /\ Untouched(c, d) /\ Reallocates(c, d) /\ d.log = FreshJournal(d, Today)
  BY DEF AfterReplay
<1>3. History(d) = h
  BY <1>1, <1>2, SameHistory
<1>4. Matched(d, h, Today) /\ ~Stages(h, Today)[Events(h)].overdrawn
  BY <1>1, MatchedReconciled
<1>5. JournalCovers(d, Today)
  <2> SUFFICES ASSUME NEW p \in Active(d)
               PROVE  AccruedBefore(d, MoscowDay(d.payments[p].at), Today)
                        <= JournalSum(d, MoscowDay(d.payments[p].at))
    BY DEF JournalCovers
  <2>1. Dated(d, now) /\ Today \in Nat
    BY <1>2, DatedSame, TodayNat
  <2>2. p \in DOMAIN d.payments /\ d.payments[p].at \in Nat /\ d.payments[p].at <= now
    BY <1>2, <2>1, BillableFacts, PaymentTypeFacts DEF Dated, Active
  <2>3. PICK day \in Nat : day = MoscowDay(d.payments[p].at)
    BY <2>2, TimeFacts
  <2>4. day <= Today
    BY <2>2, <2>3, AskedFor
  <2> QED
    BY <1>2, <2>1, <2>3, <2>4, FreshCovers
<1> QED
  BY <1>3, <1>4, <1>5 DEF ReplayKept

\* Time alone changes nothing.
LEMMA ReplayKeptLater ==
  ASSUME NEW c, Billable(c), now \in Nat, Dated(c, now), ReplayKept(c, Today),
         NEW later \in Nat, Today <= later
  PROVE  ReplayKept(c, later)
<1> SUFFICES ASSUME ~c.pending
             PROVE  /\ Matched(c, History(c), later) /\ JournalCovers(c, later)
                    /\ OrderedRefunds(c) => ~Stages(History(c), later)[Events(History(c))].overdrawn
  BY DEF ReplayKept
<1>1. PICK h, today : h = History(c) /\ today = Today
  OBVIOUS
<1>2. /\ Matched(c, h, today) /\ JournalCovers(c, today)
      /\ OrderedRefunds(c) => ~Stages(h, today)[Events(h)].overdrawn
  BY <1>1 DEF ReplayKept
<1>3. today \in Nat /\ today <= later /\ Blank(h) /\ Past(h, today)
  BY <1>1, TodayNat, HistoryBlank, PastOf
<1>4. /\ Matched(c, h, later)
      /\ Stages(h, later)[Events(h)].overdrawn = Stages(h, today)[Events(h)].overdrawn
  BY <1>2, <1>3, MatchedLater
<1>5. JournalCovers(c, later)
  <2> SUFFICES ASSUME NEW p \in Active(c)
               PROVE  AccruedBefore(c, MoscowDay(c.payments[p].at), later)
                        <= JournalSum(c, MoscowDay(c.payments[p].at))
    BY DEF JournalCovers
  <2>1. c.payments[p].at \in Nat /\ c.payments[p].at <= now
    BY BillableFacts, PaymentTypeFacts DEF Dated, Active
  <2>2. PICK day \in Nat : day = MoscowDay(c.payments[p].at)
    BY <2>1, TimeFacts
  <2>3. day <= today
    BY <1>1, <2>1, <2>2, AskedFor
  <2>4. AccruedBefore(c, day, later) = AccruedBefore(c, day, today)
    BY <1>3, <2>3, AccruedLater DEF Billable
  <2>5. AccruedBefore(c, day, today) <= JournalSum(c, day)
    BY <1>2, <2>2 DEF JournalCovers
  <2> QED
    BY <2>2, <2>4, <2>5
<1> QED
  BY <1>1, <1>2, <1>4, <1>5

\* A contract that has only been signed.
LEMMA ReplayKeptNew ==
  ASSUME NEW today \in Nat
  PROVE  ReplayKept(NewContract, today)
<1>1. PICK h : h = History(NewContract)
  OBVIOUS
<1>2. /\ Billable(NewContract) /\ DOMAIN NewContract.payments = {} /\ DOMAIN NewContract.refunds = {}
      /\ NewContract.credit = 0
  BY NewContractFacts DEF NewContract
<1>3. Blank(h) /\ Active(h) = {} /\ Active(NewContract) = {} /\ h.refunds = NewContract.refunds
  <2>1. Active(NewContract) = {}
    BY <1>2 DEF Active
  <2> QED
    BY <1>1, <1>2, <2>1, HistoryBlank
<1>4. Events(h) = {}
  BY <1>2, <1>3 DEF Events
<1>5. Stages(h, today)[{}] = Begun(h)
  BY <1>3, StagesAre
<1>6. Stages(h, today)[Events(h)].credit = 0 /\ ~Stages(h, today)[Events(h)].overdrawn
  BY <1>4, <1>5 DEF Begun
<1>7. \A S, c, d : RowsKept(h, S, c, d)
  BY <1>3 DEF RowsKept, Done
<1> HIDE DEF NewContract
<1> QED
  BY <1>1, <1>2, <1>3, <1>6, <1>7 DEF ReplayKept, Matched, JournalCovers

\* Every step keeps the rows of the replay, or asks for a reconciliation.
LEMMA ReplayKeptKept ==
  ASSUME ~AllowFuture, ReplayInv, [Next]_vars
  PROVE  ReplayKept(contract', Today')
<1>1. /\ LedgerInv /\ Dated(contract, now) /\ ReplayKept(contract, Today)
      /\ Billable(contract) /\ now \in Nat /\ Today \in Nat
  BY TodayNat DEF ReplayInv, LedgerInv
<1>2. CASE \E amount, at, website : PaidIn(amount, at, website)
  <2>1. PICK amount, at, website : PaidIn(amount, at, website)
    BY <1>2
  <2>2. PaymentMade(contract, contract', amount, at)
    BY <1>1, <2>1, PaidInFacts
  <2>3. at \in Nat /\ at <= now
    BY <2>1 DEF PaidIn
  <2>4. MoscowDay(at) <= Today
    BY <1>1, <2>3, AskedFor
  <2> QED
    BY <2>2, <2>4 DEF PaymentMade, ReplayKept
<1>3. CASE \E p : TakenBack(p)
  BY <1>1, <1>3, TakenBackAsks DEF ReplayKept
<1>4. CASE \E p : Pushed(p)
  <2>1. PICK q : Pushed(q)
    BY <1>4
  <2>2. /\ q \in Active(contract) /\ contract.payments[q].website /\ now' = now
        /\ contract' = [contract EXCEPT !.payments[q].synced = TRUE]
    BY <2>1 DEF Pushed
  <2>3. PushedRows(contract, contract')
    BY <1>1, <2>2, PushKeeps
  <2>4. /\ Billable(contract') /\ SameMoney(contract, contract') /\ Untouched(contract, contract')
        /\ contract'.pending = contract.pending /\ contract'.log = contract.log
        /\ \A p \in DOMAIN contract.payments :
              contract'.payments[p].partial = contract.payments[p].partial
    BY <2>3 DEF PushedRows
  <2>5. \A day \in Int : JournalSum(contract, day) <= JournalSum(contract', day)
    <3> SUFFICES ASSUME NEW day \in Int PROVE JournalSum(contract, day) <= JournalSum(contract', day)
      OBVIOUS
    <3>1. JournalSum(contract', day) = JournalSum(contract, day)
      BY <2>4 DEF JournalSum
    <3>2. JournalSum(contract, day) \in Nat
      BY <1>1, JournalSumNat DEF Billable
    <3> QED
      BY <3>1, <3>2
  <2>6. ReplayKept(contract', Today)
    BY <1>1, <2>4, <2>5, ReplayKeptSame
  <2> QED
    BY <2>2, <2>6 DEF Today
<1>5. CASE \E amount, day : PaidOut(amount, day)
  <2>1. PICK amount, day : PaidOut(amount, day)
    BY <1>5
  <2>2. /\ RefundPaid(contract, contract', amount) /\ amount \in Nat /\ amount > 0
        /\ amount <= Overpayment(contract, day) /\ Billable(contract')
        /\ contract'.refunds[Len(contract.refunds) + 1].day = day
    BY <1>1, <2>1, PaidOutFacts
  <2>3. day \in Nat /\ now' = now /\ Today' = Today
    BY <2>1 DEF PaidOut, Today
  <2>4. /\ contract'.pending = contract.pending /\ contract'.log = contract.log
        /\ contract'.payments = contract.payments
    BY <2>2 DEF RefundPaid
  <2>5. CASE contract.pending
    BY <2>4, <2>5 DEF ReplayKept
  <2>6. CASE ~contract.pending
    <3>1. PICK c, d, h, k, today : /\ c = contract /\ d = contract' /\ h = History(c) /\ k = History(d)
                                   /\ today = Today
      OBVIOUS
    <3>2. /\ Matched(c, h, today) /\ JournalCovers(c, today)
          /\ OrderedRefunds(c) => ~Stages(h, today)[Events(h)].overdrawn
      BY <1>1, <2>6, <3>1 DEF ReplayKept
    <3>3. /\ Billable(c) /\ Billable(d) /\ RefundPaid(c, d, amount) /\ today \in Nat
          /\ d.refunds[Len(c.refunds) + 1].day = day /\ amount <= Overpayment(c, day)
      BY <1>1, <2>2, <3>1
    <3>4. Past(h, today)
      BY <1>1, <3>1, PastOf
    <3>5. /\ Matched(d, k, today)
          /\ OrderedRefunds(d) => ~Stages(k, today)[Events(k)].overdrawn
      BY <2>2, <2>3, <3>1, <3>2, <3>3, <3>4, RefundMatched
    <3>6. JournalCovers(d, today)
      <4>1. SameAllocations(c, d) /\ Reallocates(d, d)
        BY <3>3 DEF SameAllocations, RefundPaid, Reallocates
      <4>2. \A day2 \in Nat : AccruedBefore(d, day2, today) = AccruedBefore(c, day2, today)
        BY <4>1, SameAccounts
      <4>3. Active(d) = Active(c) /\ d.payments = c.payments /\ d.log = c.log
        BY <3>3 DEF RefundPaid, Active
      <4>4. ASSUME NEW p \in Active(c)
            PROVE  AccruedBefore(d, MoscowDay(d.payments[p].at), today)
                     <= JournalSum(d, MoscowDay(d.payments[p].at))
        <5>1. MoscowDay(c.payments[p].at) \in Nat
          BY <3>3, BillableFacts, PaymentTypeFacts, TimeFacts DEF Active
        <5>2. AccruedBefore(c, MoscowDay(c.payments[p].at), today)
                <= JournalSum(c, MoscowDay(c.payments[p].at))
          BY <3>2 DEF JournalCovers
        <5>3. JournalSum(d, MoscowDay(c.payments[p].at)) = JournalSum(c, MoscowDay(c.payments[p].at))
          BY <4>3 DEF JournalSum
        <5> QED
          BY <4>2, <4>3, <5>1, <5>2, <5>3
      <4> QED
        BY <4>3, <4>4 DEF JournalCovers
    <3> QED
      BY <2>3, <3>1, <3>5, <3>6 DEF ReplayKept
  <2> QED
    BY <2>5, <2>6
<1>6. CASE Reconciling
  <2>1. AfterReplay(contract, contract') /\ now' = now /\ ~ReplayRefused(contract, Today)
    BY <1>1, <1>6, ReconcilingFacts DEF Reconciling
  <2>2. ReplayKept(contract', Today)
    BY <1>1, <2>1, ReplayKeptReconciled
  <2> QED
    BY <2>1, <2>2 DEF Today
<1>7. CASE \E day : Terminating(day)
  <2>1. PICK day : Terminating(day)
    BY <1>7
  <2>2. PICK c : c = Shortened(contract, day)
    OBVIOUS
  <2>3. ~ReplayRefused(c, Today) /\ contract' = Reconciled(c) /\ day \in LeaveDays /\ now' = now
    BY <2>1, <2>2 DEF Terminating
  <2>4. Billable(c) /\ c.payments = contract.payments
    BY <1>1, <2>2, <2>3, ShortenedKeeps
  <2>5. AfterReplay(c, contract')
    BY <1>1, <2>3, <2>4, ReconcilingFacts
  <2>6. Dated(c, now)
    BY <1>1, <2>4 DEF Dated
  <2>7. ReplayKept(contract', Today)
    BY <1>1, <2>3, <2>4, <2>5, <2>6, ReplayKeptReconciled
  <2> QED
    BY <2>3, <2>7 DEF Today
<1>8. CASE NightCommit
  <2>1. /\ SameMoney(contract, contract') /\ Untouched(contract, contract')
        /\ contract'.pending = contract.pending /\ now' = now
        /\ Billable(contract') /\ contract'.payments = contract.payments
        /\ \A x \in Int : JournalSum(contract, x) <= JournalSum(contract', x)
    BY <1>1, <1>8, NightCommitFacts
  <2>2. \A p \in DOMAIN contract.payments :
           contract'.payments[p].partial = contract.payments[p].partial
    BY <2>1
  <2>3. ReplayKept(contract', Today)
    BY <1>1, <2>1, <2>2, ReplayKeptSame
  <2> QED
    BY <2>1, <2>3 DEF Today
<1>9. CASE NightRead
  <2>1. contract' = contract /\ now' = now
    BY <1>1, <1>9, NightReadFacts
  <2> QED
    BY <1>1, <2>1 DEF Today
<1>10. CASE Resting
  <2>1. contract' = contract /\ now' \in Nat /\ now <= now'
    BY <1>1, <1>10 DEF Resting
  <2>2. Today \in Nat /\ MoscowDay(now') \in Nat /\ Today <= MoscowDay(now')
    BY <1>1, <2>1, TimeFacts DEF Today
  <2>3. Today' = MoscowDay(now')
    BY DEF Today
  <2>4. PICK t \in Nat : t = MoscowDay(now') /\ Today <= t
    BY <2>2
  <2>5. ReplayKept(contract, t)
    BY <1>1, <2>4, ReplayKeptLater
  <2> QED
    BY <2>1, <2>3, <2>4, <2>5
<1> QED
  BY <1>1, <1>2, <1>3, <1>4, <1>5, <1>6, <1>7, <1>8, <1>9, <1>10, Steps

\* A new contract has the rows of its replay.
LEMMA ReplayInvInit == Init => ReplayInv
<1> SUFFICES ASSUME Init PROVE ReplayInv
  OBVIOUS
<1>1. LedgerInv
  BY LedgerInvInit
<1>2. contract = NewContract
  BY DEF Init
<1>3. Dated(contract, now)
  BY <1>2, NewContractFacts DEF Dated
<1>4. Today \in Nat
  BY <1>1, TodayNat DEF LedgerInv
<1> QED
  BY <1>1, <1>2, <1>3, <1>4, ReplayKeptNew DEF ReplayInv

\* Every step keeps the inductive invariant of the replay.
LEMMA ReplayInvKept ==
  ASSUME ~AllowFuture, ReplayInv, [Next]_vars
  PROVE  ReplayInv'
<1>1. LedgerInv /\ Dated(contract, now)
  BY DEF ReplayInv
<1>2. LedgerInv' /\ Dated(contract', now')
  BY <1>1, LedgerInvKept, DatedKept
<1>3. ReplayKept(contract', Today')
  BY ReplayKeptKept
<1> QED
  BY <1>2, <1>3 DEF ReplayInv

\* The rows of a settled contract are those a replay of its whole history would
\* write: what payments, refunds, terminations and penalties did one by one is what
\* the reconciliation would have done, as long as no payment is dated in the future.
THEOREM SettledIsReplayedAlways ==
  ASSUME ~AllowFuture
  PROVE  Spec => []SettledIsReplayed
<1>1. Init => ReplayInv
  BY ReplayInvInit
<1>2. ReplayInv /\ [Next]_vars => ReplayInv'
  BY ReplayInvKept
<1>3. ReplayInv => SettledIsReplayed
  <2> SUFFICES ASSUME ReplayInv, ~contract.pending
               PROVE  /\ ~ReplayChanges(contract, Today) \/ Replay(contract, Today).overdrawn
                      /\ RefundsInOrder => ~Replay(contract, Today).overdrawn
    BY DEF SettledIsReplayed
  <2>1. PICK h, r, today : h = History(contract) /\ r = Replay(contract, Today) /\ today = Today
    OBVIOUS
  <2>2. /\ Matched(contract, h, today) /\ Billable(contract) /\ today \in Nat
        /\ OrderedRefunds(contract) => ~Stages(h, today)[Events(h)].overdrawn
    BY <2>1, TodayNat DEF ReplayInv, ReplayKept, LedgerInv
  <2>3. Blank(h) /\ Active(h) = Active(contract)
    BY <2>1, <2>2, HistoryBlank
  <2>4. Stages(h, today)[Events(h)] = r
    BY <2>1, <2>2, <2>3, StagesAre DEF Replay
  <2>5. RefundsInOrder => ~r.overdrawn
    BY <2>2, <2>4 DEF RefundsInOrder, OrderedRefunds
  <2>6. ASSUME ~r.overdrawn PROVE ~ReplayChanges(contract, Today)
    <3>1. Closed(h, Events(h))
      BY DEF Closed
    <3>2. RowsKept(h, Events(h), r.c, contract) /\ contract.credit = r.credit
      BY <2>2, <2>4, <2>6, <3>1 DEF Matched
    <3>3. Done(h, Events(h)) = Active(contract)
      BY <2>3, AllDone
    <3>4. Reallocated(contract, r) = {}
      BY <3>2, <3>3 DEF RowsKept, Reallocated
    <3> QED
      BY <2>1, <3>2, <3>4 DEF ReplayChanges, Changes
  <2> QED
    BY <2>1, <2>5, <2>6
<1> QED
  BY <1>1, <1>2, <1>3, PTL DEF Spec

-----------------------------------------------------------------------------
(* Two replays, one with a payment more *)

\* Of two contracts paid in order, the one that has paid more in all has paid no less of
\* any accrual.
LEMMA PaidInOrderTotal ==
  ASSUME NEW c, NEW d, Fits(c), Fits(d), Within(c), Within(d), PaidInOrder(c), PaidInOrder(d),
         d.adj = c.adj, d.voided = c.voided, AllocatedTotal(c) <= AllocatedTotal(d)
  PROVE  \A i \in AccrualIds : Allocated(c, i) <= Allocated(d, i)
<1>1. /\ \A i \in AccrualIds : Allocated(c, i) \in Nat /\ Allocated(d, i) \in Nat
      /\ \A i \in AccrualIds : Total(d, i) = Total(c, i) /\ Total(c, i) \in Nat
      /\ Live(d) = Live(c)
  BY AllocatedNat DEF Fits, Total, Live
<1>2. SUFFICES ASSUME NEW i \in AccrualIds, Allocated(d, i) < Allocated(c, i)
               PROVE  AllocatedTotal(d) < AllocatedTotal(c)
  <2>1. AllocatedTotal(c) \in Int /\ AllocatedTotal(d) \in Int
    BY <1>1, MonthsFacts, SumInt DEF AllocatedTotal
  <2> QED
    BY <1>1, <2>1
<1>3. /\ \A j \in AccrualIds : Allocated(c, j) <= Total(c, j) /\ Allocated(d, j) <= Total(c, j)
      /\ \A j \in AccrualIds \ Live(c) : Allocated(c, j) = 0 /\ Allocated(d, j) = 0
  <2> SUFFICES ASSUME NEW j \in AccrualIds
               PROVE  /\ Allocated(c, j) <= Total(c, j) /\ Allocated(d, j) <= Total(c, j)
                      /\ j \notin Live(c) => Allocated(c, j) = 0 /\ Allocated(d, j) = 0
    OBVIOUS
  <2>1. /\ Allocated(c, j) <= IF c.voided[j] THEN 0 ELSE Total(c, j)
        /\ Allocated(d, j) <= IF c.voided[j] THEN 0 ELSE Total(c, j)
        /\ c.voided[j] \in BOOLEAN
    BY <1>1 DEF Within, Fits
  <2> QED
    BY <1>1, <2>1 DEF Live
<1>4. i \in Live(c) /\ Room(d, i) > 0
  <2>1. i \in Live(c)
    BY <1>1, <1>2, <1>3
  <2>2. Room(d, i) >= Total(d, i) - Allocated(d, i) /\ Room(d, i) \in Nat
    BY RoomNat
  <2> QED
    BY <1>1, <1>2, <1>3, <2>1, <2>2
<1>5. ASSUME NEW j \in AccrualIds \ {i} PROVE Allocated(d, j) <= Allocated(c, j)
  <2>1. CASE j \notin Live(c)
    BY <1>3, <2>1
  <2>2. CASE j \in Live(c) /\ i < j
    <3>1. ~(Allocated(d, j) > 0)
      BY <1>1, <1>4, <2>2 DEF PaidInOrder
    <3> QED
      BY <1>1, <3>1
  <2>3. CASE j \in Live(c) /\ j < i
    <3>1. Room(c, j) = 0
      BY <1>1, <1>2, <1>4, <2>3 DEF PaidInOrder
    <3>2. Room(c, j) >= Total(c, j) - Allocated(c, j)
      BY RoomNat
    <3> QED
      BY <1>1, <1>3, <3>1, <3>2
  <2>4. i \in Nat /\ j \in Nat
    BY MonthsFacts
  <2> QED
    BY <2>1, <2>2, <2>3, <2>4
<1> DEFINE A == AccrualIds \ {i}
           f == [j \in AccrualIds |-> Allocated(c, j)]
           g == [j \in AccrualIds |-> Allocated(d, j)]
<1>6. /\ IsFiniteSet(AccrualIds) /\ IsFiniteSet(A)
      /\ \A j \in AccrualIds : f[j] \in Int /\ g[j] \in Int
      /\ \A j \in A : g[j] <= f[j]
      /\ f[i] = Allocated(c, i) /\ g[i] = Allocated(d, i)
  BY <1>1, <1>5, MonthsFacts, FS_Subset
<1>7. AllocatedTotal(c) = SumOver(f, AccrualIds) /\ AllocatedTotal(d) = SumOver(g, AccrualIds)
  BY DEF AllocatedTotal
<1> HIDE DEF f, g
<1>8. /\ SumOver(f, AccrualIds) = f[i] + SumOver(f, A)
      /\ SumOver(g, AccrualIds) = g[i] + SumOver(g, A)
  BY <1>2, <1>6, SumRemove
<1>9. SumOver(g, A) <= SumOver(f, A) /\ SumOver(g, A) \in Int /\ SumOver(f, A) \in Int
  <2>1. \A j \in A : f[j] \in Int /\ g[j] \in Int /\ g[j] <= f[j]
    BY <1>6
  <2> HIDE DEF A
  <2> QED
    BY <1>6, <2>1, SumLess, SumInt
<1> QED
  BY <1>2, <1>6, <1>7, <1>8, <1>9

\* A smaller debt costs no more a day.
LEMMA DailyPenaltyLess ==
  ASSUME NEW a \in Nat, NEW b \in Nat, a <= b
  PROVE  DailyPenalty(a) <= DailyPenalty(b)
<1>1. RateNum \in Nat /\ RateDen \in Nat \ {0}
  BY RateAssumption
<1>2. PICK m \in Nat, n \in Nat : /\ m = 2 * a * RateNum + RateDen /\ n = 2 * b * RateNum + RateDen
                                  /\ m <= n
  <2>1. 2 * a \in Nat /\ 2 * b \in Nat /\ 2 * a <= 2 * b
    OBVIOUS
  <2>2. /\ 2 * a * RateNum \in Nat /\ 2 * b * RateNum \in Nat
        /\ 2 * a * RateNum <= 2 * b * RateNum
    <3>1. RateNum * (2 * a) <= RateNum * (2 * b)
      BY <1>1, <2>1, ProductMonotone
    <3>2. RateNum * (2 * a) = 2 * a * RateNum /\ RateNum * (2 * b) = 2 * b * RateNum
      BY <1>1
    <3> QED
      BY <1>1, <2>1, <3>1, <3>2, ProductFacts
  <2> QED
    BY <1>1, <2>2
<1>3. m \div (2 * RateDen) <= n \div (2 * RateDen)
  <2>1. PICK q \in Nat : q = 2 * RateDen /\ q > 0
    BY <1>1
  <2>2. m \div q <= n \div q
    BY <1>2, <2>1
  <2> QED
    BY <2>1, <2>2
<1> QED
  BY <1>2, <1>3 DEF DailyPenalty

\* The contracts c and d are charged the same on the same days.
SameCharges(c, d) ==
    /\ d.adj = c.adj /\ d.voided = c.voided /\ d.status = c.status /\ d.actualEnd = c.actualEnd

\* What is left of an accrual in d is no more than in c, on any day.
LessLeft(c, d) == \A x \in Nat, i \in AccrualIds : LeftOn(d, x)[i] <= LeftOn(c, x)[i]

\* Who has less left to pay owes no more.
LEMMA OverdueLess ==
  ASSUME NEW c, NEW d, Fits(c), Fits(d), SameCharges(c, d), LessLeft(c, d), NEW x \in Nat
  PROVE  OverdueSum(d, x) <= OverdueSum(c, x)
<1> DEFINE f == [i \in AccrualIds |-> IF Accrual[i].daily THEN LeftOn(c, x)[i] ELSE Total(c, i)]
           g == [i \in AccrualIds |-> IF Accrual[i].daily THEN LeftOn(d, x)[i] ELSE Total(d, i)]
           F == {i \in Live(c) : /\ x >= Accrual[i].penaltyFrom
                                 /\ ~(Accrual[i].exempt /\ x <= MatCapital.until)
                                 /\ LeftOn(c, x)[i] > 0}
           G == {i \in Live(d) : /\ x >= Accrual[i].penaltyFrom
                                 /\ ~(Accrual[i].exempt /\ x <= MatCapital.until)
                                 /\ LeftOn(d, x)[i] > 0}
<1>1. /\ \A i \in AccrualIds : Total(d, i) = Total(c, i) /\ Total(c, i) \in Nat
      /\ Live(d) = Live(c) /\ Live(c) \subseteq AccrualIds
  BY DEF Fits, Total, Live, SameCharges
<1>2. \A i \in AccrualIds : /\ LeftOn(c, x)[i] \in Int /\ LeftOn(d, x)[i] \in Int
                            /\ LeftOn(d, x)[i] <= LeftOn(c, x)[i]
  BY LeftOnInt DEF LessLeft
<1>3. G \in SUBSET F /\ F \subseteq AccrualIds
  BY <1>1, <1>2
<1>4. IsFiniteSet(F) /\ IsFiniteSet(G)
  BY <1>3, MonthsFacts, FS_Subset
<1>5. \A i \in F : f[i] \in Int /\ g[i] \in Int /\ f[i] >= 0 /\ g[i] <= f[i]
  BY <1>1, <1>2
<1>6. OverdueSum(c, x) = SumOver(f, F) /\ OverdueSum(d, x) = SumOver(g, G)
  BY DEF OverdueSum, OverdueOf
<1> HIDE DEF f, g, F, G
<1>7. SumOver(g, G) <= SumOver(f, G) /\ SumOver(g, G) \in Int /\ SumOver(f, G) \in Int
  <2>1. \A i \in G : g[i] \in Int /\ f[i] \in Int /\ g[i] <= f[i]
    BY <1>3, <1>5
  <2> QED
    BY <1>4, <2>1, SumLess, SumInt
<1>8. SumOver(f, G) <= SumOver(f, F) /\ SumOver(f, F) \in Int
  BY <1>3, <1>4, <1>5, SumSubset, SumInt
<1> QED
  BY <1>6, <1>7, <1>8

\* ... and has accrued no more penalty.
LEMMA AccruedLess ==
  ASSUME NEW c, NEW d, Fits(c), Fits(d), Ends(c), SameCharges(c, d), LessLeft(c, d),
         NEW today \in Nat, NEW day \in Int
  PROVE  AccruedBefore(d, day, today) <= AccruedBefore(c, day, today)
<1> DEFINE D == DaysBefore(c, day, today)
           f == [x \in D |-> DailyPenalty(OverdueSum(c, x))]
           g == [x \in D |-> DailyPenalty(OverdueSum(d, x))]
<1>1. PenaltyStart(d) = PenaltyStart(c) /\ PenaltyEnd(d, today) = PenaltyEnd(c, today)
  BY StartSame, EndSame DEF SameCharges
<1>2. DaysBefore(d, day, today) = D
  BY <1>1 DEF DaysBefore
<1>3. IsFiniteSet(D) /\ \A x \in D : x \in Nat
  BY DaysFacts
<1>4. /\ AccruedBefore(d, day, today) = SumOver(g, D)
      /\ AccruedBefore(c, day, today) = SumOver(f, D)
  BY <1>2, AccruedDef
<1>5. ASSUME NEW x \in D PROVE f[x] \in Int /\ g[x] \in Int /\ g[x] <= f[x]
  <2>1. x \in Nat /\ x \in Int
    BY <1>3
  <2>2. OverdueSum(c, x) \in Nat /\ OverdueSum(d, x) \in Nat /\ OverdueSum(d, x) <= OverdueSum(c, x)
    BY <2>1, OverdueNat, OverdueLess
  <2>3. /\ DailyPenalty(OverdueSum(c, x)) \in Nat /\ DailyPenalty(OverdueSum(d, x)) \in Nat
        /\ DailyPenalty(OverdueSum(d, x)) <= DailyPenalty(OverdueSum(c, x))
    BY <2>2, DailyPenaltyNat, DailyPenaltyLess
  <2> QED
    BY <2>3
<1> HIDE DEF D, f, g
<1> QED
  BY <1>3, <1>4, <1>5, SumLess

\* What a day's payments leave is what all leave, once those with an allocation are in.
LEMMA LeftWhenDone ==
  ASSUME NEW c, Fits(c), NEW day \in Nat, AllocatedUntil(c, day), NEW x \in Nat, day <= x
  PROVE  \A i \in AccrualIds : LeftOn(c, x)[i] = Total(c, i) - Allocated(c, i)
<1> TAKE i \in AccrualIds
<1>1. PaidBy(c, x) \in SUBSET (DOMAIN c.payments) /\ IsFiniteSet(DOMAIN c.payments)
  BY DEF PaidBy, Active, Fits
<1>2. \A p \in DOMAIN c.payments : AllocTo(c, i)[p] \in Int
  BY AllocToType
<1>3. ASSUME NEW p \in DOMAIN c.payments \ PaidBy(c, x) PROVE AllocTo(c, i)[p] = 0
  <2>1. c.payments[p].alloc = NoAllocation
    <3>1. CASE p \in Active(c)
      <4>1. MoscowDay(c.payments[p].at) \in Nat
        BY TimeFacts DEF Fits, PaymentFits
      <4>2. ~(MoscowDay(c.payments[p].at) <= x)
        BY <3>1 DEF PaidBy
      <4> QED
        BY <3>1, <4>1, <4>2 DEF AllocatedUntil
    <3>2. CASE p \notin Active(c)
      BY <3>2 DEF Active, Fits, PaymentFits
    <3> QED
      BY <3>1, <3>2
  <2> QED
    BY <2>1 DEF AllocTo, NoAllocation
<1>4. SumOver(AllocTo(c, i), PaidBy(c, x)) = SumOver(AllocTo(c, i), DOMAIN c.payments)
  BY <1>1, <1>2, <1>3, SumSupport
<1> QED
  BY <1>4 DEF LeftOn, Allocated

\* As much is left of every accrual in d as in c, on the days before the day.
SameLeft(c, d, day) ==
    \A x \in Nat, i \in AccrualIds : x < day => LeftOn(d, x)[i] = LeftOn(c, x)[i]

\* A payment leaves no more to pay, and on the days before its own as much as there was.
LEMMA PlacedLeaves ==
  ASSUME NEW c, NEW d, NEW p \in Active(c), NEW day \in Nat, NEW money \in Int, NEW owed \in Int,
         Fits(c), Placed(c, d, p, day, money, owed)
  PROVE  /\ \A i \in AccrualIds : Allocated(c, i) <= Allocated(d, i)
         /\ LessLeft(c, d) /\ SameLeft(c, d, MoscowDay(c.payments[p].at))
<1> DEFINE plan == FifoPlan(c, day, money, owed)
<1>1. Fits(d) /\ Extends(c, d, p)
  BY PlacedFits
<1>2. /\ Reallocates(c, d) /\ c.payments[p].alloc = NoAllocation
      /\ d.payments[p].alloc = plan.alloc
      /\ \A q \in DOMAIN c.payments \ {p} : d.payments[q] = c.payments[q]
  BY DEF Placed
<1>3. plan.alloc \in [AccrualIds -> Nat]
  BY PlanFacts
<1> HIDE DEF plan
<1>4. ASSUME NEW i \in AccrualIds PROVE Allocated(c, i) <= Allocated(d, i)
  <2>1. Allocated(d, i) = Allocated(c, i) + d.payments[p].alloc[i]
    BY <1>1, AllocatedAfter
  <2>2. Allocated(c, i) \in Nat /\ d.payments[p].alloc[i] \in Nat
    BY <1>2, <1>3, AllocatedNat
  <2> QED
    BY <2>1, <2>2
<1>5. ASSUME NEW x \in Nat, NEW i \in AccrualIds
      PROVE  /\ LeftOn(d, x)[i] <= LeftOn(c, x)[i]
             /\ x < MoscowDay(c.payments[p].at) => LeftOn(d, x)[i] = LeftOn(c, x)[i]
  <2> DEFINE P == PaidBy(c, x)
             f == AllocTo(c, i)
             g == AllocTo(d, i)
  <2>1. PaidBy(d, x) = P /\ Total(d, i) = Total(c, i)
    BY <1>2, ReallocatesFacts
  <2>2. IsFiniteSet(P) /\ P \subseteq DOMAIN c.payments /\ DOMAIN d.payments = DOMAIN c.payments
    BY <1>2, FS_Subset DEF PaidBy, Active, Fits, Reallocates
  <2>3. \A q \in P : f[q] \in Nat /\ g[q] \in Nat
    BY <1>1, <2>2, AllocToType
  <2>4. /\ \A q \in P : f[q] <= g[q]
        /\ \A q \in P \ {p} : g[q] = f[q]
    <3>1. \A q \in P \ {p} : g[q] = f[q]
      BY <1>2, <2>2 DEF AllocTo
    <3>2. p \in P => f[p] = 0
      BY <1>2, <2>2 DEF AllocTo, NoAllocation
    <3> QED
      BY <2>3, <3>1, <3>2
  <2>5. /\ LeftOn(c, x)[i] = Total(c, i) - SumOver(f, P)
        /\ LeftOn(d, x)[i] = Total(c, i) - SumOver(g, P)
    BY <2>1 DEF LeftOn
  <2>6. Total(c, i) \in Int
    BY DEF Fits
  <2>7. x < MoscowDay(c.payments[p].at) => p \notin P
    <3>1. MoscowDay(c.payments[p].at) \in Nat
      BY TimeFacts DEF Fits, PaymentFits, Active
    <3> QED
      BY <3>1 DEF PaidBy
  <2> HIDE DEF P, f, g
  <2>8. \A q \in P : f[q] \in Int /\ g[q] \in Int /\ f[q] <= g[q]
    BY <2>3, <2>4
  <2>9. SumOver(f, P) <= SumOver(g, P) /\ SumOver(f, P) \in Int /\ SumOver(g, P) \in Int
    BY <2>2, <2>8, SumLess, SumInt
  <2>10. p \notin P => SumOver(f, P) = SumOver(g, P)
    <3> SUFFICES ASSUME p \notin P PROVE SumOver(f, P) = SumOver(g, P)
      OBVIOUS
    <3>1. \A q \in P : f[q] \in Int /\ f[q] = g[q]
      BY <2>4, <2>8
    <3> QED
      BY <2>2, <3>1, SumEqual
  <2> QED
    BY <2>5, <2>6, <2>7, <2>9, <2>10
<1> QED
  BY <1>4, <1>5 DEF LessLeft, SameLeft

\* A plan pays a penalty when what is due is paid up, and what is due later when the
\* penalty is.
LEMMA PlanOrder ==
  ASSUME NEW c, Fits(c), NEW day \in Nat, NEW money \in Int, NEW owed \in Int
  PROVE  /\ FifoPlan(c, day, money, owed).penalty > 0 =>
              \A i \in DueOn(c, day) : FifoPlan(c, day, money, owed).alloc[i] = Room(c, i)
         /\ \A i \in LaterOn(c, day) : FifoPlan(c, day, money, owed).alloc[i] > 0 =>
              owed <= FifoPlan(c, day, money, owed).penalty
<1> DEFINE left == DueLeft(c, day, money)
           share == PenaltyShare(c, day, money, owed)
           later == LaterMoney(c, day, money, owed)
           plan == FifoPlan(c, day, money, owed)
           Due == DueOn(c, day)
           Rest == LaterOn(c, day)
           room == RoomOf(c)
<1>1. /\ plan.penalty = share
      /\ \A i \in Due : i \in AccrualIds /\ plan.alloc[i] = Pour(room, Due, money)[i]
      /\ \A i \in Rest : i \in AccrualIds /\ plan.alloc[i] = Pour(room, Rest, later)[i]
  <2>1. /\ plan.penalty = share
        /\ plan.alloc = [i \in AccrualIds |->
              IF i \in Due THEN Pour(room, Due, money)[i]
              ELSE IF i \in Rest THEN Pour(room, Rest, later)[i] ELSE 0]
    BY PlanParts
  <2>2. Due \subseteq AccrualIds /\ Rest \subseteq AccrualIds /\ Due \cap Rest = {}
    BY DEF DueOn, LaterOn, Live
  <2> HIDE DEF plan, Due, Rest, room, later, share
  <2> QED
    BY <2>1, <2>2
<1>2. /\ IsFiniteSet(Due) /\ IsFiniteSet(Rest) /\ Due \subseteq Nat /\ Rest \subseteq Nat
      /\ \A i \in Due : room[i] \in Nat /\ room[i] = Room(c, i)
      /\ \A i \in Rest : room[i] \in Nat
  <2>1. DueOn(c, day) \subseteq AccrualIds /\ LaterOn(c, day) \subseteq AccrualIds
    BY DEF DueOn, LaterOn, Live
  <2> QED
    BY <2>1, RoomNat, MonthsFacts, FS_Subset
<1>3. left = Left(room, Due, money) /\ left \in Nat
  BY <1>2, LeftFacts DEF DueLeft
<1>4. PICK m \in Int : m = Max({owed, 0}) /\ m >= owed /\ m >= 0
  <2>1. 0 \in Int
    OBVIOUS
  <2> QED
    BY <2>1, MaxOf, Zenon
<1>5. share \in Int /\ share <= left /\ share <= m /\ (share = left \/ share = m)
  <2>1. share = Min({left, m})
    BY <1>4 DEF PenaltyShare
  <2>2. left \in Int
    BY <1>3
  <2> HIDE DEF share, left
  <2> QED
    BY <1>4, <2>1, <2>2, MinOf, Zenon
<1>6. later = left - share
  BY DEF LaterMoney
<1> HIDE DEF left, share, later, plan, Due, Rest, room
<1>7. plan.penalty > 0 => \A i \in Due : plan.alloc[i] = Room(c, i)
  <2> SUFFICES ASSUME plan.penalty > 0 PROVE \A i \in Due : plan.alloc[i] = Room(c, i)
    OBVIOUS
  <2>1. Left(room, Due, money) > 0
    BY <1>1, <1>3, <1>5
  <2>2. \A i \in Due : Pour(room, Due, money)[i] = room[i]
    BY <1>2, <2>1, PourInOrder
  <2> QED
    BY <1>1, <1>2, <2>2
<1>8. ASSUME NEW i \in Rest, plan.alloc[i] > 0 PROVE owed <= plan.penalty
  <2>1. later \in Int
    BY <1>3, <1>5, <1>6
  <2>2. /\ Pour(room, Rest, later)[i] \in Nat
        /\ Pour(room, Rest, later)[i] <= Left(room, Earlier(Rest, i), later)
        /\ Left(room, Earlier(Rest, i), later) \in Nat
    BY <1>2, <2>1, PourType
  <2>3. later <= 0 => Left(room, Earlier(Rest, i), later) = 0
    <3>1. IsFiniteSet(Earlier(Rest, i)) /\ \A j \in Earlier(Rest, i) : room[j] \in Nat
      BY <1>2, FS_Subset DEF Earlier
    <3> QED
      BY <2>1, <3>1, LeftFacts
  <2>4. later > 0
    BY <1>1, <1>8, <2>1, <2>2, <2>3
  <2> QED
    BY <1>1, <1>3, <1>4, <1>5, <1>6, <2>4
<1> QED
  BY <1>7, <1>8 DEF plan, Due, Rest

\* k is the history h with one more payment.
MorePaid(h, k, n) ==
    /\ SameCharges(h, k) /\ k.refunds = h.refunds
    /\ n \notin DOMAIN h.payments /\ DOMAIN k.payments = DOMAIN h.payments \cup {n}
    /\ \A q \in DOMAIN h.payments : k.payments[q] = h.payments[q]
    /\ ~k.payments[n].reversed

\* One payment more leaves the order of the other events alone.
LEMMA MorePaidOrder ==
  ASSUME NEW h, Blank(h), NEW k, Blank(k), NEW n, MorePaid(h, k, n),
         NEW x, x = [kind |-> "payment", id |-> n]
  PROVE  /\ Active(k) = Active(h) \cup {n} /\ Events(k) = Events(h) \cup {x} /\ x \notin Events(h)
         /\ \A e \in Events(h) : EventDay(k, e) = EventDay(h, e)
         /\ \A T \in SUBSET Events(k) : T # {} /\ Latest(k, T) # x
              => Latest(h, T \ {x}) = Latest(k, T)
<1>0. /\ Fits(h) /\ RefundsFit(h) /\ DOMAIN h.payments \subseteq Nat
      /\ Fits(k) /\ RefundsFit(k) /\ DOMAIN k.payments \subseteq Nat
  BY DEF Blank
<1>1. Active(k) = Active(h) \cup {n} /\ Active(h) \subseteq DOMAIN h.payments
  BY DEF Active, MorePaid
<1>2. Events(k) = Events(h) \cup {x}
  BY <1>1 DEF Events, MorePaid
<1>3. x \notin Events(h)
  <2>1. n \notin Active(h)
    BY <1>1 DEF MorePaid
  <2>2. x.kind = "payment" /\ x.id = n
    OBVIOUS
  <2>3. \A e \in Events(h) : e.kind = "payment" => e.id \in Active(h)
    BY <1>0, EventsFacts
  <2> QED
    BY <2>1, <2>2, <2>3
<1>4. ASSUME NEW e \in Events(h)
      PROVE  /\ EventDay(k, e) = EventDay(h, e)
             /\ e.kind \in {"payment", "refund"}
             /\ e.kind = "payment" => e.id \in DOMAIN h.payments /\ k.payments[e.id] = h.payments[e.id]
  <2>1. /\ e.kind \in {"payment", "refund"} /\ (e.kind = "refund" => e.id \in DOMAIN h.refunds)
        /\ e.kind = "payment" => e.id \in Active(h)
    BY <1>0, EventsFacts
  <2>2. e.kind = "payment" => e.id \in DOMAIN h.payments /\ k.payments[e.id] = h.payments[e.id]
    BY <1>1, <2>1 DEF MorePaid
  <2> QED
    BY <2>1, <2>2 DEF EventDay, MorePaid
<1>5. ASSUME NEW a \in Events(h), NEW b \in Events(h)
      PROVE  EventBefore(k, a, b) <=> EventBefore(h, a, b)
  <2>1. EventDay(k, a) = EventDay(h, a) /\ EventDay(k, b) = EventDay(h, b)
    BY <1>4
  <2>2. CASE a.kind = "payment" /\ b.kind = "payment"
    <3>1. k.payments[a.id] = h.payments[a.id] /\ k.payments[b.id] = h.payments[b.id]
      BY <1>4, <2>2
    <3>2. Sooner(k, a, b) <=> Sooner(h, a, b)
      BY <3>1 DEF Sooner
    <3> QED
      BY <2>1, <3>2, BeforeIs
  <2>3. CASE a.kind # b.kind \/ a.kind = "refund"
    BY <2>1, <2>3, BeforeIs
  <2> QED
    BY <1>4, <2>2, <2>3
<1>6. ASSUME NEW T \in SUBSET Events(k), T # {}, Latest(k, T) # x
      PROVE  Latest(h, T \ {x}) = Latest(k, T)
  <2>1. PICK e \in T : e = Latest(k, T) /\ \A o \in T \ {e} : EventBefore(k, o, e)
    BY <1>0, <1>6, LatestFacts
  <2>2. T \ {x} \in SUBSET Events(h) /\ e \in T \ {x}
    BY <1>2, <1>6, <2>1
  <2>3. \A o \in (T \ {x}) \ {e} : EventBefore(h, o, e)
    BY <1>5, <2>1, <2>2
  <2> QED
    BY <2>1, <2>2, <2>3, LatestIs
<1> QED
  BY <1>1, <1>2, <1>3, <1>4, <1>6

\* The replays s and t of the histories h and k, after the events U or, when the new
\* payment x is not one of h, those of U without it.
Beside(h, k, x, U, s, t, today) ==
    /\ U \subseteq Events(k)
    /\ StageKept(h, U \ {x}, s, today) /\ StageKept(k, U, t, today)

\* What two such replays have in common, and the money of the second: no less.
LEMMA BesideFacts ==
  ASSUME NEW h, Blank(h), NEW k, Blank(k), NEW n, MorePaid(h, k, n),
         NEW x, x = [kind |-> "payment", id |-> n], NEW today \in Nat,
         NEW U, NEW s, NEW t, Beside(h, k, x, U, s, t, today)
  PROVE  /\ Fits(s.c) /\ Fits(t.c) /\ Ends(s.c) /\ Ends(t.c) /\ SameCharges(s.c, t.c)
         /\ Within(s.c) /\ Within(t.c) /\ PaidInOrder(s.c) /\ PaidInOrder(t.c)
         /\ \A day : PaidUntil(k, U, day) => PaidUntil(h, U \ {x}, day)
         /\ ~s.overdrawn /\ ~t.overdrawn =>
              AllocatedTotal(s.c) + s.penaltyPaid + s.credit
                <= AllocatedTotal(t.c) + t.penaltyPaid + t.credit
<1> DEFINE R == U \ {x}
<1>0. /\ Active(k) = Active(h) \cup {n} /\ Events(k) = Events(h) \cup {x} /\ x \notin Events(h)
      /\ \A e \in Events(h) : EventDay(k, e) = EventDay(h, e)
  BY MorePaidOrder
<1>1. /\ Underway(h, R, s) /\ Underway(k, U, t) /\ Balanced(h, R, s) /\ Balanced(k, U, t)
      /\ Ends(h) /\ Ends(k) /\ Fits(h) /\ Fits(k) /\ U \subseteq Events(k) /\ R \subseteq Events(h)
  BY <1>0 DEF Beside, StageKept, Blank
<1>2. /\ Fits(s.c) /\ Fits(t.c) /\ Within(s.c) /\ Within(t.c) /\ PaidInOrder(s.c) /\ PaidInOrder(t.c)
      /\ Reallocates(h, s.c) /\ Reallocates(k, t.c)
  BY <1>1 DEF Underway
<1>3. Ends(s.c) /\ Ends(t.c) /\ SameCharges(s.c, t.c)
  BY <1>1, <1>2 DEF Ends, Reallocates, SameCharges, MorePaid
<1>4. ASSUME NEW day, PaidUntil(k, U, day) PROVE PaidUntil(h, R, day)
  BY <1>0, <1>1, <1>4 DEF PaidUntil
<1>5. ASSUME ~s.overdrawn, ~t.overdrawn
      PROVE  AllocatedTotal(s.c) + s.penaltyPaid + s.credit
               <= AllocatedTotal(t.c) + t.penaltyPaid + t.credit
  <2> DEFINE D == Done(h, R)
             E == Done(k, U)
             B == GivenBack(h, R)
  <2>1. /\ IsFiniteSet(D) /\ IsFiniteSet(E) /\ IsFiniteSet(B)
        /\ D \subseteq DOMAIN h.payments /\ E \subseteq DOMAIN k.payments /\ B \subseteq DOMAIN h.refunds
        /\ \A p \in DOMAIN h.payments : PaidSums(h)[p] = h.payments[p].amount /\ PaidSums(h)[p] \in Int
        /\ \A p \in DOMAIN k.payments : PaidSums(k)[p] = k.payments[p].amount /\ PaidSums(k)[p] \in Int
        /\ \A r \in DOMAIN h.refunds : RefundSums(h)[r] \in Int
    BY DoneFinite
  <2>2. GivenBack(k, U) = B /\ RefundSums(k) = RefundSums(h)
    BY DEF GivenBack, RefundSums, MorePaid
  <2>3. D \in SUBSET E
    BY <1>0 DEF Done
  <2>4. \A p \in D : PaidSums(k)[p] = PaidSums(h)[p]
    BY <2>1, <2>3 DEF MorePaid
  <2>5. \A p \in E : PaidSums(k)[p] >= 0
    BY <1>1, <2>1 DEF Fits, PaymentFits
  <2> HIDE DEF D, E, B, R
  <2>6. SumOver(PaidSums(h), D) = SumOver(PaidSums(k), D)
    <3>1. \A p \in D : PaidSums(h)[p] \in Int /\ PaidSums(h)[p] = PaidSums(k)[p]
      BY <2>1, <2>4
    <3> QED
      BY <2>1, <3>1, SumEqual
  <2>7. /\ SumOver(PaidSums(k), D) <= SumOver(PaidSums(k), E)
        /\ SumOver(PaidSums(k), D) \in Int /\ SumOver(PaidSums(k), E) \in Int
    <3>1. \A p \in E : PaidSums(k)[p] \in Int
      BY <2>1
    <3>2. \A p \in D : PaidSums(k)[p] \in Int
      BY <2>3, <3>1
    <3> QED
      BY <2>1, <2>3, <2>5, <3>1, <3>2, SumSubset, SumInt
  <2>8. SumOver(RefundSums(h), B) \in Int
    BY <2>1, SumInt
  <2>9. /\ SumOver(PaidSums(h), D)
             = AllocatedTotal(s.c) + s.penaltyPaid + s.credit + SumOver(RefundSums(h), B)
        /\ SumOver(PaidSums(k), E)
             = AllocatedTotal(t.c) + t.penaltyPaid + t.credit + SumOver(RefundSums(h), B)
    BY <1>1, <1>5, <2>2 DEF Balanced, D, E, B
  <2>10. /\ AllocatedTotal(s.c) \in Int /\ AllocatedTotal(t.c) \in Int
         /\ s.penaltyPaid \in Int /\ t.penaltyPaid \in Int /\ s.credit \in Int /\ t.credit \in Int
    <3>1. AllocatedTotal(s.c) \in Int /\ AllocatedTotal(t.c) \in Int
      BY <1>2, AllocatedNat, MonthsFacts, SumInt DEF AllocatedTotal
    <3> QED
      BY <1>1, <3>1 DEF Underway
  <2> QED
    BY <2>6, <2>7, <2>8, <2>9, <2>10
<1> QED
  BY <1>2, <1>3, <1>4, <1>5

\* The replay t is no poorer than s: no less is paid of any accrual, no more is left of
\* one on any day, and t has not run out of credit unless s has.
Richer(s, t) ==
    ~s.overdrawn => /\ ~t.overdrawn /\ LessLeft(s.c, t.c)
                    /\ \A i \in AccrualIds : Allocated(s.c, i) <= Allocated(t.c, i)

\* Nothing is paid in the beginning.
LEMMA RicherBegins ==
  ASSUME NEW h, Blank(h), NEW k, Blank(k), SameCharges(h, k)
  PROVE  Richer(Begun(h), Begun(k))
<1>1. \A c : Blank(c) => AllocatedUntil(c, 0)
  BY DEF Blank, AllocatedUntil, Active
<1>2. /\ \A i \in AccrualIds : Allocated(h, i) = 0 /\ Allocated(k, i) = 0
      /\ \A i \in AccrualIds : Total(k, i) = Total(h, i) /\ Total(h, i) \in Nat
  BY BlankFacts DEF SameCharges, Total, Blank, Fits
<1>3. ASSUME NEW y \in Nat, NEW i \in AccrualIds PROVE LeftOn(k, y)[i] = LeftOn(h, y)[i]
  <2>1. 0 \in Nat /\ 0 <= y
    OBVIOUS
  <2>2. LeftOn(h, y)[i] = Total(h, i) - Allocated(h, i)
    BY <1>1, <2>1, LeftWhenDone DEF Blank
  <2>3. LeftOn(k, y)[i] = Total(k, i) - Allocated(k, i)
    BY <1>1, <2>1, LeftWhenDone DEF Blank
  <2> QED
    BY <1>2, <2>2, <2>3
<1>4. LessLeft(h, k)
  <2> SUFFICES ASSUME NEW y \in Nat, NEW i \in AccrualIds PROVE LeftOn(k, y)[i] <= LeftOn(h, y)[i]
    BY DEF LessLeft
  <2>1. LeftOn(h, y)[i] \in Int
    BY LeftOnInt DEF Blank
  <2> QED
    BY <1>3, <2>1
<1> QED
  BY <1>2, <1>4 DEF Richer, Begun

\* The new payment only pays more.
LEMMA RicherNew ==
  ASSUME NEW k, Blank(k), NEW U, NEW s, NEW t, Underway(k, U, t), Richer(s, t), Fits(s.c),
         NEW n \in Active(k), n \notin Done(k, U), NEW day \in Nat, NEW today \in Nat,
         NEW t2, t2 = ReplayPayment(t, n, day, today), SameCharges(s.c, t.c)
  PROVE  Richer(s, t2)
<1>1. /\ n \in Active(t.c) /\ MoneyOf(t, n) \in Int /\ OwedOn(t, day, today) \in Int /\ Fits(t.c)
  BY NotDone
<1>2. /\ Placed(t.c, t2.c, n, day, MoneyOf(t, n), OwedOn(t, day, today))
      /\ t2.overdrawn = t.overdrawn
  BY PaymentReplayed
<1>4. LessLeft(t.c, t2.c) /\ \A i \in AccrualIds : Allocated(t.c, i) <= Allocated(t2.c, i)
  BY <1>1, <1>2, PlacedLeaves
<1>5. Fits(t2.c)
  BY <1>1, <1>2, PlacedFits
<1> SUFFICES ASSUME ~s.overdrawn
             PROVE  /\ ~t2.overdrawn /\ LessLeft(s.c, t2.c)
                    /\ \A i \in AccrualIds : Allocated(s.c, i) <= Allocated(t2.c, i)
  BY DEF Richer
<1>6. /\ ~t.overdrawn /\ LessLeft(s.c, t.c)
      /\ \A i \in AccrualIds : Allocated(s.c, i) <= Allocated(t.c, i)
  BY DEF Richer
<1>7. LessLeft(s.c, t2.c)
  <2> SUFFICES ASSUME NEW y \in Nat, NEW i \in AccrualIds
               PROVE  LeftOn(t2.c, y)[i] <= LeftOn(s.c, y)[i]
    BY DEF LessLeft
  <2>1. y \in Int
    OBVIOUS
  <2>2. LeftOn(s.c, y)[i] \in Int /\ LeftOn(t.c, y)[i] \in Int /\ LeftOn(t2.c, y)[i] \in Int
    BY <1>1, <1>5, <2>1, LeftOnInt
  <2> QED
    BY <1>4, <1>6, <2>2 DEF LessLeft
<1>8. ASSUME NEW i \in AccrualIds PROVE Allocated(s.c, i) <= Allocated(t2.c, i)
  <2>1. Allocated(s.c, i) \in Nat /\ Allocated(t.c, i) \in Nat /\ Allocated(t2.c, i) \in Nat
    BY <1>1, <1>5, AllocatedNat
  <2> QED
    BY <1>4, <1>6, <2>1
<1> QED
  BY <1>2, <1>6, <1>7, <1>8

\* A refund that the poorer replay can cover the richer one can: where credit is left
\* everything is paid up, in both, and the richer one owes no more penalty.
LEMMA RicherRefund ==
  ASSUME NEW h, Blank(h), NEW k, Blank(k), NEW n, MorePaid(h, k, n),
         NEW x, x = [kind |-> "payment", id |-> n], NEW today \in Nat, Past(h, today),
         NEW U, NEW s, NEW t, Beside(h, k, x, U, s, t, today), Richer(s, t),
         NEW day \in Nat, PaidUntil(k, U, day), NEW r \in DOMAIN h.refunds,
         NEW s2, s2 = ReplayRefund(s, r), NEW t2, t2 = ReplayRefund(t, r)
  PROVE  Richer(s2, t2)
<1>1. /\ Fits(s.c) /\ Fits(t.c) /\ Ends(s.c) /\ Ends(t.c) /\ SameCharges(s.c, t.c)
      /\ Within(s.c) /\ Within(t.c) /\ PaidUntil(h, U \ {x}, day)
      /\ ~s.overdrawn /\ ~t.overdrawn =>
              AllocatedTotal(s.c) + s.penaltyPaid + s.credit
                <= AllocatedTotal(t.c) + t.penaltyPaid + t.credit
  BY BesideFacts
<1>2. /\ Underway(h, U \ {x}, s) /\ Underway(k, U, t)
      /\ Balanced(h, U \ {x}, s) /\ Balanced(k, U, t)
      /\ Saturated(h, U \ {x}, s, today) /\ Covered(k, U, t, today)
  BY DEF Beside, StageKept
<1>3. /\ s2.c = s.c /\ s2.overdrawn = (s.overdrawn \/ s.credit < s.c.refunds[r].amount)
      /\ t2.c = t.c /\ t2.overdrawn = (t.overdrawn \/ t.credit < t.c.refunds[r].amount)
  BY <1>2, RefundedIs DEF Underway
<1>4. /\ t.c.refunds[r].amount = s.c.refunds[r].amount /\ s.c.refunds[r].amount \in Nat
      /\ s.credit \in Int /\ t.credit \in Int /\ s.penaltyPaid \in Nat /\ t.penaltyPaid \in Nat
  BY <1>2 DEF Underway, Reallocates, MorePaid, Blank, RefundsFit
<1> SUFFICES ASSUME ~s2.overdrawn
             PROVE  /\ ~t2.overdrawn /\ LessLeft(s2.c, t2.c)
                    /\ \A i \in AccrualIds : Allocated(s2.c, i) <= Allocated(t2.c, i)
  BY DEF Richer
<1>5. /\ ~s.overdrawn /\ ~t.overdrawn /\ LessLeft(s.c, t.c)
      /\ \A i \in AccrualIds : Allocated(s.c, i) <= Allocated(t.c, i)
  BY <1>3 DEF Richer
<1>6. s.credit \in Nat /\ t.credit \in Nat /\ (s.credit > 0 => PaidUp(s.c))
  BY <1>2, <1>5 DEF Balanced
<1>8. ASSUME s.credit > 0 PROVE s.credit <= t.credit
  <2>1. /\ AccruedBefore(s.c, day, today) <= s.penaltyPaid
        /\ t.penaltyPaid <= AccruedBefore(t.c, day, today)
    BY <1>1, <1>2, <1>8 DEF Saturated, Covered
  <2>2. /\ AccruedBefore(t.c, day, today) <= AccruedBefore(s.c, day, today)
        /\ AccruedBefore(t.c, day, today) \in Nat /\ AccruedBefore(s.c, day, today) \in Nat
    <3>1. day \in Int /\ day <= day
      OBVIOUS
    <3> QED
      BY <1>1, <1>5, <3>1, AccruedLess, AccruedGrows
  <2>3. ASSUME NEW i \in AccrualIds PROVE Allocated(t.c, i) = Allocated(s.c, i)
    <3>1. Allocated(s.c, i) \in Nat /\ Allocated(t.c, i) \in Nat /\ Total(s.c, i) \in Nat
      BY <1>1, AllocatedNat DEF Fits
    <3>2. Total(t.c, i) = Total(s.c, i) /\ t.c.voided[i] = s.c.voided[i]
      BY <1>1 DEF SameCharges, Total
    <3>3. Allocated(t.c, i) <= IF s.c.voided[i] THEN 0 ELSE Total(s.c, i)
      BY <1>1, <3>2 DEF Within
    <3>4. CASE s.c.voided[i]
      BY <1>5, <3>1, <3>3, <3>4
    <3>5. CASE ~s.c.voided[i]
      <4>1. Room(s.c, i) = 0
        BY <1>6, <1>8, <3>5 DEF PaidUp, Live
      <4>2. Room(s.c, i) >= Total(s.c, i) - Allocated(s.c, i)
        BY <1>1, RoomNat
      <4> QED
        BY <1>5, <3>1, <3>3, <3>5, <4>1, <4>2
    <3> QED
      BY <3>4, <3>5
  <2>4. AllocatedTotal(t.c) = AllocatedTotal(s.c)
    BY <2>3 DEF AllocatedTotal
  <2>5. AllocatedTotal(s.c) \in Int
    BY <1>1, AllocatedNat, MonthsFacts, SumInt DEF AllocatedTotal
  <2> QED
    BY <1>1, <1>4, <1>5, <2>1, <2>2, <2>4, <2>5
<1>9. s.credit <= t.credit
  BY <1>6, <1>8
<1>10. ~(s.credit < s.c.refunds[r].amount)
  BY <1>3
<1>11. ~(t.credit < t.c.refunds[r].amount)
  BY <1>4, <1>9, <1>10
<1>12. ~t2.overdrawn
  BY <1>3, <1>5, <1>11, Zenon
<1> QED
  BY <1>3, <1>5, <1>12, Zenon

\* Where no plan can be poorer: everything paid up pays for any accrual what it costs.
LEMMA PaidUpIsMost ==
  ASSUME NEW c, NEW d, Fits(c), Fits(d), Within(c), PaidUp(d), SameCharges(c, d)
  PROVE  \A i \in AccrualIds : Allocated(c, i) <= Allocated(d, i)
<1> TAKE i \in AccrualIds
<1>1. Allocated(c, i) \in Nat /\ Allocated(d, i) \in Nat /\ Total(c, i) \in Nat
  BY AllocatedNat DEF Fits
<1>2. Total(d, i) = Total(c, i) /\ d.voided[i] = c.voided[i]
  BY DEF SameCharges, Total
<1>3. Allocated(c, i) <= IF c.voided[i] THEN 0 ELSE Total(c, i)
  BY DEF Within
<1>4. CASE c.voided[i]
  BY <1>1, <1>3, <1>4
<1>5. CASE ~c.voided[i]
  <2>1. Room(d, i) = 0
    BY <1>2, <1>5 DEF PaidUp, Live
  <2>2. Room(d, i) >= Total(d, i) - Allocated(d, i)
    BY RoomNat
  <2> QED
    BY <1>1, <1>2, <1>3, <1>5, <2>1, <2>2
<1> QED
  BY <1>4, <1>5

\* A payment that both replays make leaves the richer one no poorer.  Either it pays up
\* what the poorer can pay: everything, when credit is left or was there, and what is due
\* when a penalty is paid and the poorer pays nothing beyond; or no less of its money goes
\* to the accruals, because none goes to the penalty or the poorer has paid it all.
LEMMA RicherPays ==
  ASSUME NEW h, Blank(h), NEW k, Blank(k), NEW n, MorePaid(h, k, n),
         NEW x, x = [kind |-> "payment", id |-> n], NEW today \in Nat,
         NEW U, NEW s, NEW t, Beside(h, k, x, U, s, t, today), Richer(s, t), ~s.overdrawn,
         NEW p \in Active(h), p \in Active(k), p \notin Done(h, U \ {x}), p \notin Done(k, U),
         NEW day \in Nat, day <= today,
         NEW s2, s2 = ReplayPayment(s, p, day, today), NEW t2, t2 = ReplayPayment(t, p, day, today),
         NEW V, Beside(h, k, x, V, s2, t2, today), PaidUntil(k, V, day),
         MoscowDay(h.payments[p].at) = day
  PROVE  \A i \in AccrualIds : Allocated(s2.c, i) <= Allocated(t2.c, i)
<1>1. /\ Fits(s.c) /\ Fits(t.c) /\ Ends(s.c) /\ Ends(t.c) /\ SameCharges(s.c, t.c)
      /\ Within(s.c) /\ Within(t.c) /\ PaidInOrder(s.c) /\ PaidInOrder(t.c)
  BY BesideFacts
<1>2. /\ Fits(s2.c) /\ Fits(t2.c) /\ Ends(s2.c) /\ Ends(t2.c) /\ SameCharges(s2.c, t2.c)
      /\ Within(s2.c) /\ Within(t2.c) /\ PaidInOrder(s2.c) /\ PaidInOrder(t2.c)
      /\ ~s2.overdrawn /\ ~t2.overdrawn =>
              AllocatedTotal(s2.c) + s2.penaltyPaid + s2.credit
                <= AllocatedTotal(t2.c) + t2.penaltyPaid + t2.credit
  BY BesideFacts
<1>3. /\ Underway(h, U \ {x}, s) /\ Underway(k, U, t)
      /\ Balanced(h, U \ {x}, s) /\ Balanced(k, U, t)
      /\ Balanced(h, V \ {x}, s2) /\ Balanced(k, V, t2) /\ Covered(k, V, t2, today)
  BY DEF Beside, StageKept
<1>4. /\ p \in Active(s.c) /\ MoneyOf(s, p) \in Int /\ OwedOn(s, day, today) \in Int
      /\ p \in Active(t.c) /\ MoneyOf(t, p) \in Int /\ OwedOn(t, day, today) \in Int
      /\ MoneyOf(s, p) = h.payments[p].amount + s.credit
      /\ MoneyOf(t, p) = h.payments[p].amount + t.credit /\ h.payments[p].amount \in Nat
      /\ AccruedBefore(s.c, day, today) \in Nat /\ AccruedBefore(t.c, day, today) \in Nat
      /\ s.penaltyPaid \in Nat /\ t.penaltyPaid \in Nat
      /\ OwedOn(s, day, today) = AccruedBefore(s.c, day, today) - s.penaltyPaid
  <2>1. k.payments[p] = h.payments[p]
    BY DEF MorePaid, Active
  <2>2. /\ p \in Active(s.c) /\ MoneyOf(s, p) \in Int /\ OwedOn(s, day, today) \in Int
        /\ MoneyOf(s, p) = h.payments[p].amount + s.credit /\ h.payments[p].amount \in Nat
        /\ AccruedBefore(s.c, day, today) \in Nat /\ s.penaltyPaid \in Nat
    BY <1>3, NotDone
  <2>3. /\ p \in Active(t.c) /\ MoneyOf(t, p) \in Int /\ OwedOn(t, day, today) \in Int
        /\ MoneyOf(t, p) = k.payments[p].amount + t.credit
        /\ AccruedBefore(t.c, day, today) \in Nat /\ t.penaltyPaid \in Nat
    BY <1>3, NotDone
  <2>4. OwedOn(s, day, today) = AccruedBefore(s.c, day, today) - s.penaltyPaid
    BY DEF OwedOn
  <2> QED
    BY <2>1, <2>2, <2>3, <2>4
<1> DEFINE plan == FifoPlan(s.c, day, MoneyOf(s, p), OwedOn(s, day, today))
           other == FifoPlan(t.c, day, MoneyOf(t, p), OwedOn(t, day, today))
<1>5. /\ Placed(s.c, s2.c, p, day, MoneyOf(s, p), OwedOn(s, day, today))
      /\ s2.penaltyPaid = s.penaltyPaid + plan.penalty /\ s2.credit = plan.credit
      /\ s2.overdrawn = s.overdrawn
      /\ Placed(t.c, t2.c, p, day, MoneyOf(t, p), OwedOn(t, day, today))
      /\ t2.penaltyPaid = t.penaltyPaid + other.penalty /\ t2.credit = other.credit
      /\ t2.overdrawn = t.overdrawn
  BY <1>3, PaymentReplayed DEF PlanFor
<1>6. /\ ~t.overdrawn /\ LessLeft(s.c, t.c)
      /\ \A i \in AccrualIds : Allocated(s.c, i) <= Allocated(t.c, i)
  BY DEF Richer
<1>7. /\ s.credit \in Nat /\ t.credit \in Nat /\ s2.credit \in Nat /\ t2.credit \in Nat
      /\ s.credit > 0 => PaidUp(s.c)
      /\ t2.credit > 0 => PaidUp(t2.c)
  BY <1>3, <1>5, <1>6 DEF Balanced
<1>8. /\ \A i \in AccrualIds :
              /\ plan.alloc[i] \in Nat /\ plan.alloc[i] <= Room(s.c, i)
              /\ Allocated(s2.c, i) = Allocated(s.c, i) + plan.alloc[i]
              /\ other.alloc[i] \in Nat
              /\ Allocated(t2.c, i) = Allocated(t.c, i) + other.alloc[i]
              /\ Allocated(s.c, i) \in Nat /\ Allocated(t.c, i) \in Nat
      /\ \A i \in AccrualIds \ Live(s.c) : plan.alloc[i] = 0
      /\ plan.penalty \in Nat /\ other.penalty \in Nat
  <2>1. /\ plan.alloc \in [AccrualIds -> Nat] /\ plan.penalty \in Nat
        /\ \A i \in AccrualIds : plan.alloc[i] <= Room(s.c, i)
        /\ \A i \in AccrualIds \ Live(s.c) : plan.alloc[i] = 0
    BY <1>1, <1>4, PlanFacts
  <2>2. other.alloc \in [AccrualIds -> Nat] /\ other.penalty \in Nat
    BY <1>1, <1>4, PlanFacts
  <2>3. /\ Extends(s.c, s2.c, p) /\ Extends(t.c, t2.c, p)
        /\ s2.c.payments[p].alloc = plan.alloc /\ t2.c.payments[p].alloc = other.alloc
    BY <1>1, <1>4, <1>5, PlacedFits DEF Placed
  <2>4. /\ \A i \in AccrualIds : Allocated(s2.c, i) = Allocated(s.c, i) + s2.c.payments[p].alloc[i]
        /\ \A i \in AccrualIds : Allocated(t2.c, i) = Allocated(t.c, i) + t2.c.payments[p].alloc[i]
    BY <1>1, <1>2, <2>3, AllocatedAfter
  <2>5. \A i \in AccrualIds : Allocated(s.c, i) \in Nat /\ Allocated(t.c, i) \in Nat
    BY <1>1, AllocatedNat
  <2> HIDE DEF plan, other
  <2> QED
    BY <2>1, <2>2, <2>3, <2>4, <2>5
<1>9. /\ other.penalty > 0 => \A i \in DueOn(t.c, day) : other.alloc[i] = Room(t.c, i)
      /\ \A i \in LaterOn(s.c, day) : plan.alloc[i] > 0 => OwedOn(s, day, today) <= plan.penalty
  BY <1>1, <1>4, PlanOrder
<1>10. /\ AllocatedTotal(s2.c) \in Nat /\ AllocatedTotal(t2.c) \in Nat
       /\ AllocatedTotal(s.c) \in Nat /\ AllocatedTotal(t.c) \in Nat
       /\ AllocatedTotal(s.c) <= AllocatedTotal(t.c)
       /\ AllocatedTotal(s2.c) + plan.penalty + plan.credit = AllocatedTotal(s.c) + MoneyOf(s, p)
       /\ AllocatedTotal(t2.c) + other.penalty + other.credit = AllocatedTotal(t.c) + MoneyOf(t, p)
  <2>1. /\ \A i \in AccrualIds : Allocated(s2.c, i) \in Nat /\ Allocated(t2.c, i) \in Nat
        /\ \A i \in AccrualIds : Allocated(s.c, i) \in Nat /\ Allocated(t.c, i) \in Nat
    BY <1>1, <1>2, AllocatedNat
  <2>2. /\ AllocatedTotal(s2.c) \in Nat /\ AllocatedTotal(t2.c) \in Nat
        /\ AllocatedTotal(s.c) \in Nat /\ AllocatedTotal(t.c) \in Nat
    BY <2>1, MonthsFacts, SumNat DEF AllocatedTotal
  <2>3. AllocatedTotal(s.c) <= AllocatedTotal(t.c)
    <3> DEFINE f == [i \in AccrualIds |-> Allocated(s.c, i)]
               g == [i \in AccrualIds |-> Allocated(t.c, i)]
    <3>1. \A i \in AccrualIds : f[i] \in Int /\ g[i] \in Int /\ f[i] <= g[i]
      BY <1>6, <2>1
    <3> HIDE DEF f, g
    <3>2. SumOver(f, AccrualIds) <= SumOver(g, AccrualIds)
      BY <3>1, MonthsFacts, SumLess
    <3> QED
      BY <3>2 DEF AllocatedTotal, f, g
  <2>4. MoneyOf(s, p) >= 0 /\ MoneyOf(t, p) >= 0
    BY <1>4, <1>7
  <2>5. /\ SumOver(plan.alloc, AccrualIds) + plan.penalty + plan.credit = MoneyOf(s, p)
        /\ SumOver(other.alloc, AccrualIds) + other.penalty + other.credit = MoneyOf(t, p)
    BY <1>1, <1>4, <2>4, PlanFacts
  <2>6. /\ Extends(s.c, s2.c, p) /\ Extends(t.c, t2.c, p)
        /\ s2.c.payments[p].alloc = plan.alloc /\ t2.c.payments[p].alloc = other.alloc
    BY <1>1, <1>4, <1>5, PlacedFits DEF Placed
  <2>7. /\ AllocatedTotal(s2.c) = AllocatedTotal(s.c) + SumOver(plan.alloc, AccrualIds)
        /\ AllocatedTotal(t2.c) = AllocatedTotal(t.c) + SumOver(other.alloc, AccrualIds)
    BY <1>1, <1>2, <2>6, AllocatedTotalAfter
  <2>8. SumOver(plan.alloc, AccrualIds) \in Int /\ SumOver(other.alloc, AccrualIds) \in Int
    <3> HIDE DEF plan, other
    <3>1. \A i \in AccrualIds : plan.alloc[i] \in Int /\ other.alloc[i] \in Int
      BY <1>8
    <3> QED
      BY <3>1, MonthsFacts, SumInt
  <2>9. plan.penalty \in Int /\ plan.credit \in Int /\ other.penalty \in Int /\ other.credit \in Int
    BY <1>5, <1>7, <1>8
  <2> HIDE DEF plan, other
  <2> QED
    BY <1>4, <2>2, <2>3, <2>5, <2>7, <2>8, <2>9
<1> HIDE DEF plan, other
<1>11. CASE AllocatedTotal(s2.c) <= AllocatedTotal(t2.c)
  BY <1>2, <1>11, PaidInOrderTotal DEF SameCharges
<1>12. CASE t2.credit > 0
  BY <1>2, <1>7, <1>12, PaidUpIsMost
<1>13. CASE s.credit > 0
  <2>1. ASSUME NEW i \in AccrualIds PROVE Allocated(s2.c, i) <= Allocated(t2.c, i)
    <3>1. plan.alloc[i] = 0
      BY <1>7, <1>8, <1>13 DEF PaidUp
    <3> QED
      BY <1>6, <1>8, <3>1
  <2> QED
    BY <2>1
<1>14. CASE t2.credit = 0 /\ s.credit = 0 /\ other.penalty = 0
  <2>1. AllocatedTotal(s2.c) <= AllocatedTotal(t2.c)
    BY <1>4, <1>5, <1>7, <1>8, <1>10, <1>14
  <2> QED
    BY <1>11, <2>1
<1>15. CASE t2.credit = 0 /\ other.penalty > 0 /\ \E i \in LaterOn(s.c, day) : plan.alloc[i] > 0
  <2>1. AccruedBefore(s.c, day, today) <= s2.penaltyPaid
    <3>1. PICK i \in LaterOn(s.c, day) : plan.alloc[i] > 0
      BY <1>15
    <3>2. OwedOn(s, day, today) <= plan.penalty
      BY <1>9, <3>1
    <3> QED
      BY <1>4, <1>5, <1>8, <3>2
  <2>2. t2.penaltyPaid <= AccruedBefore(t2.c, day, today)
    BY <1>3 DEF Covered
  <2>3. AccruedBefore(t2.c, day, today) = AccruedBefore(t.c, day, today)
    <3>1. PICK e : e = [kind |-> "payment", id |-> p]
      OBVIOUS
    <3>2. day = EventDay(k, e)
      BY <3>1 DEF EventDay, MorePaid, Active
    <3> QED
      BY <1>3, <3>1, <3>2, AccruedAfterPayment
  <2>4. AccruedBefore(t.c, day, today) <= AccruedBefore(s.c, day, today)
    <3>1. day \in Int
      OBVIOUS
    <3> QED
      BY <1>1, <1>6, <3>1, AccruedLess
  <2>5. t2.penaltyPaid <= s2.penaltyPaid /\ s2.penaltyPaid \in Nat /\ t2.penaltyPaid \in Nat
    BY <1>4, <1>5, <1>8, <2>1, <2>2, <2>3, <2>4
  <2>6. AllocatedTotal(s2.c) + s2.penaltyPaid + s2.credit
                <= AllocatedTotal(t2.c) + t2.penaltyPaid + t2.credit
    BY <1>2, <1>5, <1>6
  <2>7. AllocatedTotal(s2.c) <= AllocatedTotal(t2.c)
    BY <1>7, <1>10, <1>15, <2>5, <2>6
  <2> QED
    BY <1>11, <2>7
<1>16. CASE other.penalty > 0 /\ \A i \in LaterOn(s.c, day) : ~(plan.alloc[i] > 0)
  <2>1. ASSUME NEW i \in AccrualIds PROVE Allocated(s2.c, i) <= Allocated(t2.c, i)
    <3>1. CASE i \in DueOn(s.c, day)
      <4>1. Total(t.c, i) = Total(s.c, i) /\ i \in DueOn(t.c, day) /\ i \in Live(s.c)
        BY <1>1, <3>1 DEF SameCharges, Total, DueOn, Live
      <4>2. other.alloc[i] = Room(t.c, i)
        BY <1>9, <1>16, <4>1
      <4>3. Room(t.c, i) >= Total(t.c, i) - Allocated(t.c, i) /\ Total(s.c, i) \in Nat
        BY <1>1, RoomNat DEF Fits
      <4>4. Allocated(s2.c, i) <= Total(s2.c, i) /\ Total(s2.c, i) = Total(s.c, i)
        <5>1. s2.c.voided = s.c.voided /\ s2.c.adj = s.c.adj
          BY <1>5 DEF Placed, Reallocates
        <5> QED
          BY <1>2, <4>1, <5>1 DEF Within, Total, Live
      <4> QED
        BY <1>8, <4>1, <4>2, <4>3, <4>4
    <3>2. CASE i \notin DueOn(s.c, day)
      <4>1. plan.alloc[i] = 0
        <5>1. i \in Live(s.c) => i \in LaterOn(s.c, day)
          BY <3>2 DEF LaterOn
        <5> QED
          BY <1>8, <1>16, <5>1
      <4> QED
        BY <1>6, <1>8, <4>1
    <3> QED
      BY <3>1, <3>2
  <2> QED
    BY <2>1
<1> QED
  BY <1>7, <1>8, <1>12, <1>13, <1>14, <1>15, <1>16

\* A payment both replays make keeps the richer one no poorer: it leaves as much as there
\* was on the days before its own, and what all payments leave from then on.
LEMMA RicherPayment ==
  ASSUME NEW h, Blank(h), NEW k, Blank(k), NEW n, MorePaid(h, k, n),
         NEW x, x = [kind |-> "payment", id |-> n], NEW today \in Nat,
         NEW U, NEW s, NEW t, Beside(h, k, x, U, s, t, today), Richer(s, t),
         NEW p \in Active(h), p \in Active(k), p \notin Done(h, U \ {x}), p \notin Done(k, U),
         NEW day \in Nat, day <= today,
         NEW s2, s2 = ReplayPayment(s, p, day, today), NEW t2, t2 = ReplayPayment(t, p, day, today),
         NEW V, Beside(h, k, x, V, s2, t2, today), PaidUntil(k, V, day),
         MoscowDay(h.payments[p].at) = day
  PROVE  Richer(s2, t2)
<1>1. /\ Underway(h, U \ {x}, s) /\ Underway(k, U, t)
      /\ Underway(h, V \ {x}, s2) /\ Underway(k, V, t2)
  BY DEF Beside, StageKept
<1>2. s2.overdrawn = s.overdrawn /\ t2.overdrawn = t.overdrawn
  <2>1. s2.overdrawn = s.overdrawn
    BY <1>1, PaymentReplayed
  <2>2. t2.overdrawn = t.overdrawn
    BY <1>1, PaymentReplayed
  <2> QED
    BY <2>1, <2>2
<1> SUFFICES ASSUME ~s.overdrawn PROVE Richer(s2, t2)
  BY <1>2 DEF Richer
<1>3. ~t.overdrawn /\ LessLeft(s.c, t.c)
  BY DEF Richer
<1>4. \A i \in AccrualIds : Allocated(s2.c, i) <= Allocated(t2.c, i)
  BY RicherPays
<1>5. /\ Fits(s2.c) /\ Fits(t2.c) /\ SameCharges(s2.c, t2.c) /\ PaidUntil(h, V \ {x}, day)
  BY BesideFacts
<1>6. AllocatedUntil(s2.c, day) /\ AllocatedUntil(t2.c, day)
  BY <1>1, <1>5, DoneAllocated
<1>7. ASSUME NEW y \in Nat, NEW i \in AccrualIds, day <= y
      PROVE  LeftOn(t2.c, y)[i] <= LeftOn(s2.c, y)[i]
  <2>1. LeftOn(s2.c, y)[i] = Total(s2.c, i) - Allocated(s2.c, i)
    BY <1>5, <1>6, <1>7, LeftWhenDone
  <2>2. LeftOn(t2.c, y)[i] = Total(t2.c, i) - Allocated(t2.c, i)
    BY <1>5, <1>6, <1>7, LeftWhenDone
  <2>3. /\ Total(t2.c, i) = Total(s2.c, i) /\ Total(s2.c, i) \in Nat
        /\ Allocated(s2.c, i) \in Nat /\ Allocated(t2.c, i) \in Nat
    BY <1>5, AllocatedNat DEF SameCharges, Total, Fits
  <2> QED
    BY <1>4, <2>1, <2>2, <2>3
<1>8. ASSUME NEW y \in Nat, NEW i \in AccrualIds, y < day
      PROVE  LeftOn(t2.c, y)[i] <= LeftOn(s2.c, y)[i]
  <2>1. k.payments[p] = h.payments[p]
    BY DEF MorePaid, Active
  <2>2. LeftOn(s2.c, y)[i] = LeftOn(s.c, y)[i]
    <3>1. /\ p \in Active(s.c) /\ MoneyOf(s, p) \in Int /\ OwedOn(s, day, today) \in Int
          /\ Fits(s.c) /\ s.c.payments[p] = h.payments[p]
      BY <1>1, NotDone
    <3>2. Placed(s.c, s2.c, p, day, MoneyOf(s, p), OwedOn(s, day, today))
      BY <1>1, PaymentReplayed
    <3>3. SameLeft(s.c, s2.c, MoscowDay(s.c.payments[p].at))
      BY <3>1, <3>2, PlacedLeaves
    <3>4. y < MoscowDay(s.c.payments[p].at)
      BY <1>8, <3>1
    <3> QED
      BY <3>3, <3>4 DEF SameLeft
  <2>3. LeftOn(t2.c, y)[i] = LeftOn(t.c, y)[i]
    <3>1. /\ p \in Active(t.c) /\ MoneyOf(t, p) \in Int /\ OwedOn(t, day, today) \in Int
          /\ Fits(t.c) /\ t.c.payments[p] = k.payments[p]
      BY <1>1, NotDone
    <3>2. Placed(t.c, t2.c, p, day, MoneyOf(t, p), OwedOn(t, day, today))
      BY <1>1, PaymentReplayed
    <3>3. SameLeft(t.c, t2.c, MoscowDay(t.c.payments[p].at))
      BY <3>1, <3>2, PlacedLeaves
    <3>4. y < MoscowDay(t.c.payments[p].at)
      BY <1>8, <2>1, <3>1
    <3> QED
      BY <3>3, <3>4 DEF SameLeft
  <2> QED
    BY <1>3, <2>2, <2>3 DEF LessLeft
<1>9. LessLeft(s2.c, t2.c)
  BY <1>7, <1>8 DEF LessLeft
<1> QED
  BY <1>2, <1>3, <1>4, <1>9 DEF Richer

\* One event that both histories have.
LEMMA RicherStep ==
  ASSUME NEW h, Blank(h), NEW k, Blank(k), NEW n, MorePaid(h, k, n),
         NEW x, x = [kind |-> "payment", id |-> n], NEW today \in Nat, Past(h, today),
         NEW U, NEW s, NEW t, Beside(h, k, x, U, s, t, today), Richer(s, t),
         NEW e \in Events(h), e \notin U, \A o \in U : EventDay(k, o) <= EventDay(k, e),
         NEW s2, s2 = ReplayEvent(s, e, today), NEW t2, t2 = ReplayEvent(t, e, today)
  PROVE  Richer(s2, t2)
<1>1. /\ Active(k) = Active(h) \cup {n} /\ Events(k) = Events(h) \cup {x} /\ x \notin Events(h)
      /\ \A o \in Events(h) : EventDay(k, o) = EventDay(h, o)
  BY MorePaidOrder
<1>2. /\ U \subseteq Events(k) /\ StageKept(h, U \ {x}, s, today) /\ StageKept(k, U, t, today)
      /\ Underway(h, U \ {x}, s) /\ Underway(k, U, t)
  BY DEF Beside, StageKept
<1>3. /\ e \in Events(k) /\ e \notin U \ {x}
      /\ \A o \in U \ {x} : EventDay(h, o) <= EventDay(h, e)
  BY <1>1, <1>2
<1>4. \/ /\ e = [kind |-> "payment", id |-> e.id] /\ e.id \in Active(h) /\ e.id \notin Done(h, U \ {x})
         /\ EventDay(h, e) \in Nat /\ s2 = ReplayPayment(s, e.id, EventDay(h, e), today)
      \/ /\ e = [kind |-> "refund", id |-> e.id] /\ e.id \in DOMAIN h.refunds
         /\ s2 = ReplayRefund(s, e.id)
  BY <1>2, <1>3, EventStep
<1>5. \/ /\ e = [kind |-> "payment", id |-> e.id] /\ e.id \in Active(k) /\ e.id \notin Done(k, U)
         /\ EventDay(k, e) \in Nat /\ t2 = ReplayPayment(t, e.id, EventDay(k, e), today)
      \/ /\ e = [kind |-> "refund", id |-> e.id] /\ e.id \in DOMAIN k.refunds
         /\ t2 = ReplayRefund(t, e.id)
  BY <1>2, <1>3, EventStep
<1>6. CASE e.kind = "payment"
  <2>1. /\ e.id \in Active(h) /\ e.id \notin Done(h, U \ {x})
        /\ EventDay(h, e) \in Nat /\ s2 = ReplayPayment(s, e.id, EventDay(h, e), today)
    BY <1>4, <1>6
  <2>2. /\ e.id \in Active(k) /\ e.id \notin Done(k, U) /\ t2 = ReplayPayment(t, e.id, EventDay(h, e), today)
    BY <1>1, <1>5, <1>6
  <2>3. EventDay(h, e) = MoscowDay(h.payments[e.id].at) /\ EventDay(h, e) <= today
    BY <1>6, <2>1 DEF EventDay, Past
  <2>4. PICK V : V = U \cup {e}
    OBVIOUS
  <2>5. StageKept(h, (U \ {x}) \cup {e}, s2, today)
    BY <1>2, <1>3, StageStepKeeps
  <2>6. StageKept(k, U \cup {e}, t2, today)
    BY <1>2, <1>3, StageStepKeeps
  <2>7. V \ {x} = (U \ {x}) \cup {e} /\ V \subseteq Events(k)
    BY <1>1, <1>2, <2>4
  <2>8. Beside(h, k, x, V, s2, t2, today)
    BY <2>4, <2>5, <2>6, <2>7 DEF Beside
  <2>9. PaidUntil(k, V, EventDay(h, e))
    <3>1. EventDay(k, e) = EventDay(h, e)
      BY <1>1
    <3> QED
      BY <2>1, <2>4, <3>1 DEF PaidUntil
  <2>10. PICK p, day : p = e.id /\ day = EventDay(h, e)
    OBVIOUS
  <2>11. /\ p \in Active(h) /\ p \in Active(k) /\ p \notin Done(h, U \ {x}) /\ p \notin Done(k, U)
         /\ day \in Nat /\ day <= today /\ MoscowDay(h.payments[p].at) = day
         /\ s2 = ReplayPayment(s, p, day, today) /\ t2 = ReplayPayment(t, p, day, today)
         /\ PaidUntil(k, V, day)
    BY <2>1, <2>2, <2>3, <2>9, <2>10
  <2> QED
    BY <2>8, <2>11, RicherPayment
<1>7. CASE e.kind = "refund"
  <2>1. e.id \in DOMAIN h.refunds /\ s2 = ReplayRefund(s, e.id) /\ t2 = ReplayRefund(t, e.id)
    BY <1>4, <1>5, <1>7
  <2>2. PICK day : day = EventDay(k, e)
    OBVIOUS
  <2>3. day \in Nat /\ PaidUntil(k, U, day)
    <3>1. day \in Nat
      BY <1>3, <2>2, EventsFacts DEF Blank
    <3> QED
      BY <2>2, <3>1 DEF PaidUntil
  <2> QED
    BY <2>1, <2>3, RicherRefund
<1> QED
  BY <1>4, <1>6, <1>7

\* With one payment more the replay is no poorer, after every set of events.
LEMMA RicherStages ==
  ASSUME NEW h, Blank(h), NEW k, Blank(k), NEW n, MorePaid(h, k, n),
         NEW x, x = [kind |-> "payment", id |-> n], NEW today \in Nat, Past(h, today)
  PROVE  \A T \in SUBSET Events(k) : Richer(Stages(h, today)[T \ {x}], Stages(k, today)[T])
<1> DEFINE f == Stages(h, today)
           g == Stages(k, today)
           P == {T \in SUBSET Events(k) : Richer(f[T \ {x}], g[T])}
<1>0. /\ Active(k) = Active(h) \cup {n} /\ Events(k) = Events(h) \cup {x} /\ x \notin Events(h)
      /\ \A T \in SUBSET Events(k) : T # {} /\ Latest(k, T) # x => Latest(h, T \ {x}) = Latest(k, T)
  BY MorePaidOrder
<1>1. /\ f[{}] = Begun(h)
      /\ \A S \in SUBSET Events(h) : S # {} =>
               f[S] = ReplayEvent(f[S \ {Latest(h, S)}], Latest(h, S), today)
  BY StagesAre
<1>2. /\ IsFiniteSet(Events(k)) /\ g[{}] = Begun(k)
      /\ \A T \in SUBSET Events(k) : T # {} =>
               /\ Latest(k, T) \in T
               /\ \A o \in T : EventDay(k, o) <= EventDay(k, Latest(k, T))
               /\ g[T] = ReplayEvent(g[T \ {Latest(k, T)}], Latest(k, T), today)
  BY StagesAre
<1>3. /\ \A S \in SUBSET Events(h) : StageKept(h, S, f[S], today)
      /\ \A T \in SUBSET Events(k) : StageKept(k, T, g[T], today)
  BY StagesKeep
<1> HIDE DEF f, g
<1>4. ASSUME NEW U \in SUBSET Events(k)
      PROVE  Beside(h, k, x, U, f[U \ {x}], g[U], today)
  <2>1. U \ {x} \in SUBSET Events(h)
    BY <1>0
  <2> QED
    BY <1>3, <2>1 DEF Beside
<1>5. ASSUME NEW T \in SUBSET Events(k), \A y \in T : T \ {y} \in P
      PROVE  T \in P
  <2>1. CASE T = {}
    <3>1. Richer(Begun(h), Begun(k))
      BY RicherBegins DEF MorePaid
    <3>2. T \ {x} = {}
      BY <2>1
    <3> QED
      BY <1>1, <1>2, <2>1, <3>1, <3>2
  <2>2. CASE T # {}
    <3>1. PICK e \in T : /\ e = Latest(k, T) /\ g[T] = ReplayEvent(g[T \ {e}], e, today)
                         /\ \A o \in T : EventDay(k, o) <= EventDay(k, e)
      BY <1>2, <2>2
    <3>2. PICK U, R, s, t : /\ U \in SUBSET Events(k) /\ U = T \ {e} /\ R = U \ {x}
                            /\ s = f[R] /\ t = g[U]
                            /\ Beside(h, k, x, U, s, t, today) /\ Richer(s, t)
      <4>1. T \ {e} \in P /\ T \ {e} \in SUBSET Events(k)
        BY <1>5
      <4>2. Richer(f[(T \ {e}) \ {x}], g[T \ {e}])
        BY <4>1
      <4>3. Beside(h, k, x, T \ {e}, f[(T \ {e}) \ {x}], g[T \ {e}], today)
        BY <1>4, <4>1
      <4> QED
        BY <4>1, <4>2, <4>3
    <3>3. PICK t2 : t2 = g[T] /\ t2 = ReplayEvent(t, e, today)
      BY <3>1, <3>2
    <3> HIDE DEF P
    <3>4. CASE e = x
      <4>1. T \ {x} = R /\ x \notin U
        BY <3>2, <3>4
      <4>2. Underway(k, U, t) /\ Fits(s.c) /\ SameCharges(s.c, t.c)
        BY <3>2, BesideFacts DEF Beside, StageKept
      <4>3. x \in Events(k)
        BY <1>0
      <4>4. /\ n \in Active(k) /\ n \notin Done(k, U) /\ EventDay(k, x) \in Nat
            /\ t2 = ReplayPayment(t, n, EventDay(k, x), today)
        <5>1. x.kind = "payment" /\ x.id = n
          OBVIOUS
        <5>2. t2 = ReplayEvent(t, x, today)
          BY <3>3, <3>4
        <5> QED
          BY <4>1, <4>2, <4>3, <5>1, <5>2, EventStep
      <4>5. Richer(s, t2)
        BY <3>2, <4>2, <4>4, RicherNew
      <4> QED
        BY <3>2, <3>3, <4>1, <4>5 DEF P
    <3>5. CASE e # x
      <4>1. /\ Latest(h, T \ {x}) = e /\ T \ {x} \in SUBSET Events(h) /\ e \in T \ {x}
            /\ (T \ {x}) \ {e} = R /\ e \in Events(h) /\ e \notin U /\ U \subseteq T
        BY <1>0, <2>2, <3>1, <3>2, <3>5
      <4>2. PICK s2 : s2 = f[T \ {x}] /\ s2 = ReplayEvent(s, e, today)
        BY <1>1, <3>2, <4>1
      <4>3. \A o \in U : EventDay(k, o) <= EventDay(k, e)
        BY <3>1, <4>1
      <4>4. Richer(s2, t2)
        BY <3>2, <3>3, <4>1, <4>2, <4>3, RicherStep
      <4> QED
        BY <3>3, <4>2, <4>4 DEF P
    <3> QED
      BY <3>4, <3>5
  <2> QED
    BY <2>1, <2>2
<1> HIDE DEF P
<1>6. \A T \in SUBSET Events(k) : T \in P
  BY <1>2, <1>5, SubsetInduction
<1> QED
  BY <1>6 DEF P, f, g

-----------------------------------------------------------------------------
(* What a refund has paid out stays covered *)

\* After a payment the history has one payment more.
LEMMA PaymentHistory ==
  ASSUME NEW c, Billable(c), NEW d, NEW amount, NEW at, PaymentMade(c, d, amount, at),
         NEW h, h = History(c), NEW k, k = History(d), NEW n, n = Len(c.payments) + 1
  PROVE  Billable(d) /\ Blank(h) /\ Blank(k) /\ MorePaid(h, k, n)
<1>1. PICK day, money, owed : Billable(d) /\ Entered(c, d, n, day, money, owed)
  BY Zenon DEF PaymentMade
<1>2. /\ Untouched(c, d)
      /\ DOMAIN d.payments = DOMAIN c.payments \cup {n} /\ n \notin DOMAIN c.payments
      /\ \A q \in DOMAIN c.payments : d.payments[q] = c.payments[q]
      /\ d.payments[n].reversed = FALSE
  BY <1>1 DEF Entered
<1>3. /\ Blank(h) /\ Blank(k) /\ Reallocates(d, k) /\ Reallocates(c, h)
      /\ DOMAIN h.payments = DOMAIN c.payments /\ DOMAIN k.payments = DOMAIN d.payments
      /\ h.refunds = c.refunds /\ k.refunds = d.refunds
  BY <1>1, HistoryBlank
<1>4. SameCharges(h, k)
  BY <1>2, <1>3 DEF SameCharges, Reallocates, Untouched
<1>5. ContractRow(c) /\ ContractRow(d)
  BY <1>1 DEF Billable, LedgerRows
<1>6. /\ h.payments = [p \in DOMAIN c.payments |-> BlankRow(c.payments[p])]
      /\ k.payments = [p \in DOMAIN d.payments |-> BlankRow(d.payments[p])]
  BY <1>5, HistoryIs
<1>7. \A q \in DOMAIN h.payments : k.payments[q] = h.payments[q]
  BY <1>2, <1>3, <1>6
<1>8. ~k.payments[n].reversed
  BY <1>2, <1>3 DEF Reallocates
<1> QED
  BY <1>1, <1>2, <1>3, <1>4, <1>7, <1>8 DEF MorePaid, Untouched

\* The replay of a contract is the last of its stages.
LEMMA ReplayIs ==
  ASSUME NEW c, Billable(c), NEW today
  PROVE  Replay(c, today) = Stages(History(c), today)[Events(History(c))]
<1>1. Blank(History(c))
  BY HistoryBlank
<1> QED
  BY <1>1, StagesAre DEF Replay

\* A payment entered on any day of the past takes no refund its money.
LEMMA PaymentCovers ==
  ASSUME NEW c, Billable(c), now \in Nat, Dated(c, now),
         NEW d, NEW amount, NEW at, PaymentMade(c, d, amount, at),
         Replay(d, Today).overdrawn
  PROVE  Replay(c, Today).overdrawn
<1>1. PICK today, h, k, n, x : /\ today = Today /\ h = History(c) /\ k = History(d)
                               /\ n = Len(c.payments) + 1 /\ x = [kind |-> "payment", id |-> n]
  OBVIOUS
<1>2. Billable(d) /\ Blank(h) /\ Blank(k) /\ MorePaid(h, k, n) /\ Past(h, today) /\ today \in Nat
  BY <1>1, PaymentHistory, PastOf, TodayNat
<1>3. Events(k) \ {x} = Events(h)
  BY <1>1, <1>2, MorePaidOrder
<1>4. \A T \in SUBSET Events(k) : Richer(Stages(h, today)[T \ {x}], Stages(k, today)[T])
  BY <1>1, <1>2, RicherStages
<1>5. Richer(Stages(h, today)[Events(k) \ {x}], Stages(k, today)[Events(k)])
  BY <1>4
<1>6. Richer(Stages(h, today)[Events(h)], Stages(k, today)[Events(k)])
  BY <1>3, <1>5
<1>7. /\ Replay(c, Today) = Stages(h, today)[Events(h)]
      /\ Replay(d, Today) = Stages(k, today)[Events(k)]
  BY <1>1, <1>2, ReplayIs
<1>8. PICK s, t : s = Replay(c, Today) /\ t = Replay(d, Today) /\ Richer(s, t) /\ t.overdrawn
  BY <1>6, <1>7
<1>9. s.overdrawn
  BY <1>8 DEF Richer
<1> QED
  BY <1>8, <1>9

\* A reallocation leaves the replay of a contract as it is.
LEMMA ReplaySame ==
  ASSUME NEW c, Billable(c), NEW d, Billable(d), Untouched(c, d), Reallocates(c, d), NEW today
  PROVE  Replay(d, today) = Replay(c, today)
BY SameHistory DEF Replay

\* A reconciliation writes a history that its credit covers.
LEMMA ReconciledCovers ==
  ASSUME NEW c, Billable(c), now \in Nat, NEW d, AfterReplay(c, d), ~ReplayRefused(c, Today)
  PROVE  ~Replay(d, Today).overdrawn
<1>1. Replay(d, Today) = Replay(c, Today)
  BY ReplaySame DEF AfterReplay
<1>2. ~Replay(c, Today).overdrawn
  BY DEF ReplayRefused, Refuses
<1> QED
  BY <1>1, <1>2

\* Time alone takes no refund its money.
LEMMA ReplayLater ==
  ASSUME NEW c, Billable(c), now \in Nat, Dated(c, now), NEW later \in Nat, Today <= later
  PROVE  Replay(c, later).overdrawn = Replay(c, Today).overdrawn
<1>1. PICK today, h : today = Today /\ h = History(c)
  OBVIOUS
<1>2. Blank(h) /\ Past(h, today) /\ today \in Nat /\ today <= later
  BY <1>1, HistoryBlank, PastOf, TodayNat
<1>3. Follows(h, h)
  BY DEF Follows
<1>4. \A S \in SUBSET Events(h) : Alike(Stages(h, today)[S], Stages(h, later)[S])
  BY <1>2, <1>3, AlikeStages
<1>5. Alike(Stages(h, today)[Events(h)], Stages(h, later)[Events(h)])
  BY <1>4
<1>6. /\ Replay(c, Today) = Stages(h, today)[Events(h)]
      /\ Replay(c, later) = Stages(h, later)[Events(h)]
  BY <1>1, ReplayIs
<1> QED
  BY <1>5, <1>6 DEF Alike

\* A contract out of credit after a step: it was so before, or a reversal or a refund
\* explains it.
LEMMA CoveredKept ==
  ASSUME ~AllowFuture, ReplayInv, [Next]_vars, Replay(contract', Today').overdrawn
  PROVE  \/ Active(contract) \ Active(contract') # {}
         \/ /\ Len(contract'.refunds) > Len(contract.refunds)
            /\ contract.pending \/ ~RefundsInOrder'
         \/ Replay(contract, Today).overdrawn
<1>1. /\ LedgerInv /\ Dated(contract, now) /\ Billable(contract) /\ now \in Nat /\ Today \in Nat
  BY TodayNat DEF ReplayInv, LedgerInv
<1>2. CASE \E amount, at, website : PaidIn(amount, at, website)
  <2>1. PICK amount, at, website : PaidIn(amount, at, website)
    BY <1>2
  <2>2. PaymentMade(contract, contract', amount, at)
    BY <1>1, <2>1, PaidInFacts
  <2>3. Today' = Today
    BY <2>1 DEF PaidIn, Today
  <2>4. Replay(contract', Today).overdrawn
    BY <2>3
  <2>5. Replay(contract, Today).overdrawn
    BY <1>1, <2>2, <2>4, PaymentCovers
  <2> QED
    BY <2>5
<1>3. CASE \E p : TakenBack(p)
  <2>1. PICK p : TakenBack(p)
    BY <1>3
  <2>2. p \in Active(contract) /\ p \in DOMAIN contract.payments /\ contract' = Reversal(contract, p)
    BY <2>1 DEF TakenBack, Active
  <2>3. contract'.payments[p] = ReversedRow(contract.payments[p])
    BY <1>1, <2>2, ReversalIs DEF OtherRow
  <2>4. contract.payments[p] \in PaymentType
    BY <1>1, <2>2, BillableFacts
  <2>5. contract'.payments[p].reversed
    BY <2>3, <2>4, ChangedRows
  <2>6. p \notin Active(contract')
    BY <2>5 DEF Active
  <2> QED
    BY <2>2, <2>6
<1>4. CASE \E p : Pushed(p)
  <2>1. PICK q : Pushed(q)
    BY <1>4
  <2>2. /\ q \in Active(contract) /\ contract.payments[q].website /\ now' = now
        /\ contract' = [contract EXCEPT !.payments[q].synced = TRUE]
    BY <2>1 DEF Pushed
  <2>3. PushedRows(contract, contract')
    BY <1>1, <2>2, PushKeeps
  <2>4. Replay(contract', Today) = Replay(contract, Today)
    BY <1>1, <2>3, ReplaySame DEF PushedRows, SameMoney
  <2>5. Today' = Today
    BY <2>2 DEF Today
  <2>6. Replay(contract, Today).overdrawn
    BY <2>4, <2>5
  <2> QED
    BY <2>6
<1>5. CASE \E amount, day : PaidOut(amount, day)
  <2>1. PICK amount, day : PaidOut(amount, day)
    BY <1>5
  <2>2. RefundPaid(contract, contract', amount) /\ Billable(contract')
    BY <1>1, <2>1, PaidOutFacts
  <2>3. /\ DOMAIN contract'.refunds = DOMAIN contract.refunds \cup {Len(contract.refunds) + 1}
        /\ contract'.pending = contract.pending
    BY <2>2 DEF RefundPaid
  <2>4. Len(contract'.refunds) > Len(contract.refunds)
    <3>1. /\ Len(contract.refunds) \in Nat /\ Len(contract'.refunds) \in Nat
          /\ DOMAIN contract'.refunds = 1..Len(contract'.refunds)
      BY <1>1, <2>2, BillableFacts
    <3>2. Len(contract.refunds) + 1 \in 1..Len(contract'.refunds)
      BY <2>3, <3>1
    <3> QED
      BY <3>1, <3>2
  <2>5. ASSUME ~contract.pending, RefundsInOrder' PROVE FALSE
    <3>1. ReplayKept(contract', Today')
      BY ReplayKeptKept
    <3>2. OrderedRefunds(contract')
      BY <2>5 DEF OrderedRefunds, RefundsInOrder
    <3>3. PICK d, today : d = contract' /\ today = Today'
      OBVIOUS
    <3>4. ~Stages(History(d), today)[Events(History(d))].overdrawn
      BY <2>3, <2>5, <3>1, <3>2, <3>3 DEF ReplayKept
    <3>5. Replay(d, today) = Stages(History(d), today)[Events(History(d))]
      BY <2>2, <3>3, ReplayIs
    <3> QED
      BY <3>3, <3>4, <3>5
  <2> QED
    BY <2>4, <2>5
<1>6. CASE Reconciling
  <2>1. AfterReplay(contract, contract') /\ now' = now /\ ~ReplayRefused(contract, Today)
    BY <1>1, <1>6, ReconcilingFacts DEF Reconciling
  <2>2. ~Replay(contract', Today).overdrawn
    BY <1>1, <2>1, ReconciledCovers
  <2>3. Today' = Today
    BY <2>1 DEF Today
  <2> QED
    BY <2>2, <2>3
<1>7. CASE \E day : Terminating(day)
  <2>1. PICK day : Terminating(day)
    BY <1>7
  <2>2. PICK c : c = Shortened(contract, day)
    OBVIOUS
  <2>3. ~ReplayRefused(c, Today) /\ contract' = Reconciled(c) /\ day \in LeaveDays /\ now' = now
    BY <2>1, <2>2 DEF Terminating
  <2>4. Billable(c)
    BY <1>1, <2>2, <2>3, ShortenedKeeps
  <2>5. AfterReplay(c, contract')
    BY <1>1, <2>3, <2>4, ReconcilingFacts
  <2>6. ~Replay(contract', Today).overdrawn
    BY <1>1, <2>3, <2>4, <2>5, ReconciledCovers
  <2>7. Today' = Today
    BY <2>3 DEF Today
  <2> QED
    BY <2>6, <2>7
<1>8. CASE NightCommit
  <2>1. /\ SameMoney(contract, contract') /\ Untouched(contract, contract')
        /\ Billable(contract') /\ now' = now
    BY <1>1, <1>8, NightCommitFacts
  <2>2. Replay(contract', Today) = Replay(contract, Today)
    BY <1>1, <2>1, ReplaySame DEF SameMoney
  <2>3. Today' = Today
    BY <2>1 DEF Today
  <2>4. Replay(contract, Today).overdrawn
    BY <2>2, <2>3
  <2> QED
    BY <2>4
<1>9. CASE NightRead
  <2>1. contract' = contract /\ now' = now
    BY <1>1, <1>9, NightReadFacts
  <2>2. Today' = Today
    BY <2>1 DEF Today
  <2>3. Replay(contract, Today).overdrawn
    BY <2>1, <2>2
  <2> QED
    BY <2>3
<1>10. CASE Resting
  <2>1. contract' = contract /\ now' \in Nat /\ now <= now'
    BY <1>1, <1>10 DEF Resting
  <2>2. PICK later \in Nat : later = MoscowDay(now') /\ Today <= later
    BY <1>1, <2>1, TimeFacts DEF Today
  <2>3. Today' = later
    BY <2>2 DEF Today
  <2>4. Replay(contract, later).overdrawn = Replay(contract, Today).overdrawn
    BY <1>1, <2>2, ReplayLater
  <2>5. Replay(contract, later).overdrawn
    BY <2>1, <2>3
  <2>6. Replay(contract, Today).overdrawn
    BY <2>4, <2>5
  <2> QED
    BY <2>6
<1> QED
  BY <1>1, <1>2, <1>3, <1>4, <1>5, <1>6, <1>7, <1>8, <1>9, <1>10, Steps

\* A refund is paid out of the credit balance, never out of an accrual.
RefundsFromCredit ==
    \A r \in DOMAIN contract.refunds : contract.refunds[r].credit = contract.refunds[r].amount

\* createRefund could take money back from an accrual that is paid beyond its charge; it
\* never finds one, because a termination reallocates what it frees.
THEOREM RefundsFromCreditAlways == Spec => []RefundsFromCredit
<1>1. LedgerInv => RefundsFromCredit
  BY DEF LedgerInv, Billable, RefundsFromCredit
<1> QED
  BY <1>1, LedgerInvAlways, PTL

\* The money of a refund stays covered: a replay that does not run out of credit never
\* comes to, except by a reversal, a refund given while a reconciliation is pending, or
\* one dated before a refund entered earlier.
THEOREM CoveredStaysCoveredAlways ==
  ASSUME ~AllowFuture
  PROVE  Spec => CoveredStaysCovered
<1> DEFINE StaysSo ==
      \/ ~Replay(contract', Today').overdrawn
      \/ Active(contract) \ Active(contract') # {}
      \/ /\ Len(contract'.refunds) > Len(contract.refunds)
         /\ contract.pending \/ ~RefundsInOrder'
      \/ Replay(contract, Today).overdrawn
<1>1. Init => ReplayInv
  BY ReplayInvInit
<1>2. ReplayInv /\ [Next]_vars => ReplayInv'
  BY ReplayInvKept
<1>3. ReplayInv /\ [Next]_vars => [StaysSo]_vars
  BY CoveredKept
<1> QED
  BY <1>1, <1>2, <1>3, PTL DEF Spec, CoveredStaysCovered

=============================================================================
