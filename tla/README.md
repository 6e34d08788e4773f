# Verification of dormproj

TLA+ models of the dormitory management backend (NestJS, Prisma, PostgreSQL) and
its web client: TLC model-checks them on small instances, TLAPS proves the
central invariants for every instance. Paths below are relative to the
repository; `backend/` stands for `src/backend/src/`.

## 1. The system

The application keeps residents, rooms and rental contracts of a dormitory,
charges the contracts, takes payments (by staff, from bank statements, online),
computes penalties, and exchanges all this with a bank, a cash register, an
accounting system (1C), student registries and messengers. One server process
serves requests and runs cron jobs; all shared state is in PostgreSQL, so two
actors interact through rows: a request, a job, another tab. Most handlers do one
transaction at READ COMMITTED; the reconciliation and the refund use
SERIALIZABLE. Calls to other systems are made between transactions.

### Components

| Component | State | Operations | Hard behaviour | What makes it correct |
|---|---|---|---|---|
| Billing rules (`billing/accrual-generation`, `payment-allocation`, `penalty-*`, `period-utils`) | none, functions of one contract's rows | accruals of a contract, FIFO allocation, penalty of a day, penalty balance | Moscow and UTC days, partial months, rounding at the border of an accrual | money is neither lost nor doubled, the oldest accrual is paid first |
| Reconciliation (`payment-history-reconciliation`, `penalty-recalculate.service`, `penalty-recalc-flag`, `penalty-reconciliation.scheduler`) | `penalty_recalc_pending`, journal, allocations, credit balance | replay of the whole history by date, rebuilding of the journal, flag, nightly and manual entry | events entered out of date order; commits between its read and its write | a settled contract is what a replay gives; a pending one is settled one day |
| Billing endpoints (`billing.controller`, `refund-balance`) | payments, allocations, refunds | createPayment, reversePayment, createRefund, recalculatePenalty | isolation levels differ; locks taken in different orders | no event is lost; a refund is covered |
| Nightly accrual (`penalty.scheduler`) | `penalty_accrual_logs`, accrued-through date | reads all contracts, writes each in its own transaction | missed nights, stale reads | no penalty after leaving, journal not behind its allocations |
| Early termination (`billing/termination`, `contracts.controller` terminate) | accruals, status, actual end | shortens accruals, replays, ends assignment and role | deadlocks with reversals and reconciliations | freed money is reallocated before a refund |
| Contract lifecycle (`contracts.controller`, `contract-approval.service`, `contract-status.scheduler`, `room-capacity`, `room-conflict`) | contracts, terms, room assignments, the identifiers accounting knows them by | create, approve (two calls to 1C), terminate, remove, daily status job | two creations for one bed, an approval that outlives its lock row, a crash between the calls, UTC day at 01:30 Moscow | capacity, no overlapping stay, one counterparty and one contract in accounting |
| Rooms (`rooms/`) | rooms, characteristics by date (number of places) | create, change, remove | a change under a running contract | no more people than beds |
| Individuals (`individuals/`) | persons, `merged_into_uid`, merge snapshots | merge a person entered by hand into a registry's, unmerge | a contract created beside a merge, an unmerge repeated | a merged person holds no contract |
| Documents (`contracts/office-listener`, `docx-to-pdf`, `pdf-conversion-cache`) | converter process, cache files | convert, restart, evict | process dies during a conversion | one converter, no half-written file served |
| Online payments (`my-payments.controller`, `acquiring`, `fiscal`) | payment intents, receipts | createIntent, getIntent | the bank is asked only when a page asks; tabs race; calls get lost | credited once, only with money the bank took |
| Accounting push (`accounting-1c-push.*`) | `accounting1c_sync_status` of payments | nightly and manual push | read, call and mark are not one transaction; lost answers | marked means booked; a booked allocation stays |
| Statement imports (`payment-imports/`) | import records | ingest at night, approve | the push's own documents come back in accounting's list; a record approved twice | one payment per document, none for our own |
| Service provision documents (`service-provision-doc.*`) | one document by month and type | recalculate every night, send on the last evening, retry, recover at startup, send by hand | saved while it is being sent; answers lost; a month that ends | marked means accounting has this payload; the previous month is sent |
| Sync jobs (`sync/`, `individuals-sync/`) | `sync_locks`, logs, copies of registries | acquire, take over a stale lock, run, release | take-over races, a run that outlives the limit, crashes | one run of a type at a time, none blocked for ever |
| Resident roles (`users/resident-role-sync`) | roles | grant, revoke | runs beside terminations | the role follows the contract |
| Notifications (`notifications/`) | links, delivery queue | link, enqueue, group into a digest, deliver, retry, give up | crash after sending, a row in a batch and in a group, a digest put off | sent means announced; a copy only of a digest that was not marked; every row ends |
| Chats (`chats/`) | conversations, messages, broadcasts, files | send, read, broadcast, retry | a request repeated, an answer lost after the commit, a crash between recipients | one message per recipient, no file of a stored broadcast removed |
| Sessions and access (`auth/`, `users/`) | sessions, roles | sign in, verify, revoke | revocation beside requests | a revoked session is refused |
| Reports, audit, announcements | views, one row per request | - | - | - |

`PROJECT.json` lists the same components with their status, and under `hazards`
what can go wrong at which line, with the property that would notice.

## 2. Modules

    BillingRules        pure functions of one contract's rows (no state)
      RefundRules       what may be refunded (extends BillingRules)
        ContractLedger  one contract: every operation that changes its money
          MCContractLedger, ContractLedgerProofs, ContractReplayProofs
    LedgerTransactions  the same operations, statement by statement
      MCLedgerTransactions, LedgerTransactionsProofs
    CreditOnce          abstract: the phases of an online payment
      OnlinePayments    intents, tabs, bank, register; implements CreditOnce
        MCOnlinePayments, OnlinePaymentsProofs
    AccountingPush      the push of credited payments to accounting
      MCAccountingPush
      PaymentImports    the payments accounting sends, beside the push
        MCPaymentImports
    ServiceProvision    the document of a month: recalculated, sent, retried
      MCServiceProvision, AccountingProofs (of these three)
    ContractApproval    counterparty and contract in accounting, the lock row
      MCContractApproval, ContractApprovalProofs
    RoomBooking         beds: creations, merges, terminations, capacities
      MCRoomBooking, RoomBookingProofs
    NotificationQueue   chat messages to the messenger of one resident
      MCNotificationQueue
    ChatBroadcast       one message to many residents
      MCChatBroadcast, MessagingProofs (of both)

How they meet: OnlinePayments' credit is ContractLedger's
`ReceiveOnlinePayment` and AccountingPush's `CreditPayment`; the mark of
AccountingPush is what ContractLedger's replay refuses to disturb; an approved
record of PaymentImports enters the ledger as `CreatePayment`; the push stores
the identifiers ContractApproval creates, and ServiceProvision's documents wait
for them (`Identify`); a delivery of ChatBroadcast enqueues what
NotificationQueue sends.

**BillingRules** has one operator per function of the code. Time is counted in
slots of a day; `UtcDay` and `MoscowDay` disagree in the last slots of a UTC day
as the zones do in the code. `FifoPlan` is `allocatePaymentFifo`; `Replay` is the
loop of `reconcilePaymentHistoryInTransaction` and `ReplayChanges`,
`ReplayRefused`, `ApplyReplay` its end. Amounts are integers, a month has
`MonthLen` days. Recursion over days and events is written with folds and
recursive functions.

**ContractLedger** has the rows of one contract in `contract`, the clock in `now`
and what the nightly accrual has read in `night`. An action is a transaction:
`CreatePayment`, `ReceiveOnlinePayment`, `ReversePayment`, `PushPayment`,
`CreateRefund`, `ReconcilePending`, `RecalculatePenalty`, `Terminate`,
`NightRead`, `NightCommit`, `Tick`. The nightly accrual has two because the code
reads outside the transaction it writes in.

**LedgerTransactions** takes the transactions apart. What a replay computes is
abstracted to the set of events it has seen (`accounted`); the isolation levels
are in the guards: a SERIALIZABLE transaction fails when the contract row has a
newer version than its snapshot, a READ COMMITTED one waits for the row and sees
what is committed then. That `accounted = ActiveEvents` is the right reading of
"settled" is what `SettledIsReplayed` says of ContractLedger. `refused` says that a
replay of the committed history throws (refunds overdraw the credit, or the
allocation of a payment accounting has would change); every change of the history,
and a push that marks a payment while the flag is set (`PaymentSent`), leaves open
whether it does. A reconciliation of such a contract ends without effect
(`RecalcRefused`), a termination rolls back.

**OnlinePayments** has a step for every call and every transaction of
`createIntent` and `getIntent`; a tab is a sequential process that may be lost at
any step.

**AccountingPush** has the read, the call and each mark of `pushPayments` as
steps, for the cron job and the endpoint. An allocation is a version;
`crossed` remembers the payments a reconciliation reallocated between the read
and the mark, which nothing in the code prevents. An accepting answer need not
name the document (`Unnamed` bounds the payments it may leave out); what is stored
then is the number read with the payment, or null. So a payment may be SYNCED
without a number, and a push that has read none removes one another push has
stored since, which `cleared` remembers. **PaymentImports** extends it:
accounting's list (`Listed`) names the documents of pushed payments and of bank
statements; `Fetch`, `Compare` and one `Ingest` for each document are the
ingest's call, its one look at what is known, and its loop. A clerk has read a
record (`Open`) before the transaction that claims it (`Approve`).

**ContractApproval** is `approve` for the contracts of one resident, step by
step, with the row of `sync_locks` as `free`, `held` or `stale` (older than ten
minutes). A counterparty is a number; of a contract's identifier the model keeps
the counterparty it belongs to. `PushRead`, `PushCall`, `PushStore` are the part
of the payments' push that stores identifiers without that lock. `slips` counts
what may cost a duplicate: an answer lost, a store failed, a crash, an approval
that outlives its lock, a payment pushed for a contract not approved yet.

**ServiceProvision** is one document (a month and a type) and three jobs: the
scheduler's, the recovery at startup, the endpoints. `Compute` reads the charges
(a version), `FindNone` finds that there is no document yet, `Save` upserts,
`ReadForSending` builds the item, `Call` and `Mark`
follow. A document is `Complete` when accounting can place every line.
`payloadChanged` compares the JSON text of the stored value with that of the new
one; PostgreSQL's `jsonb` returns the keys in an order of its own (shorter keys
first: `Date`, `Comment`, `DocumentSumm`, ...), which is not the order they are
written in, so the texts differ even when nothing has changed. `Save` therefore
always sets NOT_SYNCED: a nightly recalculation or a restart un-marks a document
that was sent, and it is sent once more. To a job that has found no document nothing
has changed: of one created and sent since it replaces the payload and leaves the
mark.

**RoomBooking** has the contracts with their room assignments in `contract`, the
number of places in `capacity` (and its maximum so far in the history variable
`highest`), `merged_into_uid` in `merged`, the contracts of the merge snapshot in
`moved`, and for each request under way its step in `clerk`. A creation waits for
the row of the resident (`LockResident`) and of the room (`LockRoom`); a merge for
the rows of both persons in the order of their uids (`LockFirst`, `LockSecond`).
What a request holds follows from its step (`HeldResidents`, `HeldRooms`). `Fails`
is every error, lost connection or crash: the transaction rolls back. Terminations,
removals and changes of capacity write without these locks and are one step.
`Conflicts` and `Fetched` are `hasConflictingStay` and the query it is applied to,
`HasBed` is `roomAvailability` over `peakOccupancy`.

**NotificationQueue** is one resident and one messenger: the link, the chat as a
number of messages and a read mark, one delivery row per message, and the worker
that `runQueue` is (`running` keeps a second one out of the process). `Claim`,
`Gather`, `Prepare`, `Send` and `MarkSent` or `Fail` are `process`; the call may
be taken, refused, or taken and not heard. A digest announces every unread message
of its group but has the texts of the last three only, cut to the messenger's limit
(`Texts`, with `Shown` and the messages that are `Long`). All queries behind the
claim are inside one `try`, the mark SENT among them: `QueryFails` takes their
failure to the same catch as a refusal. A time is the number of ticks left.
`Crash` leaves rows PROCESSING, which `RunQueue` brings back two minutes later.

**ChatBroadcast** is one request id: requests that carry it with files of their
own, the broadcast that is stored, a row per recipient, and the sender that
`runPending` is. `Create` and `Deliver` are transactions that commit, roll back,
or commit and look failed; `Catch` and `MarkFailed` are what the code does then;
`Restart` is a crash of the server in the middle of anything.

## 3. Runs

| Run | Question | Distinct states |
|---|---|---|
| `ledger` | Do back-dated payments, a refund, a reversal, terminations, recalculations and a nightly accrual that may be missed or overlap a recalculation keep the money consistent, and that of a refund covered? | 114 thousand |
| `ledger_refunds` | Is the journal the one the allocations give, does a payment accounting knows keep its allocation, beside back- and future-dated payments and refunds? | 107 thousand |
| `transactions` | Do the interleavings at the code's isolation levels lose an event? Is a pending flag cleared unless the replay is refused, is every request answered? | 135 thousand |
| `online_payments` | Is the money the bank took, and no other, credited once? | 3 thousand |
| `accounting_push` | Is what is marked as sent booked, with its present allocation, and is everything marked one day? | 46 thousand |
| `payment_imports` | Is a document credited once? Is our own payment offered as another's only when its number was not stored, or cleared? Is every statement offered? | 277 thousand |
| `contract_approval` | Does the lock row keep accounting from a second counterparty, and nobody out for ever? | 15 thousand |
| `service_provision` | Does accounting have the document that is marked as sent, and is the previous month sent? | 227 thousand |
| `room_booking` | Do creations, merges, unmerges, terminations, removals and changes of capacity side by side overfill a room, book a night twice or leave a contract with a merged person? | 481 thousand |
| `notification_queue` | Is what is marked as sent announced, announced again only after a digest that was not marked, in time, and does every notification end? | 344 thousand |
| `chat_broadcast` | Does everybody get a broadcast once, with its files, however often it is sent? | 46 thousand |
| `orphan_rows` | Does a reversed payment keep allocation rows? | violated, see section 4 |

Bounds. The ledger runs have a contract of two months of three days, two
payments, and a horizon of five days: enough for a second accrual to be reached
by a leftover, for an event to be dated before, on and after the day it is
entered, for a night to be missed and made up, and for a penalty to be paid,
released by a later back-dated payment, and accrued again. Amounts are chosen
below, at and above one month's charge. Two refunds are the least of which one can
be dated before the other. A third payment adds only states. The
transactions run has two payments and one request of every other kind, the least
with which a reconciliation, a termination and a reversal can wait for each other
in a circle. Three tabs let a late answer meet two racing requests; intents share
nothing, so one is enough. Two payments let a batch be answered for in part;
`MaxReallocations` bounds the versions of an allocation. The imports have one
payment of ours, whose answer may be stored before, during or after the ingest, with
or without the number of its document (`Unnamed`),
one statement, and two clerks who meet at a record; allocations play no part in
them. Two contracts of one resident, two requests and one slip are the least with
which a lock is taken over while its first holder goes on. A month's charges have
two versions: the one that is being sent or saved and the one that has replaced
it; three jobs overlap as the code lets them. Every property of
RoomBooking is about two contracts and at most two requests in each other's way:
two rooms, two contracts, two clerks, and one person of each kind, so that two
creations meet for a bed or for a resident and a creation meets a merge; the
person entered by hand has the greater uid, so a merge locks the target first.
The periods overlap, touch and last one day; capacities are 0 (none configured), 1
and 2. `Spare` bounds the contracts: identifiers are not used again. Rooms,
contracts and clerks are symmetric, no property distinguishes them. Two messages
let a second one join or delay the digest of the first; a digest has the text of one
(`Shown` = 1), so that the other is announced without its text as the fourth is in
the code, and none is too long (`Long`, which the theorem leaves free); the digest
delay is
shorter than its cap (one tick and two), two attempts stand for the code's
eight, one restart leaves a row behind. Three requests with one id: two race, the
third comes when their answers are lost; a batch of one with two recipients
leaves a row for the next call. All these bounds are constants; the theorems of
section 5 hold for any values of them.

Deadlock is not checked where the system really may stop: when the horizon is
reached, when every request has been answered, when every payment is reversed,
when everything is delivered, imported or sent.

Fairness. The transactions run assumes that a request in progress goes on, that
the database breaks deadlocks and grants the row lock to a waiter, and that the
nightly job comes every night, as its cron expression says; a refused replay is its
answer for that night. Nobody has to send a
request. `CronSucceeds` assumes the nightly push is made again and again and that
some night accounting books the payment, answers, and the server stays up;
`EveningsPass` says the same of the documents of the previous month, and
`NightlyIngest` of the ingest. `StaffRetry` assumes that somebody asks again for
a contract that is not approved, and that accounting does not refuse every time;
nothing in the code retries an approval by itself. The fairness of
NotificationQueue and of ChatBroadcast needs less: that the intervals of ten
seconds and of one second come, a call ends (its timeout is fifteen seconds) and
time passes (`FairSpec`, `FairBroadcastSpec`). The messenger may refuse for ever: a delivery is then given up.
`ResidentReturns` is an assumption about the resident, not about the code: no job
looks at pending intents, and the page stops polling at the first failed request
(`src/frontend/src/pages/MyPayment.vue:57`). `PaidIsCredited` says that this is
the only way to wait for ever: nothing that happened before keeps a later request
from crediting the payment.

Conditions that are part of a property. `JournalFresh` holds when no
recalculation overlaps the nightly accrual (`NightOverlap = FALSE`). With an
overlap it fails: `createMany` skips the days that exist, and rows computed from
the old allocations fill in the others until the next reconciliation; the run
`ledger` has the overlap, for the properties that survive it. `CoveredStaysCovered`
names what may leave a refund without its money: a reversal, a refund given while
a reconciliation is pending, and one dated before a refund entered earlier
(`RefundsInOrder`, section 4). It also needs that no payment is dated in the
future (`AllowFuture = FALSE`): such a payment sets no flag, so that the contract
counts as settled on its day with rows that are not those of a replay. The run
`ledger` has one refund; two of them, in any order, are a matter of the theorem.
`PendingIsReconciled` ends in a cleared flag or in a history whose replay is refused:
such a contract stays pending night after night (section 4, items 6 and 7, and a
change of the allocation of a payment accounting has). `SyncedMatchesBooks` leaves
out payments that were crossed, `SyncedMatchesUnlessOverlap` documents that were
saved while a send had read them or by a job that had found none,
`OwnIsNotOffered` payments whose number was not stored when the ingest began or was
cleared since (item 8), `UidsBelongTogether` a resident with a slip: in each case
the code has no protection, and the property says that this is the only way.
`SentWasAnnounced` asks for the text of a message only as far as a digest has room
for it, and for a message behind the read mark not even that (item 9);
`RepeatedOnlyUnmarked` names the three ways to a second announcement: a lost answer,
a crash before the mark, a mark that failed (item 10).

## 4. Where the code departs from its texts

`orphan_rows` is the counterexample of a run; its quotes are in `PROJECT.json`. A
reversal that waits for a reconciliation deletes no rows, and the reversed
payment keeps its allocations, which every sum over an accrual counts.

The models have these too, and no run is kept for them:

1. The penalty of a full month that is partly paid is computed from the whole
   charge (`billing/penalty-calc.ts:80`, `OverdueOf`); the texts for staff and
   residents say from the unpaid balance.
2. Reversing a payment dated after today leaves the credit it brought, because no
   flag is set (`billing/penalty-recalc-flag.ts:9`, `Flagged`). The run `ledger`
   has reversals and no future dates, `ledger_refunds` future dates and no
   reversals; with both, `MoneyConserved` fails.
3. A reconciliation between the read of a push and its mark changes the
   allocation accounting is about to have
   (`billing/accounting-1c-push.service.ts:61`, `crossed`), although
   `payment-history-reconciliation.ts:133` refuses to change one that was sent.
4. The query for conflicting stays leaves out a stay that starts on the day a
   one-day contract is asked for (`contracts/room-conflict.ts:29`, `Fetched`),
   which `room-conflict.spec.ts:13` expects to be a conflict. `BookedNightsAreFree`
   counts nights, and a contract of one day has none.
5. A document that has not changed is marked NOT_SYNCED by every recalculation
   (`billing/service-provision-doc.service.ts:241`, see ServiceProvision above).
6. A refund may spend money that another refund has spent. `createRefund`
   (`billing/billing.controller.ts:104`) asks what was available on the refund's
   day and what is available now, not on the days in between. Dated before a
   refund that was entered earlier, after a later payment has brought new credit,
   it passes both; a replay by date then finds no credit left for the other refund
   and throws (`billing/payment-history-reconciliation.ts:83`), so the contract can
   be neither reconciled nor terminated while its history is as it is.
   `CoveredStaysCovered` excludes this order; with two refunds and without
   `RefundsInOrder` TLC refutes it, and `SettledIsReplayed` allows for the replay that is then refused.
7. A refund may be given while a reconciliation is pending. `createRefund`
   (`billing/billing.controller.ts:94`) reads the allocations and the journal as they
   are and does not ask for the flag. When the reconciliation is refused for
   several nights, because it would change a payment accounting has, or does not
   run, the nightly accrual goes on with the old allocations; the credit that is
   left then may be less, or more, than a replay will find. A refund of the
   difference leaves the replay without credit, as in 6. `CoveredStaysCovered`
   excludes a refund while the flag is set. The nightly job meets such a contract, as
   that of 6, every night and leaves it pending (`refused` of LedgerTransactions).
8. An accepted answer without `DocumentUID` leaves a payment SYNCED without a
   number, and a push that has read the payment before another one stored the number
   writes null over it (`billing/accounting-1c-push.service.ts:65`, `MarkSynced`).
   The next ingest does not recognise the document and offers it as a payment of
   its own; `OwnIsNotOffered` fails without its condition `cleared`.
9. A digest has the texts of its last three messages, cut to the limit; the others are
   counted, and a text that a long one before it pushes out is neither shown nor
   counted (`notifications/notification-text.ts:53-61`, `Texts`). All of them are
   marked SENT.
10. The mark SENT is inside the `try` (`notifications/notifications.service.ts:222`,
   `QueryFails`): if it fails, the catch queues a message the messenger has answered
   for, and it is sent again. `MESSENGER-NOTIFICATIONS.md:11` speaks of a duplicate
   only when the answer is lost.

## 5. Proofs

`tlapm` checks every proof from nothing. Except for the assumptions named here
the theorems hold for all values of the constants.

* `LedgerTransactionsProofs`: `TypeCorrect` and `SettledCorrect`
  (`Spec => []SettledUnlessPending`) for any number of payments, refunds,
  reversals, recalculations and terminations. The invariant alone is not
  inductive: clearing the flag is right only because the transaction that clears
  it has seen the present history. `IInv` adds why: a snapshot whose version is
  the row's version shows the present events (`SnapshotCurrent`), a termination
  holds the row from its first update and so replays the present events
  (`RowLocked`), a reversal past its check knows its payment (`TargetKnown`).
  Assumption: the kinds of requests are disjoint (`ProcessAssumption`).
* `OnlinePaymentsProofs`: `CreditedAtMostOnce`, `SucceededMeansCredited` and
  `ImplementsCreditOnce` (`Spec => Promise!Spec`) for any number of intents and
  tabs. The strengthening is `AnswerStands`: a request that is about to credit or
  to decline acts on an answer the bank still gives. It holds because the bank
  does not change its mind, the one assumption on the bank. `StepKeepsPromise`
  maps each action to a step of CreditOnce or to a stutter.
* `AccountingProofs`: `SyncedMeansBooked` and `SyncedMeansMatching` for any
  number of payments. `AcceptedIsBooked` says that what a push remembers as
  accepted is booked, whatever the other push does meanwhile; for the second
  theorem what is read or accepted has the payment's present version unless it is
  crossed. Assumption: accounting does not say "booked" of a payment it has not
  booked. `ImportedAtMostOnce` and `OwnNeverOffered` are about PaymentImports:
  matched records and imported payments go together because the claim and the
  payment are one transaction; a document whose number is stored when no ingest is
  under way is known to every later one until a push clears the number, which is an
  invariant from that state on, for any answers that leave documents out.
  `MarkTellsTheTruth` is about ServiceProvision, for any number of changes: what a
  job holds of the document is the document, unless it was saved since, or saved with
  the mark it had by a job that knew of none (`overlap`), and what accounting has accepted is what it holds.
* `ContractLedgerProofs`, for every calendar, every charge, every set of amounts
  and dates. The invariant of `TypeCorrect` is `LedgerInv`: the type cannot be kept
  by itself, because a credit is a natural number only if a refund takes no more
  than is there, which depends on what the accruals have left, and that on no
  accrual being overpaid (`Billable`, `Within`), of a termination as well. The same
  invariant ends penalties at the resident's departure
  (`NoPenaltyAfterLeavingAlways`: a termination rebuilds the journal, and a night
  that was read before it writes nothing) and fixes what accounting has seen
  (`SyncedAllocationFixedAlways`: a refused replay changes no row, and one that is
  not refused reallocates no synced payment; the release of penalties afterwards
  finds nothing to release, because a replayed payment takes no more penalty than
  has accrued).

  The centre is the replay. It is a recursive function of a set of events; what
  it does is proved by an induction over the subsets of the history
  (`SubsetInduction`, from the library's well-founded minimum: the library's
  induction theorems take an operator). Three relations hold after each event:
  the events so far are those with a plan and the accruals are within their charge
  (`Underway`), what came in is allocated, taken as penalty, credit or refund
  (`Balanced`), and the penalty taken has accrued (`Covered`). From `FifoPlan`
  come the lemmas that a plan hands out the whole amount, leaves no room in an
  accrual before a later one or before the credit gets money, and never more than
  there is.

  `MoneyConservedAlways` and `OldestFirstAlways` assume that no payment is dated in
  the future or that none is reversed, `NothingOverpaidAlways` the former: the
  reversal of a future payment sets no flag (section 4), and with both constants
  free TLC refutes all three. A penalty may be paid today by a future payment
  before it has accrued, hence the third's assumption. `JournalFreshAlways` assumes
  that no recalculation overlaps the nightly accrual: with an overlap it is false.
  Its invariant says that a journal accrued through a day is the fresh one of that
  day and that what the night has read is what the journal lacks.
* `ContractReplayProofs` goes on from there with theorems that compare two replays.
  `SettledIsReplayedAlways` compares the rows of a contract with those of its replay
  although most operations never run it. Its invariant (`ReplayKept`) says of every
  settled contract that the replay of today gives its allocations, penalties and
  credit, unless it runs out of credit (`Matched`), and that the journal covers the
  penalty the replay reckons with (`JournalCovers`). Each operation then needs a
  relation between the replays of two histories, stage by stage (a stage is what
  the replay has written after a set of events closed under what is before them,
  and its rows stay: `Persists`). A reconciliation leaves rows whose history is the
  one it read (`AlikeStages`, the same events with other rows); a day more changes
  nothing once no payment lies ahead, because penalties accrue up to the eve of a
  payment; a payment of the settled present comes last. A refund is harder, being
  dated in the past: the overpayment that covers it is credit with every accrual
  paid up, so that the stages after it differ in the credit alone (`CreditCovers`,
  `ShiftedStages`). Assumption: no payment is dated in the future.

  `CoveredStaysCoveredAlways` has the same assumption and invariant. What it adds is
  the payment, which may be dated before refunds already given: it changes the plan
  of every payment after it and the penalty of every day, yet no refund may lose its
  money by it. The replay with the payment is put beside the one without
  (`RicherStages`) and is never the poorer one (`Richer`): no less is paid of any
  accrual and no more is left of one on any day, hence no more penalty accrues
  (`AccruedLess`; a full month owes on its whole charge until it is paid up, so this
  is not a matter of sums). Where the poorer one has credit left all its accruals are
  paid up, and so are the other's, which has received as much and owes no more
  (`BesideFacts`, `PaidUpIsMost`). The other operations leave the history as it is,
  except a refund, for which the invariant speaks. `RefundsFromCreditAlways` is a
  part of `LedgerInv`.
* `ContractApprovalProofs`: `OneCounterparty` and `CreatedAtMostOnce` for any
  number of contracts and approvals. Without a slip the lock excludes: one
  approval at a time, what it has read stays true, a call is made only for what
  is not there. With slips a lock may be taken over any number of times, and a
  bound on creations needs an argument by counting: whoever may still create a
  counterparty (a contract) holds a ticket - the resident while none is known, a
  request past its read, a push - each slip issues at most one, creating uses it up
  (`TicketInv`). Assumption: finitely many approvals.
* `RoomBookingProofs`: `NeverOverbooked` and `MergedPersonsHoldNothing` for any
  number of residents, rooms, contracts, requests and days. Neither invariant is
  inductive: a creation commits on what it read two steps earlier. `IInv` says what
  the locks keep true meanwhile: a row has one holder (`LocksExclusive`), the bed a
  creation is about to take is still free (`BedKept`), a person a transaction holds
  is not merged (`HeldUnmerged`); it counts every day (`NeverFuller`), the property
  only first days, where the peak of a room is. Assumptions: finitely many
  contracts, periods with a first day not after their last.
  `NightsAreFree` (`BookedNightsAreFree`) needs one more part, `NightsKept`: between
  the check and the commit of a creation nobody else books a night for its
  resident, because whoever does holds the resident's row.
* `MessagingProofs`, of NotificationQueue: `SentMeansAnnounced`,
  `RepeatedOnlyInDoubt` and `DigestsAreInTime` for any number of messages, of texts a
  digest has room for, of attempts, failed queries and crashes. The invariant ties the worker to the rows it has taken (a
  group is PROCESSING, a row the messenger has taken and answered for is not
  pending) and bounds what is due by the latest time of every pending row. That a
  worker's row stays its own rests on `running` and on rows coming back only when
  no worker is at work. Of ChatBroadcast: `OnceEach` and `FilesStay` for any number
  of requests, recipients, retries and crashes. At most one broadcast is stored and
  its requests' files stay; a row is SENT exactly when its message is there,
  because the mark and the message are one transaction, which the catch respects.
Only model-checked: liveness (fairness and ENABLED are out of the prover's reach).
Every safety property of a passing run is proved, each under the assumptions named
above.

## 6. What is not modelled

Formatting, validation of request bodies, permissions, audit rows, mail and file
contents. Decimal rounding is replaced by integer rates. One contract at a time:
no billing operation touches two. The split of a refund by hand and adjustments of
accruals by staff are left out.

* Sync jobs and resident roles: each run replaces its copy of a registry, or
  compares roles with contracts; two at once leave a copy minutes older, or take a
  role away until the next night. The lock they use is modelled in
  ContractApproval.
* The status job: it writes EXPIRING, OVERDUE and COMPLETED, and the modelled
  components ask only for TERMINATED.
* A broadcast's commit that becomes visible only after the catch of its request has
  looked for it: in ChatBroadcast an answer that is lost belongs to a commit that is
  done or rolled back.
* Announcements in the notification queue (no digest and no group), the polling of
  the bots, the staff's read mark, the rate limits.
* The PDF converter: its hazards are those of a process and of files.
* Sessions, reports, audit log, public information: checks of a row per request,
  read-only views, or one insert.
* The web client beyond the polling of a payment. It is more than half of the
  repository's code: forms, tables and pages over the endpoints, without state that
  outlives a page. Together with the reports, the list queries and the response
  mapping of the controllers it is why the modelled lines are a small share of all
  lines, although most of what changes shared state is among them.

## 7. Next

1. An abstract ledger that both ContractLedger and LedgerTransactions implement.
2. The nightly roles job beside creations and terminations, with the status job
   and its UTC day.
