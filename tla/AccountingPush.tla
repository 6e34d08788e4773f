--------------------------- MODULE AccountingPush ---------------------------
(***************************************************************************)
(* The push of online payments to accounting: pushPayments of              *)
(* accounting-1c-push.service.ts, which the nightly job and the endpoint   *)
(* sync-to-1c call, beside the reversals and reconciliations that touch    *)
(* the same payments.  Reading the batch, the call and the update of each  *)
(* payment are steps of their own: no transaction and no lock joins them.  *)
(*                                                                         *)
(* How a payment is allocated is the business of ContractLedger; here its  *)
(* allocation is a version, which a reconciliation may replace.            *)
(***************************************************************************)
EXTENDS Naturals

CONSTANTS
    Payments,         \* payments with source WEBSITE
    Cron, Staff,      \* the nightly push, and the push of one payment by hand
    Reallocated,      \* bound: payments whose allocation changes,
    MaxReallocations, \* and how often
    Unnamed,          \* bound: payments whose document an accepting answer may leave out
    None

ASSUME PushAssumption ==
    /\ Cron # Staff
    /\ Reallocated \subseteq Payments /\ Unnamed \subseteq Payments
    /\ MaxReallocations \in Nat
    /\ None \notin Nat

Pushes == {Cron, Staff}
Versions == 1..(MaxReallocations + 1)

VARIABLES
    payment,  \* payments: the row's state, its allocation, accounting1c_sync_status,
              \* whether accounting1c_document_uid is stored
    books,    \* external: the allocation accounting has for each payment
    push,     \* the push each pusher has in progress
    crossed,  \* history: payments reallocated while a push of them was in progress
    cleared   \* history: payments whose document_uid a push has removed

vars == <<payment, books, push, crossed, cleared>>

PaymentType ==
    [row : {"absent", "standing", "reversed"}, version : Versions,
     sync : {"NOT_SYNCED", "SYNCED", "FAILED"}, uid : BOOLEAN]

PushType ==
    [batch : [Payments -> Versions \cup {None}], \* what was read and not sent yet
     numbered : SUBSET Payments,                 \* of which it has a document_uid to store
     accepted : SUBSET Payments,                 \* answered with FinalStatus, not marked yet
     rejected : SUBSET Payments]                 \* answered without, not marked yet

TypeOK ==
    /\ payment \in [Payments -> PaymentType]
    /\ books \in [Payments -> Versions \cup {None}]
    /\ push \in [Pushes -> PushType]
    /\ crossed \subseteq Payments
    /\ cleared \subseteq Payments

Nothing == [p \in Payments |-> None]
Idle == [batch |-> Nothing, numbered |-> {}, accepted |-> {}, rejected |-> {}]

Init ==
    /\ payment = [p \in Payments |-> [row |-> "absent", version |-> 1, sync |-> "NOT_SYNCED",
                                       uid |-> FALSE]]
    /\ books = Nothing
    /\ push = [j \in Pushes |-> Idle]
    /\ crossed = {}
    /\ cleared = {}

-----------------------------------------------------------------------------
(* What happens to a payment meanwhile *)

\* OnlinePayments' CreditCommit
CreditPayment(p) ==
    /\ payment[p].row = "absent"
    /\ payment' = [payment EXCEPT ![p].row = "standing"]
    /\ UNCHANGED <<books, push, crossed, cleared>>

ReversePayment(p) ==
    /\ payment[p].row = "standing"
    /\ payment' = [payment EXCEPT ![p].row = "reversed"]
    /\ crossed' = crossed \ {p}
    /\ UNCHANGED <<books, push, cleared>>

Crossed(p) ==
    \E j \in Pushes : push[j].batch[p] # None \/ p \in push[j].accepted

\* Mutant: the allocation of a payment that is marked as sent is replaced too.
ReallocateSent(p) ==
    /\ payment[p].row = "standing"
    /\ p \in Reallocated /\ payment[p].version <= MaxReallocations
    /\ payment' = [payment EXCEPT ![p].version = @ + 1]
    /\ crossed' = IF Crossed(p) THEN crossed \cup {p} ELSE crossed
    /\ UNCHANGED <<books, push, cleared>>

\* A reconciliation replaces the allocation, and refuses to when the payment is
\* marked as sent.
Reallocate(p) ==
    /\ payment[p].row = "standing" /\ payment[p].sync # "SYNCED"
    /\ p \in Reallocated /\ payment[p].version <= MaxReallocations
    /\ payment' = [payment EXCEPT ![p].version = @ + 1]
    /\ crossed' = IF Crossed(p) THEN crossed \cup {p} ELSE crossed
    /\ UNCHANGED <<books, push, cleared>>

-----------------------------------------------------------------------------
(* pushPayments *)

\* Mutant: a payment accounting has rejected is not sent again.
ToPushNew(j) ==
    {p \in Payments : payment[p].row = "standing" /\ (j = Cron => payment[p].sync = "NOT_SYNCED")}

\* The nightly push takes what is not sent yet; by hand any payment may be sent,
\* one that is marked as sent too.
ToPush(j) ==
    {p \in Payments : payment[p].row = "standing" /\ (j = Cron => payment[p].sync # "SYNCED")}

PushRead(j) ==
    /\ push[j] = Idle /\ ToPush(j) # {}
    /\ \E chosen \in SUBSET ToPush(j) :
          /\ IF j = Cron THEN chosen = ToPush(j) ELSE \E p \in ToPush(j) : chosen = {p}
          /\ push' = [push EXCEPT ![j].batch = [p \in Payments |-> IF p \in chosen
                                                THEN payment[p].version ELSE None],
                                  ![j].numbered = {p \in chosen : payment[p].uid}]
    /\ UNCHANGED <<payment, books, crossed, cleared>>

Sent(j) == {p \in Payments : push[j].batch[p] # None}

\* The answer: accounting has booked "booked" and says so of "accepted".  It need not name
\* the document ("unnamed"); the one that was read with the payment stands in for it.
Answered(j, booked, accepted, rejected) ==
    /\ books' = [p \in Payments |-> IF p \in booked THEN push[j].batch[p] ELSE books[p]]
    /\ \E unnamed \in SUBSET (accepted \cap Unnamed) :
          push' = [push EXCEPT ![j] = [batch |-> Nothing,
                                       numbered |-> accepted \ (unnamed \ push[j].numbered),
                                       accepted |-> accepted, rejected |-> rejected]]

\* Mutant: a payment accounting did not answer for counts as accepted.
PushSendUnanswered(j) ==
    /\ Sent(j) # {}
    /\ \E booked \in SUBSET Sent(j) : \E rejected \in SUBSET (Sent(j) \ booked) :
          Answered(j, booked, Sent(j) \ rejected, rejected)
    /\ UNCHANGED <<payment, crossed, cleared>>

\* Accounting books some of the batch and answers for some of it: an answer may
\* get lost, but none says "booked" of a payment it has not booked.
PushSend(j) ==
    /\ Sent(j) # {}
    /\ \E booked \in SUBSET Sent(j) :
       \E accepted \in SUBSET booked, rejected \in SUBSET (Sent(j) \ booked) :
          Answered(j, booked, accepted, rejected)
    /\ UNCHANGED <<payment, crossed, cleared>>

\* Each answer is written by an update of its own, whatever has become of the row.  The
\* document of an accepted payment is the one the push has for it, or null: a number
\* stored since the push has read the payment may be lost.
MarkSynced(j, p) ==
    /\ p \in push[j].accepted
    /\ payment' = [payment EXCEPT ![p].sync = "SYNCED", ![p].uid = p \in push[j].numbered]
    /\ cleared' = IF payment[p].uid /\ p \notin push[j].numbered THEN cleared \cup {p}
                  ELSE cleared
    /\ push' = [push EXCEPT ![j].accepted = @ \ {p}, ![j].numbered = @ \ {p}]

MarkFailed(j, p) ==
    /\ p \in push[j].rejected
    /\ payment' = [payment EXCEPT ![p].sync = "FAILED"]
    /\ push' = [push EXCEPT ![j].rejected = @ \ {p}]
    /\ cleared' = cleared

PushMark(j) ==
    /\ \E p \in Payments : MarkSynced(j, p) \/ MarkFailed(j, p)
    /\ UNCHANGED <<books, crossed>>

\* The server goes down.
PushCrash(j) ==
    /\ push[j] # Idle
    /\ push' = [push EXCEPT ![j] = Idle]
    /\ UNCHANGED <<payment, books, crossed, cleared>>

Next ==
    \/ \E p \in Payments : CreditPayment(p) \/ ReversePayment(p) \/ Reallocate(p)
    \/ \E j \in Pushes : PushRead(j) \/ PushSend(j) \/ PushMark(j) \/ PushCrash(j)

Spec == Init /\ [][Next]_vars

\* The job runs every night and gets somewhere or crashes; some night accounting
\* books the payment and says so, and the server stays up to store the answer.
CronSucceeds ==
    /\ SF_vars(PushRead(Cron))
    /\ WF_vars(PushSend(Cron) \/ PushMark(Cron) \/ PushCrash(Cron))
    /\ \A p \in Payments : /\ SF_vars(PushSend(Cron) /\ p \in push'[Cron].accepted)
                           /\ SF_vars(PushMark(Cron) /\ p \in push[Cron].accepted
                                                     /\ p \notin push'[Cron].accepted)

FairSpec == Spec /\ CronSucceeds

-----------------------------------------------------------------------------

\* A payment marked as sent is in accounting's books, lost answers, rejections and
\* crashes between the call and the mark notwithstanding.
SyncedIsBooked == \A p \in Payments : payment[p].sync = "SYNCED" => books[p] # None

\* A credited payment is marked as sent one day, unless it is reversed first: a
\* rejection or a lost answer is not the end.
CreditedIsPushed ==
    \A p \in Payments :
        payment[p].row = "standing" ~> (payment[p].sync = "SYNCED" \/ payment[p].row = "reversed")

\* "The allocation of a payment already sent to accounting" stays the one accounting
\* has: what the refusal in reconcilePaymentHistoryInTransaction is for.  It does not see
\* a push in progress, and a payment reallocated meanwhile may differ for good.
SyncedMatchesBooks ==
    \A p \in Payments \ crossed :
        payment[p].sync = "SYNCED" /\ payment[p].row = "standing" => books[p] = payment[p].version
=============================================================================
