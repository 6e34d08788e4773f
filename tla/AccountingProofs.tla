-------------------------- MODULE AccountingProofs --------------------------
(***************************************************************************)
(* What the marks of rows sent to accounting are worth, for any number of  *)
(* payments, documents and changes of them.                                *)
(*                                                                         *)
(* SyncedIsBooked: the mark is set from what the push remembers of         *)
(* accounting's answer, so the invariant has to say that what is           *)
(* remembered as accepted is booked, and that books are never emptied,     *)
(* whatever the other push does meanwhile.                                 *)
(*                                                                         *)
(* SyncedMatchesBooks needs more: what is remembered as accepted is booked *)
(* in the version that was read, and this is the payment's version unless  *)
(* a reconciliation has crossed it.  The imports keep all of this, and an  *)
(* approval that has checked the record under its transaction is the only  *)
(* one to enter a payment (ImportedOnce); a payment whose document is      *)
(* stored is never offered, as long as no push clears the number.          *)
(*                                                                         *)
(* Service provision documents: nothing orders the jobs, so the argument   *)
(* is about what a send that is under way knows.  As long as no document   *)
(* was saved behind its back, it carries the document there is.            *)
(***************************************************************************)
EXTENDS PaymentImports, ServiceProvision, TLAPS

Booked(p) == books[p] # None

AcceptedIsBooked(j) == \A p \in push[j].accepted : Booked(p)

IInv ==
    /\ TypeOK
    /\ SyncedIsBooked
    /\ \A j \in Pushes : AcceptedIsBooked(j)

LEMMA InitInvariant == Init => IInv
<1> SUFFICES ASSUME Init PROVE IInv
  OBVIOUS
<1>1. Idle \in PushType /\ Idle.accepted = {}
  BY DEF Idle, PushType, Nothing
<1>2. TypeOK
  BY <1>1, PushAssumption DEF Init, TypeOK, PaymentType, Nothing, Versions
<1>3. SyncedIsBooked
  BY DEF Init, SyncedIsBooked
<1>4. \A j \in Pushes : AcceptedIsBooked(j)
  BY <1>1 DEF Init, AcceptedIsBooked
<1> QED
  BY <1>2, <1>3, <1>4 DEF IInv

\* The row of one payment changes, its mark does not become SYNCED.
LEMMA RowStep ==
  ASSUME IInv, NEW p \in Payments, NEW row \in PaymentType,
         payment' = [payment EXCEPT ![p] = row], UNCHANGED <<books, push>>,
         row.sync = payment[p].sync, crossed' \subseteq Payments, cleared' = cleared
  PROVE  IInv'
<1>1. TypeOK /\ payment \in [Payments -> PaymentType]
  BY DEF IInv, TypeOK
<1>2. /\ payment' \in [Payments -> PaymentType]
      /\ \A o \in Payments : payment'[o].sync = payment[o].sync
  BY <1>1
<1>3. TypeOK'
  BY <1>1, <1>2 DEF TypeOK
<1>4. SyncedIsBooked'
  BY <1>2 DEF IInv, SyncedIsBooked
<1>5. \A j \in Pushes : AcceptedIsBooked(j)'
  BY DEF IInv, AcceptedIsBooked, Booked
<1> QED
  BY <1>3, <1>4, <1>5 DEF IInv

\* A push goes on to a state that remembers no more accepted payments.
LEMMA PushStep ==
  ASSUME IInv, NEW j \in Pushes, NEW r \in PushType,
         push' = [push EXCEPT ![j] = r], UNCHANGED <<payment, books, crossed, cleared>>,
         r.accepted \subseteq push[j].accepted
  PROVE  IInv'
<1>1. TypeOK /\ push \in [Pushes -> PushType]
  BY DEF IInv, TypeOK
<1>2. /\ push' \in [Pushes -> PushType]
      /\ \A k \in Pushes : push'[k].accepted \subseteq push[k].accepted
  BY <1>1
<1>3. TypeOK'
  BY <1>1, <1>2 DEF TypeOK
<1>4. SyncedIsBooked'
  BY DEF IInv, SyncedIsBooked
<1>5. \A k \in Pushes : AcceptedIsBooked(k)'
  BY <1>2 DEF IInv, AcceptedIsBooked, Booked
<1> QED
  BY <1>3, <1>4, <1>5 DEF IInv

\* What accounting says it has booked it has booked.
LEMMA SendStep ==
  ASSUME IInv, NEW j \in Pushes, PushSend(j)
  PROVE  IInv'
<1>1. /\ TypeOK /\ push \in [Pushes -> PushType]
      /\ books \in [Payments -> Versions \cup {None}]
  BY DEF IInv, TypeOK
<1>2. PICK booked \in SUBSET Sent(j) :
        \E accepted \in SUBSET booked, rejected \in SUBSET (Sent(j) \ booked) :
           Answered(j, booked, accepted, rejected)
  BY DEF PushSend
<1>3. PICK accepted \in SUBSET booked, rejected \in SUBSET (Sent(j) \ booked) :
           Answered(j, booked, accepted, rejected)
  BY <1>2
<1>4. Sent(j) \subseteq Payments
  BY DEF Sent
<1>5. PICK r \in PushType : push' = [push EXCEPT ![j] = r] /\ r.accepted = accepted
  <2>1. PICK unnamed \in SUBSET (accepted \cap Unnamed) :
          push' = [push EXCEPT ![j] = [batch |-> Nothing,
                                       numbered |-> accepted \ (unnamed \ push[j].numbered),
                                       accepted |-> accepted, rejected |-> rejected]]
    BY <1>3 DEF Answered
  <2> DEFINE a == [batch |-> Nothing, numbered |-> accepted \ (unnamed \ push[j].numbered),
                   accepted |-> accepted, rejected |-> rejected]
  <2>2. a \in PushType /\ a.accepted = accepted
    BY <1>4 DEF PushType, Nothing
  <2> QED
    BY <2>1, <2>2
<1>6. UNCHANGED <<payment, crossed, cleared>>
  BY DEF PushSend
<1>7. /\ books' = [p \in Payments |-> IF p \in booked THEN push[j].batch[p] ELSE books[p]]
      /\ push[j].batch \in [Payments -> Versions \cup {None}]
  BY <1>1, <1>3 DEF Answered, PushType
<1>8. \A p \in Payments : (p \in booked \/ Booked(p)) => Booked(p)'
  BY <1>2, <1>7 DEF Booked, Sent
<1>9. TypeOK'
  BY <1>1, <1>5, <1>6, <1>7 DEF TypeOK
<1>10. SyncedIsBooked'
  BY <1>6, <1>8 DEF IInv, SyncedIsBooked, Booked
<1>11. ASSUME NEW k \in Pushes PROVE AcceptedIsBooked(k)'
  <2>1. CASE k = j
    <3>1. push'[k].accepted \subseteq booked
      BY <1>1, <1>5, <2>1
    <3> QED
      BY <3>1, <1>4, <1>8 DEF AcceptedIsBooked, Booked
  <2>2. CASE k # j
    <3>1. push'[k].accepted = push[k].accepted /\ push[k].accepted \subseteq Payments
      BY <1>1, <1>5, <2>2 DEF PushType
    <3> QED
      BY <3>1, <1>8 DEF IInv, AcceptedIsBooked, Booked
  <2> QED
    BY <2>1, <2>2
<1> QED
  BY <1>9, <1>10, <1>11 DEF IInv

\* What a mark does: to the payment's status and its document, and to no other payment.
MarkShape(j, p) ==
    /\ payment' \in [Payments -> PaymentType]
    /\ payment'[p].row = payment[p].row /\ payment'[p].version = payment[p].version
    /\ payment'[p].sync = "SYNCED" => p \in push[j].accepted
    /\ \A o \in Payments : o # p => payment'[o] = payment[o]
    /\ push' \in [Pushes -> PushType]
    /\ \A k \in Pushes : /\ push'[k].batch = push[k].batch
                         /\ push'[k].accepted \subseteq push[k].accepted
    /\ cleared' \subseteq Payments
    /\ UNCHANGED <<books, crossed>>

LEMMA MarkShapes ==
  ASSUME TypeOK, NEW j \in Pushes, PushMark(j)
  PROVE  \E p \in Payments : MarkShape(j, p)
<1>1. /\ push \in [Pushes -> PushType] /\ payment \in [Payments -> PaymentType]
      /\ cleared \subseteq Payments
  BY DEF TypeOK
<1>2. PICK p \in Payments : MarkSynced(j, p) \/ MarkFailed(j, p)
  BY DEF PushMark
<1>3. UNCHANGED <<books, crossed>>
  BY DEF PushMark
<1>4. CASE MarkSynced(j, p)
  <2> DEFINE stored == p \in push[j].numbered
  <2>0. /\ stored \in BOOLEAN
        /\ payment' = [payment EXCEPT ![p].sync = "SYNCED", ![p].uid = stored]
    BY <1>4 DEF MarkSynced
  <2> HIDE DEF stored
  <2> DEFINE row == [payment[p] EXCEPT !.sync = "SYNCED", !.uid = stored]
             r == [push[j] EXCEPT !.accepted = @ \ {p}, !.numbered = @ \ {p}]
  <2>1. row \in PaymentType /\ row.row = payment[p].row /\ row.version = payment[p].version
    BY <1>1, <2>0 DEF PaymentType
  <2>2. /\ r \in PushType /\ r.batch = push[j].batch
        /\ r.accepted \subseteq push[j].accepted
    BY <1>1 DEF PushType
  <2>3. payment' = [payment EXCEPT ![p] = row] /\ push' = [push EXCEPT ![j] = r]
    BY <1>4, <2>0 DEF MarkSynced
  <2>4. p \in push[j].accepted /\ cleared' \subseteq Payments
    BY <1>1, <1>4 DEF MarkSynced
  <2> HIDE DEF row, r
  <2> QED
    BY <1>1, <1>3, <2>1, <2>2, <2>3, <2>4 DEF MarkShape
<1>5. CASE MarkFailed(j, p)
  <2> DEFINE row == [payment[p] EXCEPT !.sync = "FAILED"]
             r == [push[j] EXCEPT !.rejected = @ \ {p}]
  <2>1. /\ row \in PaymentType /\ row.row = payment[p].row /\ row.version = payment[p].version
        /\ row.sync = "FAILED"
    BY <1>1 DEF PaymentType
  <2>2. /\ r \in PushType /\ r.batch = push[j].batch
        /\ r.accepted = push[j].accepted
    BY <1>1 DEF PushType
  <2>3. payment' = [payment EXCEPT ![p] = row] /\ push' = [push EXCEPT ![j] = r]
    BY <1>5 DEF MarkFailed
  <2>4. cleared' \subseteq Payments
    BY <1>1, <1>5 DEF MarkFailed
  <2> HIDE DEF row, r
  <2> QED
    BY <1>1, <1>3, <2>1, <2>2, <2>3, <2>4 DEF MarkShape
<1> QED
  BY <1>2, <1>4, <1>5

\* A mark is set from what the push remembers.
LEMMA MarkStep ==
  ASSUME IInv, NEW j \in Pushes, PushMark(j)
  PROVE  IInv'
<1>1. TypeOK
  BY DEF IInv
<1>2. PICK p \in Payments : MarkShape(j, p)
  BY <1>1, MarkShapes
<1>3. TypeOK'
  BY <1>1, <1>2 DEF TypeOK, MarkShape
<1>4. SyncedIsBooked'
  <2> SUFFICES ASSUME NEW o \in Payments, payment'[o].sync = "SYNCED" PROVE books'[o] # None
    BY DEF SyncedIsBooked
  <2>1. CASE o = p
    BY <2>1, <1>2 DEF IInv, AcceptedIsBooked, Booked, MarkShape
  <2>2. CASE o # p
    BY <2>2, <1>2 DEF IInv, SyncedIsBooked, MarkShape
  <2> QED
    BY <2>1, <2>2
<1>5. \A k \in Pushes : AcceptedIsBooked(k)'
  BY <1>2 DEF IInv, AcceptedIsBooked, Booked, MarkShape
<1> QED
  BY <1>3, <1>4, <1>5 DEF IInv

LEMMA StepInvariant == IInv /\ [Next]_vars => IInv'
<1> SUFFICES ASSUME IInv, [Next]_vars PROVE IInv'
  OBVIOUS
<1>0. /\ TypeOK /\ payment \in [Payments -> PaymentType] /\ push \in [Pushes -> PushType]
  BY DEF IInv, TypeOK
<1>1. ASSUME NEW p \in Payments, CreditPayment(p) \/ ReversePayment(p) \/ Reallocate(p)
      PROVE  IInv'
  <2>1. PICK row \in PaymentType : /\ payment' = [payment EXCEPT ![p] = row]
                                   /\ row.sync = payment[p].sync
    <3>1. CASE CreditPayment(p)
      <4> DEFINE row == [payment[p] EXCEPT !.row = "standing"]
      <4>1. row \in PaymentType /\ row.sync = payment[p].sync
        BY <1>0 DEF PaymentType
      <4> QED
        BY <3>1, <4>1 DEF CreditPayment
    <3>2. CASE ReversePayment(p)
      <4> DEFINE row == [payment[p] EXCEPT !.row = "reversed"]
      <4>1. row \in PaymentType /\ row.sync = payment[p].sync
        BY <1>0 DEF PaymentType
      <4> QED
        BY <3>2, <4>1 DEF ReversePayment
    <3>3. CASE Reallocate(p)
      <4> DEFINE row == [payment[p] EXCEPT !.version = @ + 1]
      <4>1. row \in PaymentType /\ row.sync = payment[p].sync
        BY <1>0, <3>3, PushAssumption DEF PaymentType, Versions, Reallocate
      <4> QED
        BY <3>3, <4>1 DEF Reallocate
    <3> QED
      BY <1>1, <3>1, <3>2, <3>3
  <2>2. UNCHANGED <<books, push, cleared>> /\ crossed' \subseteq Payments
    BY <1>0, <1>1 DEF CreditPayment, ReversePayment, Reallocate, TypeOK
  <2> QED
    BY <2>1, <2>2, RowStep
<1>2. ASSUME NEW j \in Pushes, PushRead(j) PROVE IInv'
  <2>1. PICK chosen \in SUBSET ToPush(j) :
          push' = [push EXCEPT ![j].batch = [p \in Payments |-> IF p \in chosen
                                             THEN payment[p].version ELSE None],
                               ![j].numbered = {p \in chosen : payment[p].uid}]
    BY <1>2 DEF PushRead
  <2> DEFINE batch == [p \in Payments |-> IF p \in chosen THEN payment[p].version ELSE None]
             numbered == {p \in chosen : payment[p].uid}
             r == [push[j] EXCEPT !.batch = batch, !.numbered = numbered]
  <2>2. batch \in [Payments -> Versions \cup {None}] /\ numbered \subseteq Payments
    BY <1>0 DEF PaymentType, ToPush
  <2>3. r \in PushType /\ r.accepted = push[j].accepted
    BY <1>0, <2>2 DEF PushType
  <2>4. push' = [push EXCEPT ![j] = r]
    BY <2>1
  <2>5. UNCHANGED <<payment, books, crossed, cleared>>
    BY <1>2 DEF PushRead
  <2> HIDE DEF r
  <2> QED
    BY <2>3, <2>4, <2>5, PushStep
<1>3. ASSUME NEW j \in Pushes, PushCrash(j) PROVE IInv'
  <2>1. Idle \in PushType /\ Idle.accepted = {}
    BY DEF Idle, PushType, Nothing
  <2> QED
    BY <1>3, <2>1, PushStep DEF PushCrash
<1>4. CASE Next
  BY <1>4, <1>1, <1>2, <1>3, SendStep, MarkStep DEF Next
<1>5. CASE UNCHANGED vars
  BY <1>5 DEF vars, IInv, TypeOK, SyncedIsBooked, AcceptedIsBooked, Booked
<1> QED
  BY <1>4, <1>5

LEMMA Invariant == Spec => []IInv
<1> QED
  BY InitInvariant, StepInvariant, PTL DEF Spec

\* Whatever accounting answers, the status of a payment is one the job knows.
THEOREM TypeCorrect == Spec => []TypeOK
<1>1. IInv => TypeOK
  BY DEF IInv
<1> QED
  BY <1>1, Invariant, PTL

\* A payment marked as sent is in accounting's books: lost answers, crashes and
\* overlapping pushes never mark one that is not.
THEOREM SyncedMeansBooked == Spec => []SyncedIsBooked
<1>1. IInv => SyncedIsBooked
  BY DEF IInv
<1> QED
  BY <1>1, Invariant, PTL

-----------------------------------------------------------------------------
(* SyncedMatchesBooks: as long as no reallocation has crossed a push, what   *)
(* the pushes hold, and what accounting has been told, is the allocation.    *)

InFlight(j, p) ==
    /\ push[j].batch[p] # None => push[j].batch[p] = payment[p].version
    /\ p \in push[j].accepted => books[p] = payment[p].version

Agrees(p) ==
    /\ \A j \in Pushes : InFlight(j, p)
    /\ payment[p].sync = "SYNCED" => books[p] = payment[p].version

Untouched(p) == payment[p].row # "reversed" /\ p \notin crossed

BooksInv == \A p \in Payments : Untouched(p) => Agrees(p)

LEMMA InitBooks == Init => BooksInv
<1> SUFFICES ASSUME Init, NEW p \in Payments PROVE Agrees(p)
  BY DEF BooksInv
<1>1. \A j \in Pushes : push[j].batch[p] = None /\ push[j].accepted = {}
  BY DEF Init, Idle, Nothing
<1>2. payment[p].sync # "SYNCED"
  BY DEF Init
<1> QED
  BY <1>1, <1>2 DEF Agrees, InFlight

LEMMA StepBooks == TypeOK /\ BooksInv /\ [Next]_vars => BooksInv'
<1> SUFFICES ASSUME TypeOK, BooksInv, [Next]_vars, NEW q \in Payments, Untouched(q)'
             PROVE  Agrees(q)'
  BY DEF BooksInv
<1>0. /\ payment \in [Payments -> PaymentType] /\ push \in [Pushes -> PushType]
      /\ crossed \subseteq Payments
  BY DEF TypeOK
<1>1. ASSUME NEW p \in Payments, CreditPayment(p) \/ ReversePayment(p) PROVE Agrees(q)'
  <2>1. UNCHANGED <<books, push>>
    BY <1>1 DEF CreditPayment, ReversePayment
  <2>2. payment'[q].sync = payment[q].sync /\ payment'[q].version = payment[q].version
    BY <1>0, <1>1 DEF CreditPayment, ReversePayment, PaymentType
  <2>3. Untouched(q)
    BY <1>0, <1>1 DEF Untouched, CreditPayment, ReversePayment, PaymentType
  <2> QED
    BY <2>1, <2>2, <2>3 DEF BooksInv, Agrees, InFlight
<1>2. ASSUME NEW p \in Payments, Reallocate(p) PROVE Agrees(q)'
  <2>1. UNCHANGED <<books, push>>
    BY <1>2 DEF Reallocate
  <2>2. payment'[q].sync = payment[q].sync
    BY <1>0, <1>2 DEF Reallocate, PaymentType
  <2>3. CASE q = p
    <3>1. ~Crossed(p) /\ payment[p].sync # "SYNCED"
      BY <1>2, <2>3 DEF Reallocate, Untouched
    <3> QED
      BY <2>1, <2>2, <2>3, <3>1 DEF Crossed, Agrees, InFlight
  <2>4. CASE q # p
    <3>1. Untouched(q) /\ payment'[q] = payment[q]
      BY <1>0, <1>2, <2>4 DEF Untouched, Reallocate
    <3> QED
      BY <2>1, <3>1 DEF BooksInv, Agrees, InFlight
  <2> QED
    BY <2>3, <2>4
<1>3. ASSUME NEW j \in Pushes, PushRead(j) PROVE Agrees(q)'
  <2>1. PICK chosen \in SUBSET ToPush(j) :
          push' = [push EXCEPT ![j].batch = [p \in Payments |-> IF p \in chosen
                                             THEN payment[p].version ELSE None],
                               ![j].numbered = {p \in chosen : payment[p].uid}]
    BY <1>3 DEF PushRead
  <2>2. UNCHANGED <<payment, books, crossed>>
    BY <1>3 DEF PushRead
  <2>3. Untouched(q) /\ Agrees(q)
    BY <2>2 DEF Untouched, BooksInv
  <2>4. ASSUME NEW k \in Pushes PROVE InFlight(k, q)'
    <3>1. push'[k].accepted = push[k].accepted
      BY <1>0, <2>1 DEF PushType
    <3>2. push'[k].batch[q] \in {None, payment[q].version, push[k].batch[q]}
      BY <1>0, <2>1 DEF PushType
    <3> QED
      BY <2>2, <2>3, <3>1, <3>2 DEF InFlight, Agrees
  <2> QED
    BY <2>2, <2>3, <2>4 DEF Agrees
<1>4. ASSUME NEW j \in Pushes, PushSend(j) PROVE Agrees(q)'
  <2>1. PICK booked \in SUBSET Sent(j) :
          \E accepted \in SUBSET booked, rejected \in SUBSET (Sent(j) \ booked) :
             Answered(j, booked, accepted, rejected)
    BY <1>4 DEF PushSend
  <2>2. PICK accepted \in SUBSET booked, rejected \in SUBSET (Sent(j) \ booked) :
             Answered(j, booked, accepted, rejected)
    BY <2>1
  <2>3. UNCHANGED <<payment, crossed>>
    BY <1>4 DEF PushSend
  <2>4. Untouched(q) /\ Agrees(q)
    BY <2>3 DEF Untouched, BooksInv
  <2>5. books'[q] = IF q \in booked THEN push[j].batch[q] ELSE books[q]
    BY <2>2 DEF Answered
  <2>6. q \in booked => books'[q] = payment[q].version
    BY <2>1, <2>4, <2>5 DEF Sent, Agrees, InFlight
  <2>7. ASSUME NEW k \in Pushes PROVE InFlight(k, q)'
    <3>1. CASE k = j
      <4>1. push'[k].batch[q] = None /\ push'[k].accepted = accepted
        BY <1>0, <2>2, <3>1 DEF Answered, Nothing
      <4> QED
        BY <2>2, <2>3, <2>6, <4>1 DEF InFlight
    <3>2. CASE k # j
      <4>1. push'[k] = push[k]
        BY <1>0, <2>2, <3>2 DEF Answered
      <4> QED
        BY <2>3, <2>4, <2>5, <2>6, <4>1 DEF InFlight, Agrees
    <3> QED
      BY <3>1, <3>2
  <2> QED
    BY <2>3, <2>4, <2>5, <2>6, <2>7 DEF Agrees
<1>5. ASSUME NEW j \in Pushes, PushMark(j) PROVE Agrees(q)'
  <2>1. PICK p \in Payments : MarkShape(j, p)
    BY <1>5, MarkShapes
  <2>2. UNCHANGED <<books, crossed>>
    BY <2>1 DEF MarkShape
  <2>3. /\ payment'[q].row = payment[q].row /\ payment'[q].version = payment[q].version
        /\ payment'[q].sync = "SYNCED" => payment[q].sync = "SYNCED" \/ q \in push[j].accepted
    BY <1>0, <2>1 DEF MarkShape
  <2>4. Untouched(q) /\ Agrees(q)
    BY <2>2, <2>3 DEF Untouched, BooksInv
  <2>5. \A k \in Pushes : /\ push'[k].batch = push[k].batch
                          /\ push'[k].accepted \subseteq push[k].accepted
    BY <2>1 DEF MarkShape
  <2> QED
    BY <2>1, <2>2, <2>3, <2>4, <2>5 DEF Agrees, InFlight
<1>6. ASSUME NEW j \in Pushes, PushCrash(j) PROVE Agrees(q)'
  <2>1. push' = [push EXCEPT ![j] = Idle] /\ UNCHANGED <<payment, books, crossed>>
    BY <1>6 DEF PushCrash
  <2>2. Untouched(q) /\ Agrees(q)
    BY <2>1 DEF Untouched, BooksInv
  <2>3. \A k \in Pushes : \/ push'[k] = push[k]
                          \/ push'[k].batch[q] = None /\ push'[k].accepted = {}
    BY <1>0, <2>1 DEF Idle, Nothing
  <2> QED
    BY <2>1, <2>2, <2>3 DEF Agrees, InFlight
<1>7. CASE UNCHANGED vars
  BY <1>7 DEF vars, Untouched, BooksInv, Agrees, InFlight
<1> QED
  BY <1>1, <1>2, <1>3, <1>4, <1>5, <1>6, <1>7 DEF Next

\* Accounting has the allocation of every payment marked as sent, unless a
\* reconciliation replaced it while a push was under way.
THEOREM SyncedMeansMatching == Spec => []SyncedMatchesBooks
<1>1. BooksInv => SyncedMatchesBooks
  BY DEF BooksInv, Untouched, Agrees, SyncedMatchesBooks
<1> QED
  BY <1>1, InitBooks, StepBooks, TypeCorrect, PTL DEF Spec

-----------------------------------------------------------------------------
(* PaymentImports.  What the ingest has compared and not found known has no  *)
(* record, because nothing else creates one; so a record is created once, and *)
(* the claim in the approval's transaction does the rest.                     *)

NotRecorded ==
    ingest.step = "compared" =>
        \A d \in ingest.list : d \notin ingest.known => record[d] = "none"

ImportInv == ImportTypeOK /\ ImportedOnce /\ NotRecorded

LEMMA InitImports == ImportInit => ImportInv
<1> SUFFICES ASSUME ImportInit PROVE ImportInv
  OBVIOUS
<1>1. TypeOK
  BY InitInvariant DEF ImportInit, IInv
<1>2. ImportTypeOK
  BY <1>1 DEF ImportInit, ImportTypeOK, IngestType, NoIngest
<1>3. ImportedOnce
  BY DEF ImportInit, ImportedOnce
<1>4. NotRecorded
  BY DEF ImportInit, NotRecorded, NoIngest
<1> QED
  BY <1>2, <1>3, <1>4 DEF ImportInv

\* Steps of the ingest leave payments alone, and what they add to the records was none.
LEMMA IngestStep ==
  ASSUME ImportInv, NEW i \in IngestType, ingest' = i,
         UNCHANGED <<vars, filed, record, imported, clerk>>,
         i.step = "compared" => \A d \in i.list : d \notin i.known => record[d] = "none"
  PROVE  ImportInv'
<1>1. ImportTypeOK'
  BY DEF ImportInv, ImportTypeOK, TypeOK, vars
<1>2. ImportedOnce'
  BY DEF ImportInv, ImportedOnce
<1>3. NotRecorded'
  BY DEF NotRecorded
<1> QED
  BY <1>1, <1>2, <1>3 DEF ImportInv

LEMMA StepImports == ImportInv /\ TypeOK' /\ [ImportNext]_importVars => ImportInv'
<1> SUFFICES ASSUME ImportInv, TypeOK', [ImportNext]_importVars PROVE ImportInv'
  OBVIOUS
<1>0. /\ ImportTypeOK /\ ImportedOnce /\ NotRecorded
      /\ ingest \in IngestType
      /\ record \in [Documents -> {"none", "NEEDS_REVIEW", "MATCHED"}]
      /\ imported \in [Documents -> Nat]
      /\ clerk \in [Clerks -> Documents \cup {None}]
  BY DEF ImportInv, ImportTypeOK
<1>1. ASSUME UNCHANGED <<record, imported, ingest>>, filed' \subseteq Statements,
             clerk' \in [Clerks -> Documents \cup {None}]
      PROVE  ImportInv'
  <2>1. ImportTypeOK'
    BY <1>0, <1>1 DEF ImportTypeOK
  <2>2. ImportedOnce' /\ NotRecorded'
    BY <1>0, <1>1 DEF ImportedOnce, NotRecorded
  <2> QED
    BY <2>1, <2>2 DEF ImportInv
<1>2. CASE Next /\ UNCHANGED <<filed, record, imported, ingest, clerk>>
  BY <1>0, <1>1, <1>2 DEF ImportTypeOK
<1>3. ASSUME NEW st \in Statements, FileStatement(st) PROVE ImportInv'
  BY <1>0, <1>1, <1>3 DEF ImportTypeOK, FileStatement
<1>4. CASE Fetch
  <2>1. PICK list \in SUBSET Listed \ {{}} :
          ingest' = [step |-> "fetched", list |-> list, known |-> {}]
    BY <1>4 DEF Fetch
  <2>2. list \subseteq Documents
    BY <1>0 DEF Listed, Documents, ImportTypeOK
  <2>3. [step |-> "fetched", list |-> list, known |-> {}] \in IngestType
    BY <2>2 DEF IngestType
  <2> QED
    BY <1>4, <2>1, <2>3, IngestStep DEF Fetch
<1>5. CASE Compare
  <2> DEFINE known == {d \in ingest.list : record[d] # "none"}
                      \cup {p \in ingest.list \cap Payments : payment[p].uid}
             i == [ingest EXCEPT !.step = "compared", !.known = known]
  <2>1. i \in IngestType /\ ingest' = i
    BY <1>0, <1>5 DEF IngestType, Compare
  <2>2. \A d \in i.list : d \notin i.known => record[d] = "none"
    BY <1>0 DEF IngestType
  <2> HIDE DEF i
  <2> QED
    BY <1>5, <2>1, <2>2, IngestStep DEF Compare
<1>6. CASE Ingest
  <2>1. CASE ingest.list = {}
    <3>1. NoIngest \in IngestType /\ NoIngest.step = "idle"
      BY DEF NoIngest, IngestType
    <3> QED
      BY <1>6, <2>1, <3>1, IngestStep DEF Ingest
  <2>2. CASE ingest.list # {}
    <3>1. PICK d \in ingest.list :
            /\ ingest' = [ingest EXCEPT !.list = @ \ {d}]
            /\ \/ record' = record
               \/ /\ d \notin ingest.known
                  /\ record' = [record EXCEPT ![d] = "NEEDS_REVIEW"]
      BY <1>6, <2>2 DEF Ingest
    <3>2. d \in Documents /\ ingest' \in IngestType
      BY <1>0, <3>1 DEF IngestType
    <3>3. CASE record' = record
      BY <1>0, <1>6, <3>1, <3>2, <3>3, IngestStep DEF Ingest, NotRecorded, IngestType
    <3>4. CASE d \notin ingest.known /\ record' = [record EXCEPT ![d] = "NEEDS_REVIEW"]
      <4>1. record[d] = "none"
        BY <1>0, <1>6, <3>1, <3>4 DEF Ingest, NotRecorded
      <4>2. ImportTypeOK'
        BY <1>0, <1>6, <3>2, <3>4 DEF Ingest, ImportTypeOK
      <4>3. ImportedOnce'
        BY <1>0, <1>6, <3>2, <3>4, <4>1 DEF Ingest, ImportedOnce
      <4>4. NotRecorded'
        BY <1>0, <3>1, <3>2, <3>4 DEF NotRecorded, IngestType
      <4> QED
        BY <4>2, <4>3, <4>4 DEF ImportInv
    <3> QED
      BY <3>1, <3>3, <3>4
  <2> QED
    BY <2>1, <2>2
<1>7. CASE IngestFails
  <2>1. NoIngest \in IngestType /\ NoIngest.step = "idle"
    BY DEF NoIngest, IngestType
  <2> QED
    BY <1>7, <2>1, IngestStep DEF IngestFails
<1>8. ASSUME NEW k \in Clerks, Open(k) PROVE ImportInv'
  <2>1. clerk' \in [Clerks -> Documents \cup {None}]
    BY <1>0, <1>8 DEF Open
  <2> QED
    BY <1>0, <1>1, <1>8, <2>1 DEF ImportTypeOK, Open
<1>9. ASSUME NEW k \in Clerks, Approve(k) PROVE ImportInv'
  <2>1. clerk' \in [Clerks -> Documents \cup {None}] /\ UNCHANGED <<vars, filed, ingest>>
    BY <1>0, <1>9 DEF Approve
  <2>2. CASE UNCHANGED <<record, imported>>
    BY <1>0, <1>1, <2>1, <2>2 DEF ImportTypeOK
  <2>3. CASE /\ record[clerk[k]] = "NEEDS_REVIEW"
             /\ record' = [record EXCEPT ![clerk[k]] = "MATCHED"]
             /\ imported' = [imported EXCEPT ![clerk[k]] = @ + 1]
    <3> DEFINE d == clerk[k]
    <3>1. d \in Documents \cup {None} /\ d # None
      BY <1>0, <1>9 DEF Approve
    <3>2. d \in Documents
      BY <3>1
    <3>3. imported[d] = 0
      BY <1>0, <2>3, <3>2 DEF ImportedOnce
    <3>4. ImportTypeOK'
      BY <1>0, <2>1, <2>3, <3>2 DEF ImportTypeOK
    <3>5. ImportedOnce'
      BY <1>0, <2>3, <3>2, <3>3 DEF ImportedOnce
    <3>6. NotRecorded'
      BY <1>0, <2>1, <2>3, <3>2 DEF NotRecorded, IngestType
    <3> QED
      BY <3>4, <3>5, <3>6 DEF ImportInv
  <2> QED
    BY <1>9, <2>2, <2>3 DEF Approve
<1>10. CASE UNCHANGED importVars
  BY <1>0, <1>1, <1>10 DEF importVars, ImportTypeOK
<1> QED
  BY <1>2, <1>3, <1>4, <1>5, <1>6, <1>7, <1>8, <1>9, <1>10 DEF ImportNext

\* A step of PaymentImports is a step of AccountingPush or leaves its variables alone.
LEMMA ImportIsPush == [ImportNext]_importVars => [Next]_vars
<1> SUFFICES ASSUME [ImportNext]_importVars PROVE [Next]_vars
  OBVIOUS
<1>1. CASE Next
  BY <1>1
<1>2. CASE UNCHANGED importVars
  BY <1>2 DEF importVars, vars
<1>3. CASE \/ \E st \in Statements : FileStatement(st)
           \/ Fetch \/ Compare \/ Ingest \/ IngestFails
           \/ \E k \in Clerks : Open(k) \/ Approve(k)
  <2>1. UNCHANGED vars
    BY <1>3 DEF FileStatement, Fetch, Compare, Ingest, IngestFails, Open, Approve
  <2> QED
    BY <2>1
<1> QED
  BY <1>1, <1>2, <1>3 DEF ImportNext

LEMMA ImportKeepsPush == ImportSpec => []IInv
<1>1. ImportInit => IInv
  BY InitInvariant DEF ImportInit
<1> QED
  BY <1>1, ImportIsPush, StepInvariant, PTL DEF ImportSpec

\* A document is credited once, however many clerks approve its record and however
\* often accounting lists it.
THEOREM ImportedAtMostOnce == ImportSpec => []ImportedOnce
<1>1. IInv => TypeOK
  BY DEF IInv
<1>2. ImportInv => ImportedOnce
  BY DEF ImportInv
<1> QED
  BY <1>1, <1>2, InitImports, StepImports, ImportKeepsPush, PTL DEF ImportSpec

\* What is not offered stays so: a payment whose document is stored is compared as known,
\* until a push clears its number.
NeverOffered(p) ==
    /\ record[p] = "none" /\ payment[p].uid
    /\ ingest.step = "compared" => p \notin ingest.list \/ p \in ingest.known

LEMMA DocumentStays ==
  ASSUME TypeOK, [Next]_vars, NEW p \in Payments
  PROVE  /\ p \in cleared => p \in cleared'
         /\ payment[p].uid => payment'[p].uid \/ p \in cleared'
<1>0. payment \in [Payments -> PaymentType] /\ push \in [Pushes -> PushType]
  BY DEF TypeOK
<1>1. ASSUME NEW q \in Payments, CreditPayment(q) \/ ReversePayment(q) \/ Reallocate(q)
      PROVE  payment'[p].uid = payment[p].uid /\ cleared' = cleared
  BY <1>0, <1>1 DEF CreditPayment, ReversePayment, Reallocate, PaymentType
<1>2. ASSUME NEW j \in Pushes, PushMark(j)
      PROVE  /\ p \in cleared => p \in cleared'
             /\ payment[p].uid => payment'[p].uid \/ p \in cleared'
  <2>1. PICK q \in Payments : MarkSynced(j, q) \/ MarkFailed(j, q)
    BY <1>2 DEF PushMark
  <2>2. CASE MarkFailed(j, q)
    BY <1>0, <2>2 DEF MarkFailed, PaymentType
  <2>3. CASE MarkSynced(j, q)
    <3>1. p \in cleared => p \in cleared'
      BY <2>3 DEF MarkSynced
    <3>2. CASE q # p
      BY <1>0, <2>3, <3>1, <3>2 DEF MarkSynced
    <3>3. CASE q = p
      <4>1. payment'[p].uid = (p \in push[j].numbered)
        BY <1>0, <2>3, <3>3 DEF MarkSynced, PaymentType
      <4>2. payment[p].uid /\ p \notin push[j].numbered => p \in cleared'
        BY <2>3, <3>3 DEF MarkSynced
      <4> QED
        BY <3>1, <4>1, <4>2
    <3> QED
      BY <3>2, <3>3
  <2> QED
    BY <2>1, <2>2, <2>3
<1>3. ASSUME NEW j \in Pushes, PushRead(j) \/ PushSend(j) \/ PushCrash(j)
      PROVE  UNCHANGED <<payment, cleared>>
  BY <1>3 DEF PushRead, PushSend, PushCrash
<1>4. CASE UNCHANGED vars
  BY <1>4 DEF vars
<1> QED
  BY <1>1, <1>2, <1>3, <1>4 DEF Next

LEMMA NeverOfferedStays ==
  ASSUME NEW p \in Payments
  PROVE  TypeOK /\ ImportTypeOK /\ (NeverOffered(p) \/ p \in cleared) /\ [ImportNext]_importVars
            => (NeverOffered(p) \/ p \in cleared)'
<1> SUFFICES ASSUME TypeOK, ImportTypeOK, NeverOffered(p) \/ p \in cleared,
                    [ImportNext]_importVars, p \notin cleared'
             PROVE  NeverOffered(p)'
  OBVIOUS
<1>c. NeverOffered(p)
  BY ImportIsPush, DocumentStays
<1>0. /\ ingest \in IngestType /\ p \in Documents
      /\ record \in [Documents -> {"none", "NEEDS_REVIEW", "MATCHED"}]
      /\ clerk \in [Clerks -> Documents \cup {None}]
  BY DEF ImportTypeOK, Documents
<1>1. payment'[p].uid
  BY <1>c, ImportIsPush, DocumentStays DEF NeverOffered
<1>2. CASE UNCHANGED <<record, ingest>>
  BY <1>1, <1>c, <1>2 DEF NeverOffered
<1>3. CASE Fetch
  BY <1>1, <1>c, <1>3 DEF Fetch, NeverOffered
<1>4. CASE Compare
  BY <1>0, <1>1, <1>c, <1>4 DEF Compare, NeverOffered, IngestType
<1>5. CASE Ingest
  BY <1>0, <1>1, <1>c, <1>5 DEF Ingest, NeverOffered, NoIngest, IngestType
<1>6. CASE IngestFails
  BY <1>1, <1>c, <1>6 DEF IngestFails, NeverOffered, NoIngest
<1>7. ASSUME NEW k \in Clerks, Approve(k) PROVE NeverOffered(p)'
  <2>1. record'[p] = "none" /\ ingest' = ingest
    BY <1>0, <1>c, <1>7 DEF Approve, NeverOffered
  <2> QED
    BY <1>1, <1>c, <2>1 DEF NeverOffered
<1>8. CASE \/ UNCHANGED importVars
           \/ Next /\ UNCHANGED <<filed, record, imported, ingest, clerk>>
           \/ \E st \in Statements : FileStatement(st)
           \/ \E k \in Clerks : Open(k)
  <2>1. UNCHANGED <<record, ingest>>
    BY <1>8 DEF importVars, FileStatement, Open
  <2> QED
    BY <1>2, <2>1
<1> QED
  BY <1>3, <1>4, <1>5, <1>6, <1>7, <1>8 DEF ImportNext

\* The document of a payment of ours whose number is stored before the ingest begins is
\* never offered as a payment of its own, unless a push clears the number again.
THEOREM OwnNeverOffered == ImportSpec => OwnIsNotOffered
<1> DEFINE Stored(p) == payment[p].uid /\ ingest = NoIngest /\ record[p] = "none"
<1> SUFFICES ASSUME NEW p \in Payments
             PROVE  ImportSpec => [](Stored(p) => [](record[p] = "none" \/ p \in cleared))
  BY DEF OwnIsNotOffered
<1>1. Stored(p) => NeverOffered(p) \/ p \in cleared
  BY DEF NeverOffered, NoIngest
<1>2. NeverOffered(p) \/ p \in cleared => record[p] = "none" \/ p \in cleared
  BY DEF NeverOffered
<1>3. TypeOK /\ ImportTypeOK /\ (NeverOffered(p) \/ p \in cleared) /\ [ImportNext]_importVars
        => (NeverOffered(p) \/ p \in cleared)'
  BY NeverOfferedStays
<1>4. IInv => TypeOK
  BY DEF IInv
<1>5. ImportInv => ImportTypeOK
  BY DEF ImportInv
<1> HIDE DEF Stored
<1> QED
  BY <1>1, <1>2, <1>3, <1>4, <1>5, InitImports, StepImports, ImportKeepsPush, PTL DEF ImportSpec

-----------------------------------------------------------------------------
(* ServiceProvision *)

JobType == [step : JobSteps, payload : Payloads \cup {Absent}]

\* The payload a send carries is the document's, and an answer that says yes is about
\* what accounting has; a document that is marked is what accounting has, and so is
\* every payload on its way there.
SendsCarryTheDocument ==
    ~overlap =>
        /\ \A j \in Jobs : Sending(j) => job[j].payload = document.payload
        /\ \A j \in Jobs : job[j].step = "accepted" => ledger = document.payload.charges
        /\ document.sync = "SYNCED" => ledger = document.payload.charges

Saving(j) == job[j].step \in {"save", "saveAndSend", "create", "createAndSend"}

\* What is to be saved or sent is a payload.
JobsHavePayloads ==
    \A j \in Jobs :
        Sending(j) \/ Saving(j) => job[j].payload \in Payloads

ProvisionInv == ProvisionTypeOK /\ JobsHavePayloads /\ SendsCarryTheDocument

LEMMA RestingIdle == Resting \in JobType /\ Resting.step = "idle"
BY DEF Resting, JobType, JobSteps

LEMMA ProvisionTypeInit == ProvisionInit => ProvisionTypeOK
<1> SUFFICES ASSUME ProvisionInit PROVE ProvisionTypeOK
  OBVIOUS
<1>1. job \in [Jobs -> JobType]
  BY RestingIdle DEF ProvisionInit
<1>2. charges \in ChargeVersions
  BY ProvisionAssumption DEF ProvisionInit, ChargeVersions
<1>3. document \in [payload : Payloads \cup {Absent}, sync : {"NOT_SYNCED", "SYNCED", "FAILED"}]
  BY DEF ProvisionInit
<1>4. mapped \in BOOLEAN /\ overlap \in BOOLEAN
  BY DEF ProvisionInit
<1> QED
  BY <1>1, <1>2, <1>3, <1>4 DEF ProvisionInit, ProvisionTypeOK, JobType

LEMMA ProvisionInvInit == ProvisionInit => ProvisionInv
<1> SUFFICES ASSUME ProvisionInit PROVE ProvisionInv
  OBVIOUS
<1>1. \A j \in Jobs : job[j].step = "idle"
  BY RestingIdle DEF ProvisionInit
<1> QED
  BY <1>1, ProvisionTypeInit DEF ProvisionInit, ProvisionInv, JobsHavePayloads, SendsCarryTheDocument, Sending, Saving

\* A job that reads, saves or ends leaves the others where they are.
LEMMA Quiet ==
  ASSUME ProvisionInv, NEW j \in Jobs, NEW s \in JobType,
         job' = [job EXCEPT ![j] = s],
         s.step \in {"call", "accepted", "rejected", "save", "saveAndSend", "create",
                     "createAndSend"} => s.payload \in Payloads,
         s.step \in {"call", "accepted", "rejected"} => s.payload = document.payload \/ overlap,
         s.step = "accepted" => overlap \/ ledger = document.payload.charges,
         UNCHANGED <<document, ledger, overlap>>, ProvisionTypeOK'
  PROVE  ProvisionInv'
<1>0. job \in [Jobs -> JobType]
  BY DEF ProvisionInv, ProvisionTypeOK, JobType
<1>1. job'[j] = s /\ \A k \in Jobs : k # j => job'[k] = job[k]
  BY <1>0
<1>2. JobsHavePayloads'
  BY <1>1 DEF ProvisionInv, JobsHavePayloads, Sending, Saving
<1>3. SendsCarryTheDocument'
  BY <1>1 DEF ProvisionInv, SendsCarryTheDocument, Sending
<1> QED
  BY <1>2, <1>3 DEF ProvisionInv

LEMMA ComputedType ==
  ASSUME ProvisionTypeOK, NEW next \in {"save", "saveAndSend"}
  PROVE  /\ Computed(next) \in JobType /\ Computed(next).payload \in Payloads
         /\ Computed(next).step = next
BY DEF ProvisionTypeOK, Computed, JobType, JobSteps, Payloads

LEMMA ComputeStep ==
  ASSUME ProvisionInv, NEW j \in Jobs, NEW next \in {"save", "saveAndSend"}, Compute(j, next)
  PROVE  ProvisionInv'
<1>1. /\ Computed(next) \in JobType /\ Computed(next).payload \in Payloads
      /\ Computed(next).step = next
  BY ComputedType DEF ProvisionInv
<1>2. ProvisionTypeOK'
  BY <1>1 DEF ProvisionInv, ProvisionTypeOK, Compute, JobType
<1> QED
  BY <1>1, <1>2, Quiet DEF Compute

LEMMA RestartStep ==
  ASSUME ProvisionInv, Restart
  PROVE  ProvisionInv'
<1>1. PICK next \in {"save", "saveAndSend"} :
        job' = [j \in Jobs |-> IF j = Startup THEN Computed(next) ELSE Resting]
  BY DEF Restart
<1>2. /\ Computed(next) \in JobType /\ Computed(next).payload \in Payloads
      /\ Computed(next).step = next
  BY ComputedType DEF ProvisionInv
<1>3. ProvisionTypeOK'
  BY <1>1, <1>2, RestingIdle DEF ProvisionInv, ProvisionTypeOK, Restart, JobType
<1>4. \A j \in Jobs : /\ ~Sending(j)'
                      /\ Saving(j)' => job'[j].payload \in Payloads
  BY <1>1, <1>2, RestingIdle DEF Sending, Saving
<1>5. JobsHavePayloads'
  BY <1>4 DEF JobsHavePayloads
<1>6. SendsCarryTheDocument'
  BY <1>4 DEF ProvisionInv, SendsCarryTheDocument, Sending, Restart
<1> QED
  BY <1>3, <1>5, <1>6 DEF ProvisionInv

LEMMA ReadStep ==
  ASSUME ProvisionInv, NEW j \in Jobs, ReadForSending(j)
  PROVE  ProvisionInv'
<1> DEFINE s == IF Complete THEN [step |-> "call", payload |-> document.payload] ELSE Resting
<1>1. document.payload \in Payloads
  BY DEF ProvisionInv, ProvisionTypeOK, ReadForSending
<1>2. /\ s \in JobType /\ s.step \in {"call", "idle"}
      /\ s.step = "call" => s.payload = document.payload
  BY <1>1, RestingIdle DEF JobType, JobSteps
<1>3. job' = [job EXCEPT ![j] = s] /\ UNCHANGED <<mapped, charges, month, document, ledger, overlap>>
  BY DEF ReadForSending
<1> HIDE DEF s
<1>4. ProvisionTypeOK'
  BY <1>2, <1>3 DEF ProvisionInv, ProvisionTypeOK, JobType
<1> QED
  BY <1>1, <1>2, <1>3, <1>4, Quiet

LEMMA EndStep ==
  ASSUME ProvisionInv, NEW j \in Jobs, job' = [job EXCEPT ![j] = Resting],
         UNCHANGED <<mapped, charges, month, document, ledger, overlap>>
  PROVE  ProvisionInv'
<1>1. ProvisionTypeOK'
  BY RestingIdle DEF ProvisionInv, ProvisionTypeOK, JobType
<1> QED
  BY <1>1, RestingIdle, Quiet

\* The document changes behind the back of every send that is under way.
LEMMA SaveStep ==
  ASSUME ProvisionInv, NEW j \in Jobs, Save(j)
  PROVE  ProvisionInv'
<1> DEFINE s == [step |-> IF job[j].step \in {"save", "create"} THEN "idle" ELSE "send",
                 payload |-> Absent]
           sync == IF FoundNone(j) THEN document.sync ELSE "NOT_SYNCED"
<1>0. job \in [Jobs -> JobType]
  BY DEF ProvisionInv, ProvisionTypeOK, JobType
<1>1. /\ job[j].payload \in Payloads /\ job' = [job EXCEPT ![j] = s]
      /\ document' = [payload |-> job[j].payload, sync |-> sync]
      /\ overlap' = \/ \E other \in Jobs \ {j} : Sending(other)
                    \/ FoundNone(j) /\ document.sync = "SYNCED"
      /\ UNCHANGED <<mapped, charges, month, ledger>>
  BY DEF Save, Saved, FoundNone, Saving, ProvisionInv, JobsHavePayloads
<1>2. s \in JobType /\ s.step \in {"idle", "send"}
  BY DEF JobType, JobSteps
<1>d. sync \in {"NOT_SYNCED", "SYNCED", "FAILED"}
  BY DEF ProvisionInv, ProvisionTypeOK
<1>e. sync = "SYNCED" => overlap'
  BY <1>1
<1> HIDE DEF s, sync
<1>3. job'[j] = s /\ \A k \in Jobs : k # j => job'[k] = job[k]
  BY <1>0, <1>1
<1>4. ProvisionTypeOK'
  <2>1. overlap' \in BOOLEAN
    BY <1>1
  <2>2. document' \in [payload : Payloads \cup {Absent}, sync : {"NOT_SYNCED", "SYNCED", "FAILED"}]
    BY <1>1, <1>d
  <2> QED
    BY <1>0, <1>1, <1>2, <2>1, <2>2 DEF ProvisionInv, ProvisionTypeOK, JobType
<1>5. JobsHavePayloads'
  BY <1>2, <1>3 DEF ProvisionInv, JobsHavePayloads, Sending, Saving
<1>6. ~overlap' => \A k \in Jobs : ~Sending(k)'
  BY <1>1, <1>2, <1>3 DEF Sending
<1>7. ~overlap' => document'.sync # "SYNCED"
  BY <1>1, <1>e
<1>8. SendsCarryTheDocument'
  BY <1>6, <1>7 DEF SendsCarryTheDocument, Sending
<1> QED
  BY <1>4, <1>5, <1>8 DEF ProvisionInv

\* A job that has found no document goes on with its payload.
LEMMA FindStep ==
  ASSUME ProvisionInv, NEW j \in Jobs, FindNone(j)
  PROVE  ProvisionInv'
<1>0. job \in [Jobs -> JobType] /\ job[j].payload \in Payloads
  BY DEF ProvisionInv, ProvisionTypeOK, JobType, FindNone, JobsHavePayloads, Saving
<1>1. PICK step \in {"create", "createAndSend"} : Step(j, step)
  BY DEF FindNone
<1> DEFINE s == [job[j] EXCEPT !.step = step]
<1>2. /\ s \in JobType /\ s.step = step /\ s.payload = job[j].payload
      /\ job' = [job EXCEPT ![j] = s]
  BY <1>0, <1>1 DEF Step, JobType, JobSteps
<1>3. UNCHANGED <<mapped, charges, month, document, ledger, overlap>>
  BY DEF FindNone
<1> HIDE DEF s
<1>4. ProvisionTypeOK'
  BY <1>2, <1>3 DEF ProvisionInv, ProvisionTypeOK, JobType
<1> QED
  BY <1>0, <1>2, <1>3, <1>4, Quiet

LEMMA CallStep ==
  ASSUME ProvisionInv, NEW j \in Jobs, Call(j)
  PROVE  ProvisionInv'
<1>0. job \in [Jobs -> JobType] /\ job[j].payload \in Payloads /\ Sending(j)
  BY DEF ProvisionInv, ProvisionTypeOK, JobType, Call, JobsHavePayloads, Sending
<1>1. /\ ledger' = ledger \/ ledger' = job[j].payload.charges
      /\ UNCHANGED <<mapped, charges, month, document, overlap>>
      /\ \A k \in Jobs : k # j => job'[k] = job[k]
  BY <1>0 DEF Call, Step
<1>2. job' \in [Jobs -> JobType]
  BY <1>0, RestingIdle DEF Call, Step, JobType, JobSteps
<1>3. \/ job'[j].step = "accepted" /\ job'[j].payload = job[j].payload
         /\ ledger' = job[j].payload.charges
      \/ job'[j].step = "rejected" /\ job'[j].payload = job[j].payload
      \/ job'[j].step = "idle"
  BY <1>0, RestingIdle DEF Call, Step, JobType
<1>4. ProvisionTypeOK'
  BY <1>0, <1>1, <1>2 DEF ProvisionInv, ProvisionTypeOK, JobType, Payloads
<1>5. JobsHavePayloads'
  BY <1>0, <1>1, <1>3 DEF ProvisionInv, JobsHavePayloads, Sending, Saving
<1>6. SendsCarryTheDocument'
  <2>1. ~overlap => job[j].payload = document.payload
    BY <1>0 DEF ProvisionInv, SendsCarryTheDocument
  <2> QED
    BY <1>1, <1>3, <2>1 DEF ProvisionInv, SendsCarryTheDocument, Sending
<1> QED
  BY <1>4, <1>5, <1>6 DEF ProvisionInv

LEMMA MarkSentStep ==
  ASSUME ProvisionInv, NEW j \in Jobs, Mark(j)
  PROVE  ProvisionInv'
<1>0. job \in [Jobs -> JobType]
  BY DEF ProvisionInv, ProvisionTypeOK, JobType
<1> DEFINE sync == IF job[j].step = "accepted" THEN "SYNCED" ELSE "FAILED"
<1>1. /\ document' = [document EXCEPT !.sync = sync] /\ job' = [job EXCEPT ![j] = Resting]
      /\ UNCHANGED <<mapped, charges, month, ledger, overlap>>
  BY DEF Mark
<1>2. document \in [payload : Payloads \cup {Absent}, sync : {"NOT_SYNCED", "SYNCED", "FAILED"}]
  BY DEF ProvisionInv, ProvisionTypeOK
<1>3. document'.payload = document.payload /\ (document'.sync = "SYNCED" => job[j].step = "accepted")
  BY <1>1, <1>2
<1>4. job'[j].step = "idle" /\ \A k \in Jobs : k # j => job'[k] = job[k]
  BY <1>0, <1>1, RestingIdle
<1>5. ProvisionTypeOK'
  BY <1>0, <1>1, <1>2, RestingIdle DEF ProvisionInv, ProvisionTypeOK, JobType
<1>6. JobsHavePayloads'
  BY <1>4 DEF ProvisionInv, JobsHavePayloads, Sending, Saving
<1>7. SendsCarryTheDocument'
  BY <1>1, <1>3, <1>4 DEF ProvisionInv, SendsCarryTheDocument, Sending
<1> QED
  BY <1>5, <1>6, <1>7 DEF ProvisionInv

LEMMA ProvisionInvStep == ProvisionInv /\ [ProvisionNext]_provisionVars => ProvisionInv'
<1> SUFFICES ASSUME ProvisionInv, [ProvisionNext]_provisionVars PROVE ProvisionInv'
  OBVIOUS
<1>j. Scheduled \in Jobs /\ Startup \in Jobs /\ Manual \in Jobs
  BY DEF Jobs
<1>1. CASE Identify \/ Charge \/ MonthPasses \/ UNCHANGED provisionVars
  <2>1. UNCHANGED <<document, ledger, job, overlap>>
    BY <1>1 DEF Identify, Charge, MonthPasses, provisionVars
  <2>2. charges' \in ChargeVersions
    <3>1. charges' = charges \/ (charges' = charges + 1 /\ charges < MaxVersions)
      BY <1>1 DEF Identify, Charge, MonthPasses, provisionVars
    <3>2. charges \in 1..MaxVersions /\ MaxVersions \in Nat
      BY ProvisionAssumption DEF ProvisionInv, ProvisionTypeOK, ChargeVersions
    <3> QED
      BY <3>1, <3>2 DEF ChargeVersions
  <2>3. mapped' \in BOOLEAN /\ month' \in {"current", "previous", "older"}
    BY <1>1 DEF ProvisionInv, ProvisionTypeOK, Identify, Charge, MonthPasses, provisionVars
  <2>4. ProvisionTypeOK'
    BY <2>1, <2>2, <2>3 DEF ProvisionInv, ProvisionTypeOK
  <2> QED
    BY <2>1, <2>4 DEF ProvisionInv, JobsHavePayloads, SendsCarryTheDocument, Sending, Saving
<1>2. CASE Prepare \/ FinalRun \/ Recalculate
  BY <1>j, <1>2, ComputeStep DEF Prepare, FinalRun, Recalculate
<1>3. CASE Restart
  BY <1>3, RestartStep
<1>4. CASE RetryPrevious \/ SendByHand
  BY <1>j, <1>4, ReadStep DEF RetryPrevious, SendByHand
<1>5. ASSUME NEW j \in Jobs, Advance(j) \/ Fail(j) PROVE ProvisionInv'
  <2>1. CASE SendAfterSave(j)
    BY <2>1, ReadStep, EndStep DEF SendAfterSave
  <2>2. CASE Fail(j)
    BY <2>2, EndStep DEF Fail
  <2> QED
    BY <1>5, <2>1, <2>2, FindStep, SaveStep, CallStep, MarkSentStep DEF Advance
<1> QED
  BY <1>1, <1>2, <1>3, <1>4, <1>5 DEF ProvisionNext

LEMMA ProvisionInvariant == ProvisionSpec => []ProvisionInv
BY ProvisionInvInit, ProvisionInvStep, PTL DEF ProvisionSpec

\* Documents and jobs keep their types, whichever jobs run side by side.
THEOREM ProvisionTypeCorrect == ProvisionSpec => []ProvisionTypeOK
<1>1. ProvisionInv => ProvisionTypeOK
  BY DEF ProvisionInv
<1> QED
  BY <1>1, ProvisionInvariant, PTL

\* A mark that no save has crossed tells the truth, however many sends of the document
\* overlap and whatever answers are lost.
THEOREM MarkTellsTheTruth == ProvisionSpec => []SyncedMatchesUnlessOverlap
<1>1. ProvisionInv => SyncedMatchesUnlessOverlap
  BY DEF ProvisionInv, SendsCarryTheDocument, SyncedMatchesUnlessOverlap
<1> QED
  BY <1>1, ProvisionInvariant, PTL
=============================================================================
