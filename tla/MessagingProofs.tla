--------------------------- MODULE MessagingProofs ---------------------------
(***************************************************************************)
(* What the statuses of the queue of notifications are worth, for any      *)
(* number of messages, attempts and restarts: the worker holds rows that   *)
(* are PROCESSING, which nobody else touches, and from there follows what  *)
(* it may say of them.  And of a broadcast, for any number of requests,    *)
(* recipients and retries: it is stored once, and the row of a recipient   *)
(* and his message change together.                                        *)
(***************************************************************************)
EXTENDS NotificationQueue, ChatBroadcast, FiniteSetTheorems, WellFoundedInduction, TLAPS

-----------------------------------------------------------------------------
(* NotificationQueue *)

Deliveries == [Messages -> DeliveryType]

ProviderType == [got : SUBSET Messages, textless : SUBSET Messages, twice : SUBSET Messages,
                 unmarked : SUBSET Messages, behind : SUBSET Messages]

Held == worker.group \cup ({worker.row} \ {None})

HoldsProcessing ==
    /\ worker.step \in {"idle", "reading"} => worker.row = None /\ worker.group = {}
    /\ worker.step \notin {"idle", "reading"} => worker.row \in Messages
    /\ worker.step = "claimed" => worker.group = {}
    /\ worker.step \notin {"idle", "reading", "claimed"} => worker.row \in worker.group
    /\ \A m \in Held : delivery[m].status = "PROCESSING"
    /\ worker.unread \subseteq worker.group

\* A row outside the worker's hands has one attempt fewer than it may get to.
AttemptsLeft ==
    \A m \in Messages :
        delivery[m].attempts <= MaxAttempts + crashes - (IF m = worker.row THEN 0 ELSE 1)

TakenBefore == \A m \in Messages : delivery[m].status = "PROCESSING" => delivery[m].taken

NotStarted == \A m \in Messages : m > chat.started => delivery[m].status = "none"

\* What a digest leaves out is behind the mark, and an answer is about what was sent.
GroupAccounted ==
    /\ worker.step \in {"prepared", "accepted"} =>
          worker.group \ worker.unread \subseteq provider.behind
    /\ worker.step = "accepted" => worker.unread \subseteq Announced

SentAccounted == \A m \in WithStatus("SENT") : m \in Announced \cup provider.behind

\* A text is left out only for as many others, or because of a long one.
LeftOut ==
    provider.textless # {} => Cardinality(provider.got) >= Shown \/ Announced \cap Long # {}

\* What was announced, by digests that could all be marked, is marked or about to be.
GotIsMarked ==
    \A m \in Announced \ provider.unmarked :
        \/ delivery[m].status = "SENT"
        \/ worker.step = "accepted" /\ m \in worker.unread

SoonEnough ==
    \A m \in Messages : delivery[m].status = "PENDING" /\ ~delivery[m].taken =>
                            delivery[m].due <= delivery[m].latest

QueueInv ==
    /\ TypeOK
    /\ HoldsProcessing /\ AttemptsLeft /\ TakenBefore /\ NotStarted /\ SoonEnough
    /\ GroupAccounted /\ GotIsMarked /\ SentAccounted /\ RepeatedOnlyUnmarked /\ LeftOut

-----------------------------------------------------------------------------
(* Rows *)

LEMMA NowhereType ==
  ASSUME NEW status \in {"none", "SENT", "SKIPPED", "FAILED", "PENDING"}
  PROVE  Nowhere(status) \in DeliveryType
<1>1. 0 \in 0..(MaxAttempts + MaxCrashes) /\ 0 \in 0..(DigestDelay + MaxDigestDelay + MaxBackoff)
      /\ 0 \in 0..MaxDigestDelay
  BY QueueAssumption
<1> QED
  BY <1>1 DEF Nowhere, DeliveryType

LEMMA EndedType ==
  ASSUME TypeOK, NEW rows, NEW status \in {"SENT", "SKIPPED", "FAILED"}
  PROVE  /\ Ended(rows, status) \in Deliveries
         /\ \A m \in Messages : Ended(rows, status)[m] = IF m \in rows THEN Nowhere(status)
                                                        ELSE delivery[m]
<1>1. \A m \in Messages : delivery[m] \in DeliveryType
  BY DEF TypeOK
<1> QED
  BY <1>1, NowhereType DEF Ended, Deliveries

LEMMA RevivedType ==
  ASSUME TypeOK, NEW rows
  PROVE  /\ Revived(rows) \in Deliveries
         /\ \A m \in Messages : Revived(rows)[m] =
                IF m \in rows THEN [delivery[m] EXCEPT !.status = "PENDING", !.aged = FALSE]
                ELSE delivery[m]
<1> DEFINE e(m) == [delivery[m] EXCEPT !.status = "PENDING", !.aged = FALSE]
<1>1. \A m \in Messages : delivery[m] \in DeliveryType /\ e(m) \in DeliveryType
  <2>1. \A m \in Messages : delivery[m] \in DeliveryType
    BY DEF TypeOK
  <2>2. ASSUME NEW m \in Messages PROVE e(m) \in DeliveryType
    BY <2>1 DEF DeliveryType
  <2> QED
    BY <2>1, <2>2
<1>2. Revived(rows) = [m \in Messages |-> IF m \in rows THEN e(m) ELSE delivery[m]]
  BY DEF Revived
<1>3. \A m \in Messages : Revived(rows)[m] = IF m \in rows THEN e(m) ELSE delivery[m]
  BY <1>2
<1> HIDE DEF e
<1>4. Revived(rows) \in Deliveries
  BY <1>1, <1>2 DEF Deliveries
<1> USE DEF e
<1> QED
  BY <1>3, <1>4

LEMMA TakenType ==
  ASSUME TypeOK, NEW rows
  PROVE  /\ Taken(rows) \in Deliveries
         /\ \A m \in Messages : Taken(rows)[m] =
                IF m \in rows
                THEN [delivery[m] EXCEPT !.status = "PROCESSING", !.aged = FALSE, !.taken = TRUE]
                ELSE delivery[m]
<1> DEFINE e(m) == [delivery[m] EXCEPT !.status = "PROCESSING", !.aged = FALSE, !.taken = TRUE]
<1>1. \A m \in Messages : delivery[m] \in DeliveryType /\ e(m) \in DeliveryType
  <2>1. \A m \in Messages : delivery[m] \in DeliveryType
    BY DEF TypeOK
  <2>2. ASSUME NEW m \in Messages PROVE e(m) \in DeliveryType
    BY <2>1 DEF DeliveryType
  <2> QED
    BY <2>1, <2>2
<1>2. Taken(rows) = [m \in Messages |-> IF m \in rows THEN e(m) ELSE delivery[m]]
  BY DEF Taken
<1>3. \A m \in Messages : Taken(rows)[m] = IF m \in rows THEN e(m) ELSE delivery[m]
  BY <1>2
<1> HIDE DEF e
<1>4. Taken(rows) \in Deliveries
  BY <1>1, <1>2 DEF Deliveries
<1> USE DEF e
<1> QED
  BY <1>3, <1>4

LEMMA BackoffType == ASSUME NEW n PROVE Backoff(n) \in 0..MaxBackoff
BY QueueAssumption DEF Backoff

LEMMA RetriedType ==
  ASSUME TypeOK, NEW rows, NEW n
  PROVE  /\ Retried(rows, n) \in Deliveries
         /\ \A m \in Messages :
               /\ m \notin rows => Retried(rows, n)[m] = delivery[m]
               /\ m \in rows => /\ Retried(rows, n)[m].status = "PENDING"
                               /\ Retried(rows, n)[m].attempts = delivery[m].attempts
                               /\ Retried(rows, n)[m].taken = delivery[m].taken
<1>1. Backoff(n) \in 0..(DigestDelay + MaxDigestDelay + MaxBackoff)
  BY BackoffType, QueueAssumption
<1> DEFINE e(m) == [delivery[m] EXCEPT !.status = "PENDING", !.due = Backoff(n), !.aged = FALSE]
<1>2. \A m \in Messages : delivery[m] \in DeliveryType /\ e(m) \in DeliveryType
  <2>1. \A m \in Messages : delivery[m] \in DeliveryType
    BY DEF TypeOK
  <2>2. ASSUME NEW m \in Messages PROVE e(m) \in DeliveryType
    BY <1>1, <2>1 DEF DeliveryType
  <2> QED
    BY <2>1, <2>2
<1>3. Retried(rows, n) = [m \in Messages |-> IF m \in rows THEN e(m) ELSE delivery[m]]
  BY DEF Retried
<1>4. \A m \in Messages : Retried(rows, n)[m] = IF m \in rows THEN e(m) ELSE delivery[m]
  BY <1>3
<1> HIDE DEF e
<1>5. Retried(rows, n) \in Deliveries
  BY <1>2, <1>3 DEF Deliveries
<1>6. \A m \in Messages : /\ e(m).status = "PENDING" /\ e(m).attempts = delivery[m].attempts
                          /\ e(m).taken = delivery[m].taken
  BY <1>2 DEF e, DeliveryType
<1> QED
  BY <1>4, <1>5, <1>6

-----------------------------------------------------------------------------
(* When a digest is due *)

Below == {p \in Nat \X Nat : p[1] < p[2]}

LEMMA BelowWellFounded == IsWellFoundedOn(Below, Nat)
<1>1. Below = OpToRel(<, Nat)
  BY DEF Below, OpToRel
<1> QED
  BY <1>1, NatLessThanWellFounded

LEMMA MinOfNats ==
  ASSUME NEW S \in SUBSET Nat, S # {}
  PROVE  Min(S) \in S /\ \A y \in S : Min(S) <= y
<1>1. PICK x \in S : \A y \in S : <<y, x>> \notin Below
  BY BelowWellFounded, WFMin
<1>2. ASSUME NEW y \in S PROVE x <= y
  <2>1. <<y, x>> \in Nat \X Nat /\ x \in Nat /\ y \in Nat
    OBVIOUS
  <2>2. ~(y < x)
    BY <1>1, <2>1 DEF Below
  <2> QED
    BY <2>1, <2>2
<1> QED
  BY <1>2 DEF Min

\* One more message never puts the digest behind the latest time of any of them.
LEMMA DueType ==
  ASSUME TypeOK
  PROVE  /\ DueAfterOneMore \in 0..DigestDelay
         /\ \A p \in Pending : DueAfterOneMore <= delivery[p].latest
<1>1. CASE Pending = {}
  BY <1>1, QueueAssumption DEF DueAfterOneMore
<1>2. CASE Pending # {}
  <2> DEFINE S == {delivery[p].latest : p \in Pending}
  <2>0. \A p \in Pending : delivery[p].latest \in Nat
    BY QueueAssumption DEF TypeOK, DeliveryType, Pending, WithStatus
  <2>1. S \in SUBSET Nat /\ S # {}
    BY <1>2, <2>0
  <2>2. Min(S) \in Nat /\ \A p \in Pending : Min(S) <= delivery[p].latest
    <3> HIDE DEF S
    <3>1. Min(S) \in S /\ \A y \in S : Min(S) <= y
      BY <2>1, MinOfNats
    <3>2. \A p \in Pending : delivery[p].latest \in S
      BY DEF S
    <3> QED
      BY <2>1, <3>1, <3>2
  <2>3. DueAfterOneMore = Least(DigestDelay, Min(S))
    BY <1>2 DEF DueAfterOneMore
  <2>4. DigestDelay \in Nat
    BY QueueAssumption
  <2> HIDE DEF S
  <2> QED
    BY <2>0, <2>2, <2>3, <2>4 DEF Least
<1> QED
  BY <1>1, <1>2

-----------------------------------------------------------------------------
(* Types *)

LEMMA EnqueueType ==
  ASSUME TypeOK, NEW m \in Messages, EnqueueChat(m), delivery[m].status = "started"
  PROVE  /\ delivery' \in Deliveries
         /\ delivery'[m].status \in {"PENDING", "SKIPPED"} /\ delivery'[m].attempts = 0
         /\ delivery'[m].due <= delivery'[m].latest
         /\ \A n \in Messages \ {m} :
               /\ delivery'[n].status = delivery[n].status
               /\ delivery'[n].attempts = delivery[n].attempts
               /\ delivery'[n].taken = delivery[n].taken
               /\ delivery'[n].latest = delivery[n].latest
               /\ delivery'[n].due \in {delivery[n].due, DueAfterOneMore}
               /\ delivery'[n].due # delivery[n].due => n \in Pending
<1> DEFINE due == DueAfterOneMore
           new == [Nowhere("PENDING") EXCEPT !.due = due, !.latest = MaxDigestDelay]
           put(n) == [delivery[n] EXCEPT !.due = due]
<1>0. \A n \in Messages : delivery[n] \in DeliveryType
  BY DEF TypeOK
<1>1. due \in 0..(DigestDelay + MaxDigestDelay + MaxBackoff) /\ MaxDigestDelay \in 0..MaxDigestDelay
      /\ due <= MaxDigestDelay
  BY DueType, QueueAssumption
<1>2. /\ new \in DeliveryType /\ new.status = "PENDING" /\ new.attempts = 0
      /\ new.due = due /\ new.latest = MaxDigestDelay
  <2>1. Nowhere("PENDING") \in DeliveryType
    BY NowhereType
  <2> HIDE DEF due
  <2> QED
    BY <1>1, <2>1 DEF DeliveryType, Nowhere
<1>3. ASSUME NEW n \in Messages
      PROVE  /\ put(n) \in DeliveryType /\ put(n).status = delivery[n].status
             /\ put(n).attempts = delivery[n].attempts /\ put(n).taken = delivery[n].taken
             /\ put(n).latest = delivery[n].latest /\ put(n).due = due
  <2> HIDE DEF due
  <2> QED
    BY <1>0, <1>1 DEF DeliveryType
<1>4. CASE link = "enabled"
  <2>1. delivery' = [n \in Messages |-> IF n = m THEN new
                                        ELSE IF n \in Pending THEN put(n) ELSE delivery[n]]
    BY <1>4 DEF EnqueueChat
  <2> HIDE DEF new, put
  <2>2. delivery' \in Deliveries
    BY <1>0, <1>2, <1>3, <2>1 DEF Deliveries
  <2>3. delivery'[m] = new /\ \A n \in Messages \ {m} :
           delivery'[n] = IF n \in Pending THEN put(n) ELSE delivery[n]
    BY <2>1
  <2> QED
    BY <1>1, <1>2, <1>3, <2>2, <2>3
<1>5. CASE link # "enabled"
  <2>1. delivery' = [delivery EXCEPT ![m] = Nowhere("SKIPPED")]
    BY <1>5 DEF EnqueueChat
  <2>2. Nowhere("SKIPPED") \in DeliveryType
    BY NowhereType
  <2>3. delivery' \in Deliveries
    BY <2>1, <2>2 DEF TypeOK, Deliveries
  <2>4. delivery'[m] = Nowhere("SKIPPED") /\ \A n \in Messages \ {m} : delivery'[n] = delivery[n]
    BY <2>1 DEF TypeOK
  <2> QED
    BY <2>3, <2>4 DEF Nowhere
<1> QED
  BY <1>4, <1>5

LEMMA TickType ==
  ASSUME TypeOK, Tick
  PROVE  /\ delivery' \in Deliveries
         /\ \A m \in Messages :
               /\ delivery'[m].status = delivery[m].status
               /\ delivery'[m].attempts = delivery[m].attempts
               /\ delivery'[m].taken = delivery[m].taken
               /\ delivery'[m].due = Earlier(delivery[m].due)
               /\ delivery'[m].latest = Earlier(delivery[m].latest)
<1> DEFINE e(m) == [delivery[m] EXCEPT !.due = Earlier(@), !.latest = Earlier(@),
                                      !.aged = @ \/ delivery[m].status = "PROCESSING"]
<1>0. \A m \in Messages : delivery[m] \in DeliveryType
  BY DEF TypeOK
<1>1. ASSUME NEW m \in Messages
      PROVE  /\ e(m) \in DeliveryType
             /\ e(m).status = delivery[m].status /\ e(m).attempts = delivery[m].attempts
             /\ e(m).taken = delivery[m].taken
             /\ e(m).due = Earlier(delivery[m].due) /\ e(m).latest = Earlier(delivery[m].latest)
  <2> DEFINE aged == delivery[m].aged \/ delivery[m].status = "PROCESSING"
  <2>1. /\ Earlier(delivery[m].due) \in 0..(DigestDelay + MaxDigestDelay + MaxBackoff)
        /\ Earlier(delivery[m].latest) \in 0..MaxDigestDelay
    BY <1>0, QueueAssumption DEF DeliveryType, Earlier
  <2>2. aged \in BOOLEAN
    OBVIOUS
  <2>3. e(m) = [delivery[m] EXCEPT !.due = Earlier(delivery[m].due),
                                   !.latest = Earlier(delivery[m].latest), !.aged = aged]
    BY <1>0 DEF DeliveryType
  <2> HIDE DEF aged, e
  <2> QED
    BY <1>0, <2>1, <2>2, <2>3 DEF DeliveryType
<1>2. delivery' = [m \in Messages |-> e(m)]
  BY DEF Tick
<1> HIDE DEF e
<1> QED
  BY <1>1, <1>2 DEF Deliveries

-----------------------------------------------------------------------------
(* What is not the worker *)

Others ==
    \A m \in Messages :
        \/ /\ delivery'[m].status = delivery[m].status
           /\ delivery'[m].attempts = delivery[m].attempts
           /\ delivery'[m].taken = delivery[m].taken
        \/ /\ delivery[m].status \in {"none", "started", "PENDING"}
           /\ delivery'[m].status \in {"started", "PENDING", "SKIPPED"}
           /\ delivery'[m].attempts \in {0, delivery[m].attempts}

LEMMA OthersStep ==
  ASSUME QueueInv, TypeOK', SoonEnough', NotStarted', Others,
         UNCHANGED <<worker, crashes, provider>>
  PROVE  QueueInv'
<1>0. /\ TypeOK /\ HoldsProcessing /\ AttemptsLeft /\ TakenBefore /\ GroupAccounted /\ GotIsMarked
      /\ SentAccounted /\ RepeatedOnlyUnmarked /\ LeftOut
  BY DEF QueueInv
<1>1. HoldsProcessing'
  <2>1. Held \subseteq Messages
    BY <1>0 DEF Held, TypeOK
  <2>2. \A m \in Held : delivery'[m].status = "PROCESSING"
    BY <1>0, <2>1 DEF HoldsProcessing, Others
  <2>3. Held' = Held
    BY DEF Held
  <2> QED
    BY <1>0, <2>2, <2>3 DEF HoldsProcessing
<1>2. AttemptsLeft'
  <2>1. crashes \in Nat /\ MaxAttempts \in Nat \ {0}
    BY <1>0, QueueAssumption DEF TypeOK
  <2> QED
    BY <1>0, <2>1 DEF AttemptsLeft, Others
<1>3. TakenBefore'
  BY <1>0 DEF TakenBefore, Others
<1>4. GroupAccounted'
  BY <1>0 DEF GroupAccounted, Announced
<1>5. GotIsMarked'
  <2>1. Announced \subseteq Messages
    BY <1>0 DEF TypeOK, Announced
  <2> QED
    BY <1>0, <2>1 DEF GotIsMarked, Announced, Others
<1>6. SentAccounted'
  BY <1>0 DEF SentAccounted, Announced, WithStatus, Others
<1>7. RepeatedOnlyUnmarked' /\ LeftOut'
  BY <1>0 DEF RepeatedOnlyUnmarked, LeftOut, Announced
<1> QED
  BY <1>1, <1>2, <1>3, <1>4, <1>5, <1>6, <1>7 DEF QueueInv

LEMMA ChatStep ==
  ASSUME QueueInv,
         \/ Connect \/ Disable \/ Disconnect \/ StartMessage
         \/ (\E m \in Messages : CommitMessage(m)) \/ MarkRead \/ WriteToStaff \/ Tick
  PROVE  QueueInv'
<1>0. /\ TypeOK /\ SoonEnough /\ NotStarted
      /\ delivery \in Deliveries /\ \A m \in Messages : delivery[m] \in DeliveryType
      /\ chat \in [started : 0..MaxMessages, read : 0..MaxMessages] /\ MaxMessages \in Nat
  BY QueueAssumption DEF QueueInv, TypeOK, Deliveries, ProviderType
<1>1. CASE Connect \/ Disable \/ MarkRead \/ WriteToStaff
  <2>1. /\ UNCHANGED <<delivery, worker, crashes, provider>>
        /\ chat'.started = chat.started /\ link' \in {"none", "enabled", "disabled"}
    BY <1>0, <1>1 DEF Connect, Disable, MarkRead, WriteToStaff, TypeOK
  <2>2. chat' \in [started : 0..MaxMessages, read : 0..MaxMessages]
    BY <1>0, <1>1 DEF Connect, Disable, MarkRead, WriteToStaff
  <2>3. TypeOK' /\ SoonEnough' /\ NotStarted' /\ Others
    BY <1>0, <2>1, <2>2 DEF TypeOK, SoonEnough, NotStarted, Others
  <2> QED
    BY <2>1, <2>3, OthersStep
<1>2. CASE Disconnect
  <2>1. /\ delivery' = Ended(Pending, "SKIPPED") /\ link' = "none"
        /\ UNCHANGED <<chat, worker, crashes, provider>>
    BY <1>2 DEF Disconnect
  <2>2. /\ delivery' \in Deliveries
        /\ \A m \in Messages : delivery'[m] = IF m \in Pending THEN Nowhere("SKIPPED") ELSE delivery[m]
    BY <1>0, <2>1, EndedType
  <2>3. TypeOK'
    BY <1>0, <2>1, <2>2 DEF TypeOK, Deliveries
  <2>4. Others
    BY <2>2 DEF Others, Pending, WithStatus, Nowhere
  <2>5. SoonEnough' /\ NotStarted'
    BY <1>0, <2>1, <2>2 DEF SoonEnough, NotStarted, Pending, WithStatus, Nowhere
  <2> QED
    BY <2>1, <2>3, <2>4, <2>5, OthersStep
<1>3. CASE StartMessage
  <2> DEFINE m == chat.started + 1
  <2>1. /\ chat.started < MaxMessages /\ chat' = [chat EXCEPT !.started = m]
        /\ delivery' = [delivery EXCEPT ![m].status = "started"]
        /\ UNCHANGED <<link, worker, crashes, provider>>
    BY <1>3 DEF StartMessage
  <2>2. m \in Messages /\ m > chat.started
    BY <1>0, <2>1 DEF Messages
  <2>3. delivery[m].status = "none"
    BY <1>0, <2>2 DEF NotStarted
  <2>4. chat' \in [started : 0..MaxMessages, read : 0..MaxMessages] /\ chat'.started = m
    BY <1>0, <2>1
  <2> HIDE DEF m
  <2>5. [delivery[m] EXCEPT !.status = "started"] \in DeliveryType
    BY <1>0, <2>2 DEF DeliveryType
  <2>6. delivery' = [delivery EXCEPT ![m] = [delivery[m] EXCEPT !.status = "started"]]
    BY <2>1
  <2>7. /\ delivery' \in Deliveries /\ delivery'[m] = [delivery[m] EXCEPT !.status = "started"]
        /\ \A n \in Messages \ {m} : delivery'[n] = delivery[n]
    BY <1>0, <2>2, <2>5, <2>6 DEF Deliveries
  <2>8. /\ delivery'[m].status = "started" /\ delivery'[m].attempts = delivery[m].attempts
        /\ delivery'[m].taken = delivery[m].taken
    BY <1>0, <2>2, <2>7 DEF DeliveryType
  <2>9. TypeOK'
    BY <1>0, <2>1, <2>4, <2>7 DEF TypeOK, Deliveries
  <2>10. Others
    BY <2>3, <2>7, <2>8 DEF Others
  <2>11. SoonEnough'
    BY <1>0, <2>7, <2>8 DEF SoonEnough
  <2>12. NotStarted'
    <3>1. ASSUME NEW n \in Messages, n > m PROVE n # m /\ n > chat.started
      BY <1>0, <3>1 DEF m, Messages
    <3> QED
      BY <1>0, <2>4, <2>7, <3>1 DEF NotStarted
  <2> QED
    BY <2>1, <2>9, <2>10, <2>11, <2>12, OthersStep
<1>4. ASSUME NEW m \in Messages, CommitMessage(m) PROVE QueueInv'
  <2>1. /\ delivery[m].status = "started" /\ EnqueueChat(m)
        /\ UNCHANGED <<link, chat, worker, crashes, provider>>
    BY <1>4 DEF CommitMessage
  <2>2. /\ delivery' \in Deliveries
        /\ delivery'[m].status \in {"PENDING", "SKIPPED"} /\ delivery'[m].attempts = 0
        /\ delivery'[m].due <= delivery'[m].latest
        /\ \A n \in Messages \ {m} :
              /\ delivery'[n].status = delivery[n].status
              /\ delivery'[n].attempts = delivery[n].attempts
              /\ delivery'[n].taken = delivery[n].taken
              /\ delivery'[n].latest = delivery[n].latest
              /\ delivery'[n].due \in {delivery[n].due, DueAfterOneMore}
              /\ delivery'[n].due # delivery[n].due => n \in Pending
    BY <1>0, <2>1, EnqueueType
  <2>3. TypeOK'
    BY <1>0, <2>1, <2>2 DEF TypeOK, Deliveries
  <2>4. Others
    BY <2>1, <2>2 DEF Others
  <2>5. SoonEnough'
    BY <1>0, <2>2, DueType DEF SoonEnough
  <2>6. NotStarted'
    BY <1>0, <2>1, <2>2 DEF NotStarted
  <2> QED
    BY <2>1, <2>3, <2>4, <2>5, <2>6, OthersStep
<1>5. CASE Tick
  <2>1. UNCHANGED <<link, chat, worker, crashes, provider>>
    BY <1>5 DEF Tick
  <2>2. /\ delivery' \in Deliveries
        /\ \A m \in Messages :
              /\ delivery'[m].status = delivery[m].status
              /\ delivery'[m].attempts = delivery[m].attempts
              /\ delivery'[m].taken = delivery[m].taken
              /\ delivery'[m].due = Earlier(delivery[m].due)
              /\ delivery'[m].latest = Earlier(delivery[m].latest)
    BY <1>0, <1>5, TickType
  <2>3. TypeOK'
    BY <1>0, <2>1, <2>2 DEF TypeOK, Deliveries
  <2>4. Others
    BY <2>2 DEF Others
  <2>5. SoonEnough'
    <3>1. ASSUME NEW t \in Nat, NEW u \in Nat, t <= u PROVE Earlier(t) <= Earlier(u)
      BY <3>1 DEF Earlier
    <3>2. \A m \in Messages : delivery[m].due \in Nat /\ delivery[m].latest \in Nat
      BY <1>0, QueueAssumption DEF DeliveryType
    <3> QED
      BY <1>0, <2>2, <3>1, <3>2 DEF SoonEnough
  <2>6. NotStarted'
    BY <1>0, <2>1, <2>2 DEF NotStarted
  <2> QED
    BY <2>1, <2>3, <2>4, <2>5, <2>6, OthersStep
<1> QED
  BY <1>1, <1>2, <1>3, <1>4, <1>5

-----------------------------------------------------------------------------
(* The worker *)

LEMMA WorkerTypes ==
  ASSUME QueueInv, RunQueue \/ Process \/ Crash PROVE TypeOK'
<1>0. /\ TypeOK /\ HoldsProcessing /\ AttemptsLeft /\ delivery \in Deliveries
      /\ worker \in [step : Steps, batch : SUBSET Messages, row : Messages \cup {None},
                     group : SUBSET Messages, unread : SUBSET Messages]
      /\ provider \in ProviderType
      /\ crashes \in 0..MaxCrashes
      /\ \A m \in Messages : delivery[m] \in DeliveryType
  BY DEF QueueInv, TypeOK, Deliveries, ProviderType
<1> DEFINE WorkerRecord == [step : Steps, batch : SUBSET Messages, row : Messages \cup {None},
                          group : SUBSET Messages, unread : SUBSET Messages]
<1>s. ASSUME delivery' \in Deliveries, worker' \in WorkerRecord, provider' \in ProviderType,
             crashes' \in 0..MaxCrashes, UNCHANGED <<link, chat>>
      PROVE  TypeOK'
  BY <1>0, <1>s DEF TypeOK, Deliveries, ProviderType
<1>n. ASSUME NEW rows \in SUBSET Messages, NextRow(rows) PROVE worker' \in WorkerRecord
  BY <1>n DEF NextRow, Resting, Steps
<1>r. Resting \in WorkerRecord
  BY DEF Resting, Steps
<1>1. CASE RunQueue
  <2>1. /\ delivery' = Revived(Stale) /\ UNCHANGED <<link, chat, crashes, provider>>
    BY <1>1 DEF RunQueue
  <2>2. delivery' \in Deliveries
    BY <1>0, <2>1, RevivedType
  <2>3. worker' \in WorkerRecord
    BY <1>0, <1>1 DEF RunQueue, Steps
  <2> QED
    BY <1>0, <1>s, <2>1, <2>2, <2>3
<1>2. ASSUME NEW m \in Messages, Claim(m) PROVE TypeOK'
  <2>0. UNCHANGED <<link, chat, crashes, provider>> /\ m \in worker.batch /\ worker.row = None
    BY <1>0, <1>2 DEF Claim, HoldsProcessing
  <2>1. CASE m \in Due(Messages)
    <3>1. /\ delivery' = [Taken({m}) EXCEPT ![m].attempts = @ + 1]
          /\ worker' = [worker EXCEPT !.step = "claimed", !.batch = @ \ {m}, !.row = m]
      BY <1>2, <2>1 DEF Claim
    <3>2. worker' \in WorkerRecord
      BY <1>0, <3>1 DEF Steps
    <3>3. Taken({m}) \in Deliveries /\ Taken({m})[m].attempts = delivery[m].attempts
      <4>1. /\ Taken({m}) \in Deliveries
            /\ Taken({m})[m] = [delivery[m] EXCEPT !.status = "PROCESSING", !.aged = FALSE, !.taken = TRUE]
        BY <1>0, TakenType
      <4>2. delivery[m] \in DeliveryType
        BY <1>0
      <4> QED
        BY <4>1, <4>2 DEF DeliveryType
    <3>4. delivery[m].attempts + 1 \in 0..(MaxAttempts + MaxCrashes)
      <4>1. delivery[m].attempts \in Nat
        BY <1>0, QueueAssumption DEF DeliveryType
      <4>3. m # None
        BY QueueAssumption DEF Messages
      <4>2. delivery[m].attempts <= MaxAttempts + crashes - 1
        BY <1>0, <2>0, <4>3 DEF AttemptsLeft
      <4> QED
        BY <1>0, <4>1, <4>2, QueueAssumption
    <3>5. [Taken({m})[m] EXCEPT !.attempts = @ + 1] \in DeliveryType
      BY <3>3, <3>4 DEF Deliveries, DeliveryType
    <3>6. delivery' \in Deliveries
      BY <3>1, <3>3, <3>5 DEF Deliveries
    <3> QED
      BY <1>0, <1>s, <2>0, <3>2, <3>6
  <2>2. CASE m \notin Due(Messages)
    <3>1. delivery' = delivery /\ NextRow(worker.batch \ {m})
      BY <1>2, <2>2 DEF Claim
    <3> QED
      BY <1>0, <1>n, <1>s, <2>0, <3>1
  <2> QED
    BY <2>1, <2>2
<1>3. CASE Gather
  <2>1. delivery' \in Deliveries /\ UNCHANGED <<link, chat, crashes, provider>>
    BY <1>0, <1>3, TakenType DEF Gather
  <2>2. worker' \in WorkerRecord
    BY <1>0, <1>3 DEF Gather, HoldsProcessing, Steps, Due
  <2> QED
    BY <1>0, <1>s, <2>1, <2>2
<1>4. CASE Prepare
  <2>0. UNCHANGED <<link, chat, crashes>>
    BY <1>4 DEF Prepare
  <2>1. CASE link # "enabled" \/ Unread = {}
    <3>1. delivery' = Ended(worker.group, "SKIPPED") /\ NextRow(worker.batch) /\ provider' = provider
      BY <1>4, <2>1 DEF Prepare
    <3> QED
      BY <1>0, <1>n, <1>s, <2>0, <3>1, EndedType
  <2>2. CASE ~(link # "enabled" \/ Unread = {})
    <3>1. /\ worker' = [worker EXCEPT !.step = "prepared", !.unread = Unread]
          /\ provider' = [provider EXCEPT !.behind = @ \cup (worker.group \ Unread)]
          /\ delivery' = delivery
      BY <1>4, <2>2 DEF Prepare
    <3>2. worker' \in WorkerRecord /\ provider' \in ProviderType
      BY <1>0, <3>1 DEF Steps, Unread, ProviderType
    <3> QED
      BY <1>0, <1>s, <2>0, <3>1, <3>2
  <2> QED
    BY <2>1, <2>2
<1>5. CASE Send
  <2>1. UNCHANGED <<link, chat, delivery, crashes>>
    BY <1>5 DEF Send
  <2>2. worker' \in WorkerRecord
    BY <1>0, <1>5 DEF Send, Steps
  <2>3. provider' \in ProviderType
    <3>1. ASSUME NEW text \in Texts(worker.unread), NEW heard, Take(text, heard)
          PROVE  provider' \in ProviderType
      <4>1. text \in SUBSET Messages /\ Announced \in SUBSET Messages
        BY <1>0 DEF Texts, Announced, ProviderType
      <4> DEFINE got == provider.got \cup text
                 textless == (provider.textless \cup worker.unread) \ (provider.got \cup text)
                 twice == provider.twice \cup (worker.unread \cap Announced)
                 unmarked == IF heard THEN provider.unmarked ELSE provider.unmarked \cup worker.unread
      <4>2. provider' = [provider EXCEPT !.got = got, !.textless = textless, !.twice = twice,
                                         !.unmarked = unmarked]
        BY <3>1 DEF Take
      <4>3. /\ got \in SUBSET Messages /\ textless \in SUBSET Messages
            /\ twice \in SUBSET Messages /\ unmarked \in SUBSET Messages
        BY <1>0, <4>1 DEF ProviderType
      <4> HIDE DEF got, textless, twice, unmarked
      <4> QED
        BY <1>0, <4>2, <4>3 DEF ProviderType
    <3> QED
      BY <1>0, <1>5, <3>1 DEF Send
  <2> QED
    BY <1>0, <1>s, <2>1, <2>2, <2>3
<1>6. CASE MarkSent
  <2>1. /\ delivery' = Ended(worker.group, "SENT") /\ NextRow(worker.batch)
        /\ UNCHANGED <<link, chat, crashes, provider>>
    BY <1>6 DEF MarkSent
  <2> QED
    BY <1>0, <1>n, <1>s, <2>1, EndedType
<1>7. CASE Fail
  <2>1. /\ \/ delivery' = Ended(worker.group, "FAILED")
           \/ delivery' = Retried(worker.group, delivery[worker.row].attempts)
        /\ NextRow(worker.batch) /\ UNCHANGED <<link, chat, crashes, provider>>
    BY <1>7 DEF Fail
  <2>2. delivery' \in Deliveries
    <3>1. Ended(worker.group, "FAILED") \in Deliveries
      BY <1>0, EndedType
    <3>2. ASSUME NEW n PROVE Retried(worker.group, n) \in Deliveries
      <4>1. TypeOK
        BY <1>0
      <4> QED
        BY <4>1, RetriedType
    <3>3. Retried(worker.group, delivery[worker.row].attempts) \in Deliveries
      BY <3>2
    <3> QED
      BY <2>1, <3>1, <3>3
  <2> QED
    BY <1>0, <1>n, <1>s, <2>1, <2>2
<1>8. CASE Crash
  <2>1. /\ worker' = Resting /\ UNCHANGED <<link, chat, delivery>>
        /\ crashes' = crashes + 1 /\ crashes < MaxCrashes
    BY <1>8 DEF Crash
  <2>2. crashes' \in 0..MaxCrashes
    BY <1>0, <2>1, QueueAssumption
  <2>3. provider' \in ProviderType
    BY <1>0, <1>8 DEF Crash, Unmark, ProviderType
  <2> QED
    BY <1>0, <1>r, <1>s, <2>1, <2>2, <2>3
<1>9. CASE QueryFails
  <2>1. worker' \in WorkerRecord /\ UNCHANGED <<link, chat, delivery, crashes>>
    BY <1>0, <1>9 DEF QueryFails, Steps
  <2>2. provider' \in ProviderType
    BY <1>0, <1>9 DEF QueryFails, Unmark, ProviderType
  <2> QED
    BY <1>0, <1>s, <2>1, <2>2
<1> QED
  BY <1>1, <1>2, <1>3, <1>4, <1>5, <1>6, <1>7, <1>8, <1>9 DEF Process

\* What a step of the worker leaves of the rows that it has taken out of its hands.
Dropped ==
    /\ worker'.step \in {"idle", "reading"} /\ worker'.row = None
    /\ worker'.group = {} /\ worker'.unread = {}

LEMMA NextRowDrops == ASSUME NEW rows, NextRow(rows) PROVE Dropped
BY DEF NextRow, Resting, Dropped

LEMMA DroppedHolds ==
  ASSUME Dropped PROVE HoldsProcessing' /\ GroupAccounted'
<1>1. Held' = {}
  BY DEF Dropped, Held
<1> QED
  BY <1>1 DEF Dropped, HoldsProcessing, GroupAccounted, Announced

LEMMA RunQueueStep ==
  ASSUME QueueInv, RunQueue, TypeOK' PROVE QueueInv'
<1>0. /\ TypeOK /\ HoldsProcessing /\ AttemptsLeft /\ TakenBefore /\ NotStarted /\ SoonEnough
      /\ GotIsMarked /\ SentAccounted /\ RepeatedOnlyUnmarked /\ LeftOut
      /\ \A m \in Messages : delivery[m] \in DeliveryType
      /\ worker \in [step : Steps, batch : SUBSET Messages, row : Messages \cup {None},
                     group : SUBSET Messages, unread : SUBSET Messages]
      /\ Announced \subseteq Messages
  BY DEF QueueInv, TypeOK, ProviderType, Announced
<1>1. /\ worker.step = "idle" /\ delivery' = Revived(Stale)
      /\ UNCHANGED <<link, chat, crashes, provider>>
      /\ worker'.step = "reading" /\ worker'.row = worker.row /\ worker'.group = worker.group
      /\ worker'.unread = worker.unread
  BY <1>0 DEF RunQueue
<1>2. Dropped
  BY <1>0, <1>1 DEF HoldsProcessing, Dropped
<1>3. \A m \in Messages : delivery'[m] =
        IF m \in Stale THEN [delivery[m] EXCEPT !.status = "PENDING", !.aged = FALSE]
        ELSE delivery[m]
  <2>1. TypeOK /\ delivery' = Revived(Stale)
    BY <1>0, <1>1
  <2> QED
    BY <2>1, RevivedType
<1>4. \A m \in Messages :
        /\ delivery'[m].attempts = delivery[m].attempts /\ delivery'[m].taken = delivery[m].taken
        /\ delivery'[m].due = delivery[m].due /\ delivery'[m].latest = delivery[m].latest
        /\ \/ delivery'[m].status = delivery[m].status
           \/ delivery[m].status = "PROCESSING" /\ delivery'[m].status = "PENDING"
  <2>1. \A m \in Stale : delivery[m].status = "PROCESSING"
    BY DEF Stale, WithStatus
  <2>2. ASSUME NEW m \in Stale, m \in Messages
        PROVE  /\ delivery'[m].attempts = delivery[m].attempts /\ delivery'[m].taken = delivery[m].taken
               /\ delivery'[m].due = delivery[m].due /\ delivery'[m].latest = delivery[m].latest
               /\ delivery'[m].status = "PENDING"
    <3>1. delivery'[m] = [delivery[m] EXCEPT !.status = "PENDING", !.aged = FALSE]
      BY <1>3, <2>2
    <3>2. delivery[m] \in DeliveryType
      BY <1>0, <2>2
    <3> QED
      BY <3>1, <3>2 DEF DeliveryType
  <2>3. \A m \in Messages : m \notin Stale => delivery'[m] = delivery[m]
    BY <1>3
  <2> QED
    BY <2>1, <2>2, <2>3
<1>5. HoldsProcessing' /\ GroupAccounted'
  BY <1>2, DroppedHolds
<1>6. AttemptsLeft' /\ TakenBefore' /\ NotStarted' /\ RepeatedOnlyUnmarked' /\ LeftOut'
  BY <1>0, <1>1, <1>4 DEF AttemptsLeft, TakenBefore, NotStarted, RepeatedOnlyUnmarked, LeftOut, Announced
<1>7. SoonEnough'
  BY <1>0, <1>4 DEF SoonEnough, TakenBefore
<1>8. GotIsMarked'
  BY <1>0, <1>1, <1>4 DEF GotIsMarked, Announced
<1>9. SentAccounted'
  BY <1>0, <1>1, <1>4 DEF SentAccounted, Announced, WithStatus
<1> QED
  BY <1>5, <1>6, <1>7, <1>8, <1>9 DEF QueueInv

LEMMA ClaimStep ==
  ASSUME QueueInv, NEW m \in Messages, Claim(m), TypeOK' PROVE QueueInv'
<1>0. /\ TypeOK /\ HoldsProcessing /\ AttemptsLeft /\ TakenBefore /\ NotStarted /\ SoonEnough
      /\ GotIsMarked /\ SentAccounted /\ RepeatedOnlyUnmarked /\ LeftOut
      /\ \A n \in Messages : delivery[n] \in DeliveryType
      /\ worker \in [step : Steps, batch : SUBSET Messages, row : Messages \cup {None},
                     group : SUBSET Messages, unread : SUBSET Messages]
      /\ Announced \subseteq Messages /\ crashes \in Nat /\ MaxAttempts \in Nat
      /\ m # None
  BY QueueAssumption DEF QueueInv, TypeOK, ProviderType, Announced, Messages
<1>1. /\ worker.step = "reading" /\ worker.row = None /\ worker.group = {} /\ worker.unread = {}
      /\ UNCHANGED <<link, chat, crashes, provider>>
  BY <1>0 DEF Claim, HoldsProcessing
<1>2. CASE m \in Due(Messages)
  <2>1. /\ delivery' = [Taken({m}) EXCEPT ![m].attempts = @ + 1]
        /\ worker' = [worker EXCEPT !.step = "claimed", !.batch = @ \ {m}, !.row = m]
    BY <1>2 DEF Claim
  <2>2. /\ Taken({m}) \in Deliveries
        /\ Taken({m})[m] = [delivery[m] EXCEPT !.status = "PROCESSING", !.aged = FALSE, !.taken = TRUE]
        /\ \A n \in Messages \ {m} : Taken({m})[n] = delivery[n]
    BY <1>0, TakenType
  <2>3. /\ delivery'[m] = [Taken({m})[m] EXCEPT !.attempts = @ + 1]
        /\ \A n \in Messages \ {m} : delivery'[n] = delivery[n]
    BY <2>1, <2>2 DEF Deliveries
  <2>4. /\ delivery'[m].status = "PROCESSING" /\ delivery'[m].taken = TRUE
        /\ delivery'[m].attempts = delivery[m].attempts + 1
    <3>1. delivery[m] \in DeliveryType
      BY <1>0
    <3> QED
      BY <2>2, <2>3, <3>1 DEF DeliveryType
  <2>5. delivery[m].status = "PENDING"
    BY <1>2 DEF Due
  <2>6. /\ worker'.step = "claimed" /\ worker'.row = m /\ worker'.group = {}
        /\ worker'.unread = {}
    BY <1>0, <1>1, <2>1
  <2>7. Held' = {m}
    BY <1>0, <2>6 DEF Held
  <2>8. HoldsProcessing'
    BY <2>4, <2>6, <2>7 DEF HoldsProcessing
  <2>9. AttemptsLeft'
    <3>1. \A n \in Messages : n # None /\ delivery[n].attempts \in Int
      BY <1>0, QueueAssumption DEF Messages, DeliveryType
    <3>2. \A n \in Messages : delivery[n].attempts <= MaxAttempts + crashes - 1
      BY <1>0, <1>1, <3>1 DEF AttemptsLeft
    <3>3. delivery'[m].attempts <= MaxAttempts + crashes
      BY <1>0, <2>4, <3>1, <3>2
    <3>4. \A n \in Messages \ {m} : delivery'[n].attempts <= MaxAttempts + crashes - 1
      BY <2>3, <3>2
    <3> QED
      BY <1>0, <1>1, <2>6, <3>3, <3>4 DEF AttemptsLeft
  <2>10. TakenBefore' /\ NotStarted' /\ SoonEnough'
    BY <1>0, <1>1, <2>3, <2>4, <2>5 DEF TakenBefore, NotStarted, SoonEnough
  <2>11. GroupAccounted' /\ RepeatedOnlyUnmarked' /\ LeftOut'
    BY <1>0, <1>1, <2>6 DEF GroupAccounted, RepeatedOnlyUnmarked, LeftOut, Announced
  <2>12. GotIsMarked'
    BY <1>0, <1>1, <2>3, <2>5 DEF GotIsMarked, Announced
  <2>13. SentAccounted'
    <3>1. \A n \in Messages : delivery'[n].status = "SENT" => delivery[n].status = "SENT"
      BY <2>3, <2>4
    <3> QED
      BY <1>0, <1>1, <3>1 DEF SentAccounted, Announced, WithStatus
  <2> QED
    BY <2>8, <2>9, <2>10, <2>11, <2>12, <2>13 DEF QueueInv
<1>3. CASE m \notin Due(Messages)
  <2>1. delivery' = delivery /\ Dropped
    BY <1>3, NextRowDrops DEF Claim
  <2>2. HoldsProcessing' /\ GroupAccounted'
    BY <2>1, DroppedHolds
  <2>3. AttemptsLeft'
    BY <1>0, <1>1, <2>1 DEF AttemptsLeft, Dropped
  <2> QED
    BY <1>0, <1>1, <2>1, <2>2, <2>3 DEF QueueInv, TakenBefore, NotStarted, SoonEnough,
       GotIsMarked, SentAccounted, WithStatus, RepeatedOnlyUnmarked, LeftOut, Announced
<1> QED
  BY <1>2, <1>3

LEMMA GatherStep ==
  ASSUME QueueInv, Gather, TypeOK' PROVE QueueInv'
<1>0. /\ TypeOK /\ HoldsProcessing /\ AttemptsLeft /\ TakenBefore /\ NotStarted /\ SoonEnough
      /\ GotIsMarked /\ SentAccounted /\ RepeatedOnlyUnmarked /\ LeftOut
      /\ \A n \in Messages : delivery[n] \in DeliveryType
      /\ worker \in [step : Steps, batch : SUBSET Messages, row : Messages \cup {None},
                     group : SUBSET Messages, unread : SUBSET Messages]
      /\ Announced \subseteq Messages
  BY DEF QueueInv, TypeOK, ProviderType, Announced
<1>1. /\ worker.step = "claimed" /\ worker.row \in Messages /\ worker.group = {}
      /\ worker.unread = {} /\ delivery[worker.row].status = "PROCESSING"
      /\ delivery' = Taken(Due(Messages)) /\ UNCHANGED <<link, chat, crashes, provider>>
  BY <1>0, QueueAssumption DEF Gather, HoldsProcessing, Held, Messages
<1>2. /\ worker'.step = "gathered" /\ worker'.row = worker.row /\ worker'.unread = {}
      /\ worker'.group = Due(Messages) \cup {worker.row}
  BY <1>0, <1>1 DEF Gather
<1>3. \A n \in Messages :
        /\ delivery'[n].attempts = delivery[n].attempts
        /\ delivery'[n].due = delivery[n].due /\ delivery'[n].latest = delivery[n].latest
        /\ n \in Due(Messages) =>
              /\ delivery[n].status = "PENDING"
              /\ delivery'[n].status = "PROCESSING" /\ delivery'[n].taken = TRUE
        /\ n \notin Due(Messages) =>
              delivery'[n].status = delivery[n].status /\ delivery'[n].taken = delivery[n].taken
  <2>1. \A n \in Messages : delivery'[n] =
          IF n \in Due(Messages)
          THEN [delivery[n] EXCEPT !.status = "PROCESSING", !.aged = FALSE, !.taken = TRUE]
          ELSE delivery[n]
    BY <1>0, <1>1, TakenType
  <2>2. \A n \in Due(Messages) : delivery[n].status = "PENDING"
    BY DEF Due
  <2>3. ASSUME NEW n \in Messages, n \in Due(Messages)
        PROVE  /\ delivery'[n].attempts = delivery[n].attempts
               /\ delivery'[n].due = delivery[n].due /\ delivery'[n].latest = delivery[n].latest
               /\ delivery'[n].status = "PROCESSING" /\ delivery'[n].taken = TRUE
    <3>1. delivery'[n] = [delivery[n] EXCEPT !.status = "PROCESSING", !.aged = FALSE, !.taken = TRUE]
      BY <2>1, <2>3
    <3>2. delivery[n] \in DeliveryType
      BY <1>0
    <3> QED
      BY <3>1, <3>2 DEF DeliveryType
  <2>4. \A n \in Messages : n \notin Due(Messages) => delivery'[n] = delivery[n]
    BY <2>1
  <2> QED
    BY <2>2, <2>3, <2>4
<1>4. Held' = Due(Messages) \cup {worker.row}
  BY <1>1, <1>2, QueueAssumption DEF Held, Messages
<1>5. HoldsProcessing'
  <2>1. \A n \in Held' : delivery'[n].status = "PROCESSING"
    BY <1>1, <1>3, <1>4 DEF Due
  <2> QED
    BY <1>1, <1>2, <2>1 DEF HoldsProcessing
<1>6. AttemptsLeft' /\ TakenBefore' /\ NotStarted' /\ SoonEnough'
  BY <1>0, <1>1, <1>2, <1>3 DEF AttemptsLeft, TakenBefore, NotStarted, SoonEnough
<1>7. GroupAccounted' /\ RepeatedOnlyUnmarked' /\ LeftOut'
  BY <1>0, <1>1, <1>2 DEF GroupAccounted, RepeatedOnlyUnmarked, LeftOut, Announced
<1>8. GotIsMarked' /\ SentAccounted'
  BY <1>0, <1>1, <1>3 DEF GotIsMarked, SentAccounted, Announced, WithStatus
<1> QED
  BY <1>5, <1>6, <1>7, <1>8 DEF QueueInv

LEMMA GroupProcessing ==
  ASSUME HoldsProcessing, worker.step \notin {"idle", "reading", "claimed"}
  PROVE  /\ worker.row \in worker.group /\ worker.unread \subseteq worker.group
         /\ \A m \in worker.group : delivery[m].status = "PROCESSING"
BY DEF HoldsProcessing, Held

LEMMA EndedGroup ==
  ASSUME QueueInv, NEW status \in {"SENT", "SKIPPED", "FAILED"},
         worker.step \notin {"idle", "reading", "claimed"},
         delivery' = Ended(worker.group, status), Dropped, UNCHANGED <<chat, crashes, provider>>
  PROVE  /\ HoldsProcessing' /\ AttemptsLeft' /\ TakenBefore' /\ NotStarted' /\ SoonEnough'
         /\ GroupAccounted' /\ RepeatedOnlyUnmarked' /\ LeftOut'
         /\ \A m \in Messages :
               delivery'[m].status = IF m \in worker.group THEN status ELSE delivery[m].status
<1>0. /\ TypeOK /\ HoldsProcessing /\ AttemptsLeft /\ TakenBefore /\ NotStarted /\ SoonEnough
      /\ GroupAccounted /\ GotIsMarked /\ SentAccounted /\ RepeatedOnlyUnmarked /\ LeftOut
      /\ \A n \in Messages : delivery[n] \in DeliveryType
      /\ worker \in [step : Steps, batch : SUBSET Messages, row : Messages \cup {None},
                     group : SUBSET Messages, unread : SUBSET Messages]
      /\ provider \in ProviderType
      /\ crashes \in Nat /\ MaxAttempts \in Nat \ {0}
  BY QueueAssumption DEF QueueInv, TypeOK, ProviderType, Announced
<1>1. /\ worker.row \in worker.group
      /\ \A m \in worker.group : delivery[m].status = "PROCESSING"
  BY <1>0, GroupProcessing
<1>2. \A m \in Messages :
        delivery'[m] = IF m \in worker.group THEN Nowhere(status) ELSE delivery[m]
  BY <1>0, EndedType
<1>3. HoldsProcessing' /\ GroupAccounted'
  BY DroppedHolds
<1>4. AttemptsLeft'
  <2>1. \A m \in Messages : m # None
    BY QueueAssumption DEF Messages
  <2>2. \A m \in worker.group : delivery'[m].attempts = 0
    BY <1>0, <1>2 DEF Nowhere
  <2>3. ASSUME NEW m \in Messages, m \notin worker.group
        PROVE  delivery'[m].attempts <= MaxAttempts + crashes - 1
    BY <1>0, <1>1, <1>2, <2>3 DEF AttemptsLeft
  <2> QED
    BY <1>0, <2>1, <2>2, <2>3 DEF AttemptsLeft, Dropped
<1>5. \A m \in Messages :
        delivery'[m].status = IF m \in worker.group THEN status ELSE delivery[m].status
  BY <1>2 DEF Nowhere
<1>6. TakenBefore' /\ SoonEnough'
  BY <1>0, <1>2, <1>5 DEF TakenBefore, SoonEnough
<1>7. NotStarted'
  BY <1>0, <1>1, <1>5 DEF NotStarted
<1>8. RepeatedOnlyUnmarked' /\ LeftOut'
  BY <1>0 DEF RepeatedOnlyUnmarked, LeftOut, Announced
<1> QED
  BY <1>3, <1>4, <1>5, <1>6, <1>7, <1>8

LEMMA PrepareStep ==
  ASSUME QueueInv, Prepare, TypeOK' PROVE QueueInv'
<1>0. /\ TypeOK /\ HoldsProcessing /\ AttemptsLeft /\ TakenBefore /\ NotStarted /\ SoonEnough
      /\ GroupAccounted /\ GotIsMarked /\ SentAccounted /\ RepeatedOnlyUnmarked /\ LeftOut
      /\ \A n \in Messages : delivery[n] \in DeliveryType
      /\ worker \in [step : Steps, batch : SUBSET Messages, row : Messages \cup {None},
                     group : SUBSET Messages, unread : SUBSET Messages]
      /\ provider \in ProviderType
      /\ crashes \in Nat /\ MaxAttempts \in Nat \ {0}
  BY QueueAssumption DEF QueueInv, TypeOK, ProviderType, Announced
<1>1. /\ worker.step = "gathered" /\ UNCHANGED <<link, chat, crashes>>
      /\ worker.row \in worker.group /\ worker.unread \subseteq worker.group
      /\ \A m \in worker.group : delivery[m].status = "PROCESSING"
  BY <1>0, GroupProcessing DEF Prepare
<1>2. CASE link # "enabled" \/ Unread = {}
  <2>1. delivery' = Ended(worker.group, "SKIPPED") /\ Dropped /\ provider' = provider
    BY <1>2, NextRowDrops DEF Prepare
  <2>2. /\ HoldsProcessing' /\ AttemptsLeft' /\ TakenBefore' /\ NotStarted' /\ SoonEnough'
        /\ GroupAccounted' /\ RepeatedOnlyUnmarked' /\ LeftOut'
        /\ \A m \in Messages :
              delivery'[m].status = IF m \in worker.group THEN "SKIPPED" ELSE delivery[m].status
    BY <1>1, <2>1, EndedGroup
  <2>a. Announced' = Announced /\ Announced \subseteq Messages
    BY <1>0, <2>1 DEF Announced, ProviderType
  <2>3. GotIsMarked'
    BY <1>0, <1>1, <2>1, <2>2, <2>a DEF GotIsMarked
  <2>4. SentAccounted'
    BY <1>0, <2>1, <2>2, <2>a DEF SentAccounted, WithStatus
  <2> QED
    BY <2>2, <2>3, <2>4 DEF QueueInv
<1>3. CASE ~(link # "enabled" \/ Unread = {})
  <2>1. /\ worker' = [worker EXCEPT !.step = "prepared", !.unread = Unread]
        /\ provider' = [provider EXCEPT !.behind = @ \cup (worker.group \ Unread)]
        /\ delivery' = delivery
    BY <1>3 DEF Prepare
  <2>2. /\ worker'.step = "prepared" /\ worker'.row = worker.row /\ worker'.group = worker.group
        /\ worker'.unread = Unread /\ Unread \subseteq worker.group
        /\ provider'.got = provider.got /\ provider'.twice = provider.twice
        /\ provider'.textless = provider.textless
        /\ provider'.unmarked = provider.unmarked
        /\ provider'.behind = provider.behind \cup (worker.group \ Unread)
    BY <1>0, <2>1 DEF Unread, ProviderType
  <2>3. HoldsProcessing'
    <3>1. Held' = Held
      BY <2>2 DEF Held
    <3> QED
      BY <1>0, <1>1, <2>1, <2>2, <3>1 DEF HoldsProcessing
  <2>4. AttemptsLeft' /\ TakenBefore' /\ NotStarted' /\ SoonEnough'
    BY <1>0, <1>1, <2>1, <2>2 DEF AttemptsLeft, TakenBefore, NotStarted, SoonEnough
  <2>5. GroupAccounted' /\ RepeatedOnlyUnmarked' /\ LeftOut'
    BY <1>0, <2>2 DEF GroupAccounted, RepeatedOnlyUnmarked, LeftOut, Announced
  <2>6. GotIsMarked' /\ SentAccounted'
    BY <1>0, <1>1, <2>1, <2>2 DEF GotIsMarked, SentAccounted, Announced, WithStatus
  <2> QED
    BY <2>3, <2>4, <2>5, <2>6 DEF QueueInv
<1> QED
  BY <1>2, <1>3

LEMMA MoreOfThem ==
  ASSUME NEW S \in SUBSET Messages, NEW T \in SUBSET S
  PROVE  /\ Cardinality(T) \in Nat /\ Cardinality(S) \in Nat
         /\ Cardinality(T) <= Cardinality(S)
<1>1. IsFiniteSet(Messages)
  BY FS_Interval, QueueAssumption DEF Messages
<1>2. IsFiniteSet(S) /\ IsFiniteSet(T) /\ Cardinality(T) <= Cardinality(S)
  BY <1>1, FS_Subset
<1> QED
  BY <1>2, FS_CardinalityType

LEMMA SendStep ==
  ASSUME QueueInv, Send, TypeOK' PROVE QueueInv'
<1>0. /\ TypeOK /\ HoldsProcessing /\ AttemptsLeft /\ TakenBefore /\ NotStarted /\ SoonEnough
      /\ GroupAccounted /\ GotIsMarked /\ SentAccounted /\ RepeatedOnlyUnmarked /\ LeftOut
      /\ \A n \in Messages : delivery[n] \in DeliveryType
      /\ worker \in [step : Steps, batch : SUBSET Messages, row : Messages \cup {None},
                     group : SUBSET Messages, unread : SUBSET Messages]
      /\ provider \in ProviderType
      /\ crashes \in Nat /\ MaxAttempts \in Nat \ {0}
  BY QueueAssumption DEF QueueInv, TypeOK, ProviderType, Announced
<1>1. /\ worker.step = "prepared" /\ UNCHANGED <<link, chat, delivery, crashes>>
      /\ worker.row \in worker.group /\ worker.unread \subseteq worker.group
      /\ \A m \in worker.group : delivery[m].status = "PROCESSING"
  BY <1>0, GroupProcessing DEF Send
<1>2. /\ worker'.step \in {"accepted", "refused"} /\ worker'.row = worker.row
      /\ worker'.group = worker.group /\ worker'.unread = worker.unread
  BY <1>0 DEF Send
<1>3. HoldsProcessing'
  <2>1. Held' = Held
    BY <1>2 DEF Held
  <2> QED
    BY <1>0, <1>1, <1>2, <2>1 DEF HoldsProcessing
<1>4. AttemptsLeft' /\ TakenBefore' /\ NotStarted' /\ SoonEnough'
  BY <1>0, <1>1, <1>2 DEF AttemptsLeft, TakenBefore, NotStarted, SoonEnough
<1>5. CASE provider' = provider /\ worker'.step = "refused"
  <2>1. GroupAccounted' /\ RepeatedOnlyUnmarked' /\ LeftOut'
    BY <1>0, <1>2, <1>5 DEF GroupAccounted, RepeatedOnlyUnmarked, LeftOut, Announced
  <2>2. GotIsMarked' /\ SentAccounted'
    BY <1>0, <1>1, <1>2, <1>5 DEF GotIsMarked, SentAccounted, WithStatus, Announced
  <2> QED
    BY <1>3, <1>4, <2>1, <2>2 DEF QueueInv
<1>6. ASSUME NEW text \in Texts(worker.unread), NEW heard \in BOOLEAN, Take(text, heard),
             worker'.step = IF heard THEN "accepted" ELSE "refused"
      PROVE  QueueInv'
  <2>1. /\ provider'.got = provider.got \cup text /\ provider'.behind = provider.behind
        /\ provider'.textless = (provider.textless \cup worker.unread) \ provider'.got
        /\ provider'.twice = provider.twice \cup (worker.unread \cap Announced)
        /\ provider'.unmarked = IF heard THEN provider.unmarked
                                ELSE provider.unmarked \cup worker.unread
    BY <1>0, <1>6 DEF Take, ProviderType
  <2>2. text \subseteq worker.unread
    BY DEF Texts
  <2>3. Announced' = Announced \cup worker.unread
    BY <2>1, <2>2 DEF Announced
  <2>4. GroupAccounted'
    <3>1. worker.group \ worker.unread \subseteq provider.behind
      BY <1>0, <1>1 DEF GroupAccounted
    <3> QED
      BY <1>2, <1>6, <2>1, <2>3, <3>1 DEF GroupAccounted
  <2>5. RepeatedOnlyUnmarked'
    <3>1. worker.unread \cap Announced \subseteq provider.unmarked
      BY <1>0, <1>1 DEF GotIsMarked
    <3> QED
      BY <1>0, <2>1, <3>1 DEF RepeatedOnlyUnmarked
  <2>6. GotIsMarked'
    <3>1. \A m \in Announced \ provider.unmarked : delivery[m].status = "SENT"
      BY <1>0, <1>1 DEF GotIsMarked
    <3> QED
      BY <1>1, <1>2, <1>6, <2>1, <2>3, <3>1 DEF GotIsMarked
  <2>7. SentAccounted'
    BY <1>0, <1>1, <2>1, <2>3 DEF SentAccounted, WithStatus
  <2>8. LeftOut'
    <3>1. CASE worker.unread \cap Long # {}
      BY <2>3, <3>1 DEF LeftOut
    <3>2. CASE Cardinality(text) = Shown
      <4>1. provider'.got \in SUBSET Messages /\ text \in SUBSET provider'.got
        BY <1>0, <2>1, <2>2 DEF ProviderType
      <4>2. Cardinality(text) <= Cardinality(provider'.got)
        BY <4>1, MoreOfThem
      <4> QED
        BY <3>2, <4>2 DEF LeftOut
    <3>3. CASE text = worker.unread
      <4>1. provider'.textless \subseteq provider.textless
        BY <2>1, <3>3
      <4>2. provider'.got \in SUBSET Messages /\ provider.got \in SUBSET provider'.got
        BY <1>0, <2>1, <2>2 DEF ProviderType
      <4>3. /\ Cardinality(provider.got) <= Cardinality(provider'.got)
            /\ Cardinality(provider.got) \in Nat /\ Cardinality(provider'.got) \in Nat
        BY <4>2, MoreOfThem
      <4>4. Announced \subseteq Announced'
        BY <2>3
      <4> QED
        BY <1>0, <4>1, <4>3, <4>4, QueueAssumption DEF LeftOut
    <3> QED
      BY <3>1, <3>2, <3>3 DEF Texts
  <2> QED
    BY <1>3, <1>4, <2>4, <2>5, <2>6, <2>7, <2>8 DEF QueueInv
<1> QED
  BY <1>0, <1>5, <1>6 DEF Send

LEMMA QueryFailsStep ==
  ASSUME QueueInv, QueryFails, TypeOK' PROVE QueueInv'
<1>0. /\ TypeOK /\ HoldsProcessing /\ AttemptsLeft /\ TakenBefore /\ NotStarted /\ SoonEnough
      /\ GroupAccounted /\ GotIsMarked /\ SentAccounted /\ RepeatedOnlyUnmarked /\ LeftOut
      /\ worker \in [step : Steps, batch : SUBSET Messages, row : Messages \cup {None},
                     group : SUBSET Messages, unread : SUBSET Messages]
      /\ provider \in ProviderType
  BY DEF QueueInv, TypeOK, ProviderType
<1>1. /\ worker.step \in {"gathered", "accepted"} /\ UNCHANGED <<link, chat, delivery, crashes>>
      /\ worker'.step = "refused" /\ worker'.row = worker.row /\ worker'.group = worker.group
      /\ worker'.unread = worker.unread
  BY <1>0 DEF QueryFails
<1>2. /\ provider'.got = provider.got /\ provider'.textless = provider.textless
      /\ provider'.twice = provider.twice /\ provider'.behind = provider.behind
      /\ provider'.unmarked = IF worker.step = "accepted" THEN provider.unmarked \cup worker.unread
                              ELSE provider.unmarked
  BY <1>0 DEF QueryFails, Unmark, ProviderType
<1>3. HoldsProcessing'
  <2>1. Held' = Held
    BY <1>1 DEF Held
  <2> QED
    BY <1>0, <1>1, <2>1 DEF HoldsProcessing
<1>4. AttemptsLeft' /\ TakenBefore' /\ NotStarted' /\ SoonEnough'
  BY <1>0, <1>1 DEF AttemptsLeft, TakenBefore, NotStarted, SoonEnough
<1>5. GroupAccounted' /\ RepeatedOnlyUnmarked' /\ LeftOut'
  BY <1>0, <1>1, <1>2 DEF GroupAccounted, RepeatedOnlyUnmarked, LeftOut, Announced
<1>6. GotIsMarked' /\ SentAccounted'
  BY <1>0, <1>1, <1>2 DEF GotIsMarked, SentAccounted, WithStatus, Announced
<1> QED
  BY <1>3, <1>4, <1>5, <1>6 DEF QueueInv

LEMMA MarkSentStep ==
  ASSUME QueueInv, MarkSent, TypeOK' PROVE QueueInv'
<1>0. /\ TypeOK /\ HoldsProcessing /\ AttemptsLeft /\ TakenBefore /\ NotStarted /\ SoonEnough
      /\ GroupAccounted /\ GotIsMarked /\ SentAccounted /\ RepeatedOnlyUnmarked /\ LeftOut
      /\ \A n \in Messages : delivery[n] \in DeliveryType
      /\ worker \in [step : Steps, batch : SUBSET Messages, row : Messages \cup {None},
                     group : SUBSET Messages, unread : SUBSET Messages]
      /\ provider \in ProviderType
      /\ crashes \in Nat /\ MaxAttempts \in Nat \ {0}
  BY QueueAssumption DEF QueueInv, TypeOK, ProviderType, Announced
<1>1. /\ worker.step = "accepted" /\ UNCHANGED <<link, chat, crashes, provider>>
      /\ delivery' = Ended(worker.group, "SENT") /\ Dropped
      /\ worker.unread \subseteq worker.group
  BY <1>0, GroupProcessing, NextRowDrops DEF MarkSent
<1>2. /\ HoldsProcessing' /\ AttemptsLeft' /\ TakenBefore' /\ NotStarted' /\ SoonEnough'
      /\ GroupAccounted' /\ RepeatedOnlyUnmarked' /\ LeftOut'
      /\ \A m \in Messages :
            delivery'[m].status = IF m \in worker.group THEN "SENT" ELSE delivery[m].status
  BY <1>1, EndedGroup
<1>3. GotIsMarked'
  <2>1. ASSUME NEW m \in Announced \ provider.unmarked PROVE delivery'[m].status = "SENT"
    <3>1. m \in Messages
      BY <1>0 DEF Announced, ProviderType
    <3> QED
      BY <1>0, <1>1, <1>2, <3>1 DEF GotIsMarked, Announced
  <2> QED
    BY <1>1, <2>1 DEF GotIsMarked, Announced
<1>4. SentAccounted'
  <2>1. \A m \in worker.group : m \in Announced \cup provider.behind
    BY <1>0, <1>1 DEF GroupAccounted, Announced
  <2> QED
    BY <1>0, <1>1, <1>2, <2>1 DEF SentAccounted, Announced, WithStatus
<1> QED
  BY <1>2, <1>3, <1>4 DEF QueueInv

LEMMA FailStep ==
  ASSUME QueueInv, Fail, TypeOK' PROVE QueueInv'
<1>0. /\ TypeOK /\ HoldsProcessing /\ AttemptsLeft /\ TakenBefore /\ NotStarted /\ SoonEnough
      /\ GroupAccounted /\ GotIsMarked /\ SentAccounted /\ RepeatedOnlyUnmarked /\ LeftOut
      /\ \A n \in Messages : delivery[n] \in DeliveryType
      /\ worker \in [step : Steps, batch : SUBSET Messages, row : Messages \cup {None},
                     group : SUBSET Messages, unread : SUBSET Messages]
      /\ provider \in ProviderType
      /\ crashes \in Nat /\ MaxAttempts \in Nat \ {0}
  BY QueueAssumption DEF QueueInv, TypeOK, ProviderType, Announced
<1> DEFINE n == delivery[worker.row].attempts
<1>1. /\ worker.step = "refused" /\ UNCHANGED <<link, chat, crashes, provider>> /\ Dropped
      /\ worker.row \in worker.group
      /\ \A m \in worker.group : delivery[m].status = "PROCESSING"
  BY <1>0, GroupProcessing, NextRowDrops DEF Fail
<1>2. CASE n >= MaxAttempts
  <2>1. delivery' = Ended(worker.group, "FAILED")
    BY <1>2 DEF Fail
  <2>2. /\ HoldsProcessing' /\ AttemptsLeft' /\ TakenBefore' /\ NotStarted' /\ SoonEnough'
        /\ GroupAccounted' /\ RepeatedOnlyUnmarked' /\ LeftOut'
        /\ \A m \in Messages :
              delivery'[m].status = IF m \in worker.group THEN "FAILED" ELSE delivery[m].status
    BY <1>1, <2>1, EndedGroup
  <2>3. Announced' = Announced /\ Announced \subseteq Messages
    BY <1>0, <1>1 DEF Announced, ProviderType
  <2>4. GotIsMarked'
    BY <1>0, <1>1, <2>2, <2>3 DEF GotIsMarked
  <2>5. SentAccounted'
    BY <1>0, <1>1, <2>2, <2>3 DEF SentAccounted, WithStatus
  <2> QED
    BY <2>2, <2>4, <2>5 DEF QueueInv
<1>3. CASE ~(n >= MaxAttempts)
  <2>1. delivery' = Retried(worker.group, n)
    BY <1>3 DEF Fail
  <2>2. \A m \in Messages :
          /\ m \notin worker.group => delivery'[m] = delivery[m]
          /\ m \in worker.group =>
                /\ delivery'[m].status = "PENDING" /\ delivery'[m].attempts = delivery[m].attempts
                /\ delivery'[m].taken = delivery[m].taken
    <3>1. TypeOK
      BY <1>0
    <3>2. ASSUME NEW k, delivery' = Retried(worker.group, k)
          PROVE  \A m \in Messages :
                   /\ m \notin worker.group => delivery'[m] = delivery[m]
                   /\ m \in worker.group =>
                         /\ delivery'[m].status = "PENDING"
                         /\ delivery'[m].attempts = delivery[m].attempts
                         /\ delivery'[m].taken = delivery[m].taken
      BY <3>1, <3>2, RetriedType
    <3> QED
      BY <2>1, <3>2
  <2>3. HoldsProcessing' /\ GroupAccounted'
    BY <1>1, DroppedHolds
  <2>4. AttemptsLeft'
    <3>1. \A m \in Messages : m # None /\ delivery[m].attempts \in Nat
      BY <1>0, QueueAssumption DEF Messages, DeliveryType
    <3>2. ASSUME NEW m \in Messages PROVE delivery'[m].attempts <= MaxAttempts + crashes - 1
      <4>1. delivery'[m].attempts = delivery[m].attempts
        BY <2>2
      <4>2. CASE m = worker.row
        BY <1>0, <1>3, <3>1, <4>1, <4>2
      <4>3. CASE m # worker.row
        BY <1>0, <4>1, <4>3 DEF AttemptsLeft
      <4> QED
        BY <4>2, <4>3
    <3> QED
      BY <1>0, <1>1, <3>1, <3>2 DEF AttemptsLeft, Dropped
  <2>5. TakenBefore' /\ SoonEnough'
    BY <1>0, <1>1, <2>2 DEF TakenBefore, SoonEnough
  <2>6. NotStarted' /\ RepeatedOnlyUnmarked' /\ LeftOut'
    BY <1>0, <1>1, <2>2 DEF NotStarted, RepeatedOnlyUnmarked, LeftOut, Announced
  <2>7. Announced' = Announced /\ Announced \subseteq Messages
    BY <1>0, <1>1 DEF Announced, ProviderType
  <2>8. GotIsMarked'
    BY <1>0, <1>1, <2>2, <2>7 DEF GotIsMarked
  <2>9. SentAccounted'
    BY <1>0, <1>1, <2>2, <2>7 DEF SentAccounted, WithStatus
  <2> QED
    BY <2>3, <2>4, <2>5, <2>6, <2>8, <2>9 DEF QueueInv
<1> QED
  BY <1>2, <1>3

LEMMA CrashStep ==
  ASSUME QueueInv, Crash, TypeOK' PROVE QueueInv'
<1>0. /\ TypeOK /\ HoldsProcessing /\ AttemptsLeft /\ TakenBefore /\ NotStarted /\ SoonEnough
      /\ GroupAccounted /\ GotIsMarked /\ SentAccounted /\ RepeatedOnlyUnmarked /\ LeftOut
      /\ \A n \in Messages : delivery[n] \in DeliveryType
      /\ worker \in [step : Steps, batch : SUBSET Messages, row : Messages \cup {None},
                     group : SUBSET Messages, unread : SUBSET Messages]
      /\ provider \in ProviderType
      /\ crashes \in Nat /\ MaxAttempts \in Nat \ {0}
  BY QueueAssumption DEF QueueInv, TypeOK, ProviderType, Announced
<1>1. /\ worker' = Resting /\ crashes' = crashes + 1 /\ UNCHANGED <<link, chat, delivery>>
      /\ provider' = IF worker.step = "accepted"
                     THEN [provider EXCEPT !.unmarked = @ \cup worker.unread] ELSE provider
  BY DEF Crash, Unmark
<1>2. Dropped /\ worker'.step = "idle"
  BY <1>1 DEF Dropped, Resting
<1>3. /\ provider'.got = provider.got /\ provider'.behind = provider.behind
      /\ provider'.twice = provider.twice /\ provider'.textless = provider.textless
      /\ provider'.unmarked = IF worker.step = "accepted" THEN provider.unmarked \cup worker.unread
                            ELSE provider.unmarked
  BY <1>0, <1>1 DEF ProviderType
<1>4. HoldsProcessing' /\ GroupAccounted'
  BY <1>2, DroppedHolds
<1>5. AttemptsLeft'
  <2>1. \A m \in Messages : delivery[m].attempts \in Nat
    BY <1>0, QueueAssumption DEF DeliveryType
  <2>2. \A m \in Messages : delivery[m].attempts <= MaxAttempts + crashes
    BY <1>0, <2>1 DEF AttemptsLeft
  <2> QED
    BY <1>0, <1>1, <2>1, <2>2 DEF AttemptsLeft
<1>6. TakenBefore' /\ NotStarted' /\ SoonEnough'
  BY <1>0, <1>1 DEF TakenBefore, NotStarted, SoonEnough
<1>7. GotIsMarked' /\ SentAccounted' /\ RepeatedOnlyUnmarked' /\ LeftOut'
  BY <1>0, <1>1, <1>3 DEF GotIsMarked, SentAccounted, WithStatus, RepeatedOnlyUnmarked, LeftOut, Announced
<1> QED
  BY <1>4, <1>5, <1>6, <1>7 DEF QueueInv

-----------------------------------------------------------------------------

LEMMA QueueInit == Init => QueueInv
<1> SUFFICES ASSUME Init PROVE QueueInv
  OBVIOUS
<1>1. \A m \in Messages : /\ delivery[m] = Nowhere("none") /\ delivery[m].status = "none"
                          /\ delivery[m].attempts = 0
  BY DEF Init, Nowhere
<1>2. /\ worker.step = "idle" /\ worker.row = None /\ worker.group = {} /\ worker.unread = {}
      /\ provider.got = {} /\ provider.textless = {} /\ provider.twice = {}
  BY DEF Init, Resting
<1>3. TypeOK
  <2>1. delivery \in Deliveries
    BY NowhereType DEF Init, Deliveries
  <2>2. worker \in [step : Steps, batch : SUBSET Messages, row : Messages \cup {None},
                    group : SUBSET Messages, unread : SUBSET Messages]
    BY DEF Init, Resting, Steps
  <2>3. chat \in [started : 0..MaxMessages, read : 0..MaxMessages] /\ crashes \in 0..MaxCrashes
    BY QueueAssumption DEF Init
  <2> QED
    BY <2>1, <2>2, <2>3 DEF Init, TypeOK, Deliveries
<1>4. Held = {}
  BY <1>2 DEF Held
<1>5. HoldsProcessing /\ GroupAccounted
  BY <1>2, <1>4 DEF HoldsProcessing, GroupAccounted, Announced
<1>6. AttemptsLeft
  BY <1>1, QueueAssumption DEF Init, AttemptsLeft
<1>7. TakenBefore /\ NotStarted /\ SoonEnough
  BY <1>1 DEF TakenBefore, NotStarted, SoonEnough
<1>8. GotIsMarked /\ SentAccounted /\ RepeatedOnlyUnmarked /\ LeftOut
  BY <1>1, <1>2 DEF GotIsMarked, SentAccounted, WithStatus, RepeatedOnlyUnmarked, LeftOut, Announced
<1> QED
  BY <1>3, <1>5, <1>6, <1>7, <1>8 DEF QueueInv

LEMMA QueueStep == QueueInv /\ [Next]_vars => QueueInv'
<1> SUFFICES ASSUME QueueInv, [Next]_vars PROVE QueueInv'
  OBVIOUS
<1>1. CASE RunQueue \/ Process \/ Crash
  <2>1. TypeOK'
    BY <1>1, WorkerTypes
  <2> QED
    BY <1>1, <2>1, RunQueueStep, ClaimStep, GatherStep, PrepareStep, SendStep, MarkSentStep,
       QueryFailsStep, FailStep, CrashStep DEF Process
<1>2. CASE \/ Connect \/ Disable \/ Disconnect \/ StartMessage
           \/ (\E m \in Messages : CommitMessage(m)) \/ MarkRead \/ WriteToStaff \/ Tick
  BY <1>2, ChatStep
<1>3. CASE UNCHANGED vars
  <2>1. UNCHANGED <<link, chat, delivery, worker, crashes, provider>>
    BY <1>3 DEF vars
  <2>2. TypeOK' /\ SoonEnough' /\ NotStarted' /\ Others
    BY <2>1 DEF QueueInv, TypeOK, SoonEnough, NotStarted, Others
  <2> QED
    BY <2>1, <2>2, OthersStep
<1> QED
  BY <1>1, <1>2, <1>3 DEF Next

LEMMA QueueInvariant == Spec => []QueueInv
BY QueueInit, QueueStep, PTL DEF Spec

-----------------------------------------------------------------------------

\* The queue keeps its types; a delivery is not tried more often than eight times, and
\* once more for each restart.
THEOREM TypeCorrect == Spec => []TypeOK
<1>1. QueueInv => TypeOK
  BY DEF QueueInv
<1> QED
  BY <1>1, QueueInvariant, PTL

\* SENT is never said of a message that was neither behind the mark nor announced, and
\* of one announced without its text only if as many others have theirs or one is long.
THEOREM SentMeansAnnounced == Spec => []SentWasAnnounced
<1>1. ASSUME QueueInv PROVE SentWasAnnounced
  <2>1. SentAccounted /\ LeftOut
    BY <1>1 DEF QueueInv
  <2> QED
    BY <2>1 DEF SentAccounted, LeftOut, SentWasAnnounced, Announced
<1> QED
  BY <1>1, QueueInvariant, PTL

\* A message is announced twice only after a digest that could not be marked: its answer
\* was lost, its mark failed, or the server went down before it.
THEOREM RepeatedOnlyInDoubt == Spec => []RepeatedOnlyUnmarked
<1>1. QueueInv => RepeatedOnlyUnmarked
  BY DEF QueueInv
<1> QED
  BY <1>1, QueueInvariant, PTL

\* However many messages join a digest, it is due within the longest delay of each.
THEOREM DigestsAreInTime == Spec => []DigestInTime
<1>1. QueueInv => DigestInTime
  BY DEF QueueInv, SoonEnough, DigestInTime, Pending, WithStatus
<1> QED
  BY <1>1, QueueInvariant, PTL

-----------------------------------------------------------------------------
(* ChatBroadcast *)

\* What ties the tables together.  A row exists iff its broadcast is stored, and there
\* is one broadcast; its message is there iff the row says so.
RowsOfOne == \A w \in Rows : row[w] = "none" <=> w[1] \notin stored

OneStored == \A q, r \in stored : q = r

MarkedWithMessage == \A w \in Rows : messages[w] = IF row[w] = "SENT" THEN 1 ELSE 0

FilesKept ==
    /\ stored \subseteq files
    /\ \A r \in Requests : request[r] = "checked" => r \notin stored /\ r \in files

BroadcastInv == BroadcastTypeOK /\ RowsOfOne /\ OneStored /\ MarkedWithMessage /\ FilesKept

LEMMA BroadcastInvInit == BroadcastInit => BroadcastInv
<1> SUFFICES ASSUME BroadcastInit PROVE BroadcastInv
  OBVIOUS
<1>1. BroadcastTypeOK
  BY BroadcastAssumption DEF BroadcastInit, BroadcastTypeOK, Idle, Statuses
<1> QED
  BY <1>1 DEF BroadcastInit, BroadcastInv, RowsOfOne, OneStored, MarkedWithMessage, FilesKept

\* The requests leave the deliveries alone, except that one stores the rows.
LEMMA RequestStep ==
  ASSUME BroadcastInv, NEW r \in Requests, Check(r) \/ Reject(r) \/ Create(r) \/ Catch(r)
  PROVE  BroadcastInv'
<1>0. /\ BroadcastTypeOK /\ RowsOfOne /\ OneStored /\ MarkedWithMessage /\ FilesKept
      /\ request \in [Requests -> {"unsent", "checked", "caught", "answered", "refused", "lost"}]
  BY DEF BroadcastInv, BroadcastTypeOK
<1>1. CASE UNCHANGED <<stored, sending>> /\ (Check(r) \/ Reject(r) \/ Create(r) \/ Catch(r))
  <2>1. /\ request' \in [Requests -> {"unsent", "checked", "caught", "answered", "refused", "lost"}]
        /\ files' \subseteq Requests
    BY <1>0, <1>1 DEF Check, Reject, Create, Store, Catch, BroadcastTypeOK, sending
  <2>2. BroadcastTypeOK'
    BY <1>0, <1>1, <2>1 DEF BroadcastTypeOK, sending
  <2>3. RowsOfOne' /\ OneStored' /\ MarkedWithMessage'
    BY <1>0, <1>1 DEF sending, RowsOfOne, OneStored, MarkedWithMessage
  <2>4. stored' \subseteq files'
    BY <1>0, <1>1 DEF Check, Reject, Create, Store, Catch, FilesKept, sending
  <2>5. ASSUME NEW q \in Requests, request'[q] = "checked"
        PROVE  q \notin stored' /\ q \in files'
    <3>1. CASE Check(r)
      <4>1. CASE stored # {}
        BY <1>0, <3>1, <4>1, <2>5 DEF Check, FilesKept
      <4>2. CASE stored = {}
        BY <1>0, <1>1, <3>1, <4>2, <2>5 DEF Check, FilesKept
      <4> QED
        BY <4>1, <4>2
    <3>2. CASE Reject(r) \/ Create(r) \/ Catch(r)
      <4>1. q # r /\ request[q] = "checked"
        BY <1>0, <1>1, <3>2, <2>5 DEF Reject, Create, Store, Catch
      <4> QED
        BY <1>0, <1>1, <3>2, <4>1 DEF Reject, Create, Store, Catch, FilesKept
    <3> QED
      BY <1>1, <3>1, <3>2
  <2> QED
    BY <2>2, <2>3, <2>4, <2>5 DEF BroadcastInv, FilesKept
<1>2. CASE stored = {} /\ \E outcome \in {"answered", "caught"} : Store(r, outcome)
  <2>0. PICK outcome \in {"answered", "caught"} : Store(r, outcome)
    BY <1>2
  <2>1. /\ request[r] = "checked" /\ request' = [request EXCEPT ![r] = outcome]
        /\ stored' = {r} /\ r \in files
        /\ row' = [w \in Rows |-> IF w[1] = r THEN "PENDING" ELSE row[w]]
        /\ UNCHANGED <<files, messages, sender, bounds>>
    BY <1>0, <1>2, <2>0 DEF Store, FilesKept
  <2>2. \A w \in Rows : row[w] = "none" /\ messages[w] = 0 /\ w[1] \in Requests
    BY <1>0, <1>2 DEF RowsOfOne, MarkedWithMessage, Rows
  <2>3. row' \in [Rows -> Statuses]
    BY <1>0, <2>1 DEF BroadcastTypeOK, Statuses
  <2>4. BroadcastTypeOK'
    BY <1>0, <2>1, <2>3 DEF BroadcastTypeOK
  <2>5. RowsOfOne' /\ OneStored' /\ MarkedWithMessage'
    BY <2>1, <2>2 DEF RowsOfOne, OneStored, MarkedWithMessage
  <2>6. FilesKept'
    BY <1>0, <1>2, <2>1 DEF FilesKept
  <2> QED
    BY <2>4, <2>5, <2>6 DEF BroadcastInv
<1> QED
  BY <1>1, <1>2 DEF Check, Reject, Create, Catch

\* Deliveries leave the requests alone.
LEMMA DeliveryStep ==
  ASSUME BroadcastInv, UNCHANGED <<request, files, stored>>,
         NEW w \in Rows, Deliver(w) \/ MarkFailed(w)
  PROVE  BroadcastInv'
<1>0. /\ BroadcastTypeOK /\ RowsOfOne /\ OneStored /\ MarkedWithMessage /\ FilesKept
      /\ row \in [Rows -> Statuses] /\ messages \in [Rows -> 0..(MaxRetries + 1)]
      /\ sender \in [batch : SUBSET Rows, failed : SUBSET Rows]
  BY DEF BroadcastInv, BroadcastTypeOK
<1>1. sender' \in [batch : SUBSET Rows, failed : SUBSET Rows]
  <2>1. /\ Done(w) \in [batch : SUBSET Rows, failed : SUBSET Rows]
        /\ Failed(w) \in [batch : SUBSET Rows, failed : SUBSET Rows]
        /\ [sender EXCEPT !.failed = {}] \in [batch : SUBSET Rows, failed : SUBSET Rows]
    BY <1>0 DEF Done, Failed
  <2> QED
    BY <2>1 DEF Deliver, MarkFailed
<1>2. CASE row[w] = "PENDING" /\ row' = [row EXCEPT ![w] = "SENT"]
           /\ messages' = [messages EXCEPT ![w] = @ + 1] /\ bounds' = bounds
  <2>1. messages[w] = 0 /\ 1 \in 0..(MaxRetries + 1)
    BY <1>0, <1>2, BroadcastAssumption DEF MarkedWithMessage
  <2>2. messages' = [messages EXCEPT ![w] = 1] /\ row' \in [Rows -> Statuses]
    BY <1>0, <1>2, <2>1 DEF Statuses
  <2>3. BroadcastTypeOK'
    BY <1>0, <1>1, <1>2, <2>1, <2>2 DEF BroadcastTypeOK
  <2>4. RowsOfOne' /\ MarkedWithMessage'
    BY <1>0, <1>2, <2>2 DEF RowsOfOne, MarkedWithMessage
  <2> QED
    BY <1>0, <2>3, <2>4 DEF BroadcastInv, OneStored, FilesKept
<1>3. CASE /\ row' = row \/ (row[w] = "PENDING" /\ row' = [row EXCEPT ![w] = "FAILED"])
           /\ messages' = messages /\ bounds' = bounds
  <2>1. row' \in [Rows -> Statuses]
    BY <1>0, <1>3 DEF Statuses
  <2>2. BroadcastTypeOK'
    BY <1>0, <1>1, <1>3, <2>1 DEF BroadcastTypeOK
  <2>3. RowsOfOne' /\ MarkedWithMessage'
    BY <1>0, <1>3 DEF RowsOfOne, MarkedWithMessage
  <2> QED
    BY <1>0, <2>2, <2>3 DEF BroadcastInv, OneStored, FilesKept
<1>4. CASE Deliver(w)
  <2>1. \/ row[w] = "PENDING" /\ row' = [row EXCEPT ![w] = "SENT"]
           /\ messages' = [messages EXCEPT ![w] = @ + 1]
        \/ row' = row /\ messages' = messages
    BY <1>4 DEF Deliver
  <2>2. bounds' = bounds
    BY <1>4 DEF Deliver
  <2>3. CASE row' = row /\ messages' = messages
    BY <1>3, <2>2, <2>3
  <2>4. CASE row[w] = "PENDING" /\ row' = [row EXCEPT ![w] = "SENT"]
             /\ messages' = [messages EXCEPT ![w] = @ + 1]
    BY <1>2, <2>2, <2>4
  <2> QED
    BY <2>1, <2>3, <2>4
<1>5. CASE MarkFailed(w)
  <2>1. row[w] # "PENDING" => row' = row
    BY <1>0, <1>5 DEF MarkFailed
  <2>2. row[w] = "PENDING" => row' = [row EXCEPT ![w] = "FAILED"]
    BY <1>5 DEF MarkFailed
  <2>3. messages' = messages /\ bounds' = bounds
    BY <1>5 DEF MarkFailed
  <2> QED
    BY <1>3, <2>1, <2>2, <2>3
<1> QED
  BY <1>4, <1>5

LEMMA BroadcastStep == BroadcastInv /\ [BroadcastNext]_broadcastVars => BroadcastInv'
<1> SUFFICES ASSUME BroadcastInv, [BroadcastNext]_broadcastVars PROVE BroadcastInv'
  OBVIOUS
<1>0. BroadcastTypeOK /\ RowsOfOne /\ OneStored /\ MarkedWithMessage /\ FilesKept
  BY DEF BroadcastInv
<1>1. CASE \E r \in Requests : Check(r) \/ Reject(r) \/ Create(r) \/ Catch(r)
  BY <1>1, RequestStep
<1>2. CASE \E w \in Rows : Deliver(w) \/ MarkFailed(w)
  BY <1>2, DeliveryStep DEF Deliver, MarkFailed
<1>3. CASE RunPending
  <2>1. sender' \in [batch : SUBSET Rows, failed : SUBSET Rows]
    BY <1>3 DEF RunPending, Idle, RowsWith
  <2> QED
    BY <1>0, <1>3, <2>1
    DEF RunPending, BroadcastInv, BroadcastTypeOK, RowsOfOne, OneStored, MarkedWithMessage, FilesKept
<1>4. CASE Retry
  <2>1. /\ row' = [w \in Rows |-> IF row[w] = "FAILED" THEN "PENDING" ELSE row[w]]
        /\ UNCHANGED <<request, files, stored, messages, sender>>
    BY <1>4 DEF Retry
  <2>2. bounds' \in [retries : 0..MaxRetries, crashes : 0..MaxRestarts]
    BY <1>0, <1>4, BroadcastAssumption DEF Retry, BroadcastTypeOK
  <2>3. BroadcastTypeOK'
    BY <1>0, <2>1, <2>2 DEF BroadcastTypeOK, Statuses
  <2> QED
    BY <1>0, <2>1, <2>3 DEF BroadcastInv, RowsOfOne, OneStored, MarkedWithMessage, FilesKept
<1>5. CASE Restart
  <2>1. bounds' \in [retries : 0..MaxRetries, crashes : 0..MaxRestarts]
    BY <1>0, <1>5, BroadcastAssumption DEF Restart, BroadcastTypeOK
  <2>2. BroadcastTypeOK'
    BY <1>0, <1>5, <2>1 DEF Restart, BroadcastTypeOK, Idle
  <2> QED
    BY <1>0, <1>5, <2>2
    DEF Restart, BroadcastInv, RowsOfOne, OneStored, MarkedWithMessage, FilesKept
<1>6. CASE UNCHANGED broadcastVars
  BY <1>0, <1>6
  DEF broadcastVars, BroadcastInv, BroadcastTypeOK, RowsOfOne, OneStored, MarkedWithMessage, FilesKept
<1> QED
  BY <1>1, <1>2, <1>3, <1>4, <1>5, <1>6 DEF BroadcastNext

LEMMA BroadcastInvariant == BroadcastSpec => []BroadcastInv
BY BroadcastInvInit, BroadcastStep, PTL DEF BroadcastSpec

-----------------------------------------------------------------------------

\* The tables keep their types; no row is ever delivered more often than it may be tried.
THEOREM BroadcastTypeCorrect == BroadcastSpec => []BroadcastTypeOK
<1>1. BroadcastInv => BroadcastTypeOK
  BY DEF BroadcastInv
<1> QED
  BY <1>1, BroadcastInvariant, PTL

\* However often the dialog sends its request and staff retry, a resident gets the
\* broadcast once: the unique requestId and the transaction of a delivery are enough.
THEOREM OnceEach == BroadcastSpec => []OneMessagePerRecipient
<1>1. ASSUME BroadcastInv PROVE OneMessagePerRecipient
  <2>0. /\ RowsOfOne /\ OneStored /\ MarkedWithMessage
    BY <1>1 DEF BroadcastInv
  <2>1. ASSUME NEW v \in Rows, NEW w \in Rows, v # w, v[2] = w[2], messages[v] # 0,
               messages[w] # 0
        PROVE  FALSE
    <3>1. row[v] = "SENT" /\ row[w] = "SENT"
      BY <2>0, <2>1 DEF MarkedWithMessage
    <3>2. v[1] = w[1]
      BY <2>0, <3>1 DEF RowsOfOne, OneStored
    <3> QED
      BY <2>1, <3>2 DEF Rows
  <2> QED
    BY <2>0, <2>1 DEF MarkedWithMessage, OneMessagePerRecipient
<1> QED
  BY <1>1, BroadcastInvariant, PTL

\* No failure the request sees, and no repetition of it, removes files a stored broadcast
\* refers to.
THEOREM FilesStay == BroadcastSpec => []StoredFilesExist
<1>1. BroadcastInv => StoredFilesExist
  BY DEF BroadcastInv, FilesKept, StoredFilesExist
<1> QED
  BY <1>1, BroadcastInvariant, PTL

=============================================================================
