-------------------------- MODULE NotificationQueue --------------------------
(***************************************************************************)
(* The messenger notifications of one resident in one messenger:           *)
(* notifications.service.ts, and of chats.controller.ts and                *)
(* my-chat.controller.ts what decides whether a message is still unread.   *)
(*                                                                         *)
(* Messages are numbered by createdAt, which a message gets when its       *)
(* transaction starts; a read mark is the number of messages started by    *)
(* then, so a message is unread iff its number is greater than the mark.   *)
(* A time in the future is the number of ticks left, one in the past is 0. *)
(***************************************************************************)
EXTENDS Integers, FiniteSets, FiniteSetsExt

CONSTANTS
    MaxMessages,                    \* bound: staff messages
    Shown,                          \* 3: the messages of a digest whose text it has
    Long,                           \* messages too long for so many of them in a digest
    DigestDelay, MaxDigestDelay,    \* 5 and 15 minutes
    MaxBackoff,                     \* 60 minutes
    MaxAttempts,                    \* 8
    MaxCrashes,                     \* bound: restarts of the server
    None

ASSUME QueueAssumption ==
    /\ MaxMessages \in Nat \ {0} /\ MaxAttempts \in Nat \ {0} /\ Shown \in Nat \ {0}
    /\ Long \subseteq 1..MaxMessages
    /\ MaxDigestDelay \in Nat /\ DigestDelay \in 0..MaxDigestDelay /\ MaxBackoff \in Nat
    /\ MaxCrashes \in Nat
    /\ None \notin Nat

Messages == 1..MaxMessages

VARIABLES
    link,       \* notification_links: the row of this resident and messenger
    chat,       \* chat_conversations: messages started, read mark of the resident
    delivery,   \* notification_deliveries, one per message
    worker,     \* runQueue: the rows it read, the one it processes, its group
    crashes,
    provider    \* history: what became of each message at the messenger

vars == <<link, chat, delivery, worker, crashes, provider>>

Least(a, b) == IF a < b THEN a ELSE b

\* The pause after a failure: 2 ^ attempts minutes, an hour at most.
Backoff(attempts) ==
    IF 2 ^ attempts \in 0..MaxBackoff THEN 2 ^ attempts ELSE MaxBackoff

Steps == {"idle", "reading", "claimed", "gathered", "prepared", "accepted", "refused"}

DeliveryType ==
    [status : {"none", "started", "PENDING", "PROCESSING", "SENT", "SKIPPED", "FAILED"},
     attempts : 0..(MaxAttempts + MaxCrashes),
     due : 0..(DigestDelay + MaxDigestDelay + MaxBackoff),
     latest : 0..MaxDigestDelay,       \* createdAt + MaxDigestDelay
     aged : BOOLEAN,                   \* updatedAt is more than two minutes ago
     taken : BOOLEAN]                  \* history: it was PROCESSING before

TypeOK ==
    /\ link \in {"none", "enabled", "disabled"}
    /\ chat \in [started : 0..MaxMessages, read : 0..MaxMessages]
    /\ delivery \in [Messages -> DeliveryType]
    /\ worker \in [step : Steps, batch : SUBSET Messages, row : Messages \cup {None},
                   group : SUBSET Messages, unread : SUBSET Messages]
    /\ crashes \in 0..MaxCrashes
    /\ provider \in
          [got : SUBSET Messages,        \* a digest it took has their text
           textless : SUBSET Messages,   \* only announced, by digests without their text
           twice : SUBSET Messages,      \* announced again
           unmarked : SUBSET Messages,   \* announced, by a digest that could not be marked
           behind : SUBSET Messages]     \* behind the read mark when their group was sent

Nowhere(status) ==
    [status |-> status, attempts |-> 0, due |-> 0, latest |-> 0, aged |-> FALSE, taken |-> FALSE]

Resting == [step |-> "idle", batch |-> {}, row |-> None, group |-> {}, unread |-> {}]

Init ==
    /\ link = "none"
    /\ chat = [started |-> 0, read |-> 0]
    /\ delivery = [m \in Messages |-> Nowhere("none")]
    /\ worker = Resting
    /\ crashes = 0
    /\ provider = [got |-> {}, textless |-> {}, twice |-> {}, unmarked |-> {},
                   behind |-> {}]

WithStatus(status) == {m \in Messages : delivery[m].status = status}

Pending == WithStatus("PENDING")

\* Updates every row of "rows"; nothing reads the rest of a row that has ended.
Ended(rows, status) ==
    [m \in Messages |-> IF m \in rows THEN Nowhere(status) ELSE delivery[m]]

-----------------------------------------------------------------------------
(* Linking the account *)

\* createLink and the answer of the bot: connect.
Connect ==
    /\ link # "enabled"
    /\ link' = "enabled"
    /\ UNCHANGED <<chat, delivery, worker, crashes, provider>>

\* The bot is stopped, or the account is not a resident's any more.
Disable ==
    /\ link = "enabled"
    /\ link' = "disabled"
    /\ UNCHANGED <<chat, delivery, worker, crashes, provider>>

\* What the queue has already taken goes on.
Disconnect ==
    /\ link # "none"
    /\ link' = "none"
    /\ delivery' = Ended(Pending, "SKIPPED")
    /\ UNCHANGED <<chat, worker, crashes, provider>>

-----------------------------------------------------------------------------
(* The chat *)

StartMessage ==
    /\ chat.started < MaxMessages
    /\ chat' = [chat EXCEPT !.started = @ + 1]
    /\ delivery' = [delivery EXCEPT ![chat.started + 1].status = "started"]
    /\ UNCHANGED <<link, worker, crashes, provider>>

\* Mutant: every message puts the digest off.
DueAfterOneMoreUncapped == DigestDelay

\* When the notification of the messages waiting is due, if one more is added.
DueAfterOneMore ==
    IF Pending = {} THEN DigestDelay
    ELSE Least(DigestDelay, Min({delivery[p].latest : p \in Pending}))

\* enqueueChat
EnqueueChat(m) ==
    LET due == DueAfterOneMore
        new == [Nowhere("PENDING") EXCEPT !.due = due, !.latest = MaxDigestDelay]
    IN  IF link = "enabled"
        THEN delivery' = [n \in Messages |->
                             IF n = m THEN new
                             ELSE IF n \in Pending THEN [delivery[n] EXCEPT !.due = due]
                             ELSE delivery[n]]
        ELSE delivery' = [delivery EXCEPT ![m] = Nowhere("SKIPPED")]

\* The conversation's row is locked from its update on, so the commit and
\* enqueueChat are one step.  A message without a link gets no row.
CommitMessage(m) ==
    /\ delivery[m].status = "started"
    /\ EnqueueChat(m)
    /\ UNCHANGED <<link, chat, worker, crashes, provider>>

\* myChat.  It marks the conversation after it has read it, if it looked unread, which
\* may have changed since: the mark may come at any time.
MarkRead ==
    /\ chat.started > 0
    /\ chat' = [chat EXCEPT !.read = chat.started]
    /\ UNCHANGED <<link, delivery, worker, crashes, provider>>

\* sendMessage of the resident: "now" is taken before the transaction, which may
\* wait for that of a message, so it may be any time so far.
WriteToStaff ==
    /\ \E now \in 0..chat.started : chat' = [chat EXCEPT !.read = now]
    /\ UNCHANGED <<link, delivery, worker, crashes, provider>>

-----------------------------------------------------------------------------
(* runQueue and process *)

Due(rows) == {m \in rows : delivery[m].status = "PENDING" /\ delivery[m].due = 0}

Stale == {m \in WithStatus("PROCESSING") : delivery[m].aged}

Revived(rows) ==
    [m \in Messages |-> IF m \in rows THEN [delivery[m] EXCEPT !.status = "PENDING", !.aged = FALSE]
                        ELSE delivery[m]]

\* Mutant: what a dead process has left stays.
RunQueueUnrevived ==
    /\ worker.step = "idle"
    /\ Due(Messages) # {}
    /\ worker' = [worker EXCEPT !.step = "reading", !.batch = Due(Messages)]
    /\ UNCHANGED <<link, chat, delivery, crashes, provider>>

\* The rows a dead process has left come back, then the batch is read.
RunQueue ==
    /\ worker.step = "idle"
    /\ Stale \cup Due(Messages) # {}
    /\ delivery' = Revived(Stale)
    /\ worker' = [worker EXCEPT !.step = "reading",
                                !.batch = {m \in Messages : /\ delivery'[m].status = "PENDING"
                                                            /\ delivery'[m].due = 0}]
    /\ UNCHANGED <<link, chat, crashes, provider>>

Taken(rows) ==
    [m \in Messages |-> IF m \in rows THEN [delivery[m] EXCEPT !.status = "PROCESSING",
                                                               !.aged = FALSE, !.taken = TRUE]
                        ELSE delivery[m]]

NextRow(rows) ==
    worker' = [Resting EXCEPT !.step = IF rows = {} THEN "idle" ELSE "reading", !.batch = rows]

\* Mutant: the row is taken as it was read.
ClaimUnchecked(m) ==
    /\ worker.step = "reading" /\ m \in worker.batch
    /\ delivery' = [Taken({m}) EXCEPT ![m].attempts = @ + 1]
    /\ worker' = [worker EXCEPT !.step = "claimed", !.batch = @ \ {m}, !.row = m]
    /\ UNCHANGED <<link, chat, crashes, provider>>

\* The claim: the row is taken if it is still pending and due.
Claim(m) ==
    /\ worker.step = "reading" /\ m \in worker.batch
    /\ IF m \in Due(Messages)
       THEN /\ delivery' = [Taken({m}) EXCEPT ![m].attempts = @ + 1]
            /\ worker' = [worker EXCEPT !.step = "claimed", !.batch = @ \ {m}, !.row = m]
       ELSE /\ delivery' = delivery
            /\ NextRow(worker.batch \ {m})
    /\ UNCHANGED <<link, chat, crashes, provider>>

\* Its group: everything of this resident that is due; their attempts do not count.
Gather ==
    /\ worker.step = "claimed"
    /\ delivery' = Taken(Due(Messages))
    /\ worker' = [worker EXCEPT !.step = "gathered", !.group = Due(Messages) \cup {worker.row}]
    /\ UNCHANGED <<link, chat, crashes, provider>>

Unread == {m \in worker.group : m > chat.read}

\* Nothing is sent to a resident who has unlinked or whose mark is past them all.
Prepare ==
    /\ worker.step = "gathered"
    /\ IF link # "enabled" \/ Unread = {}
       THEN /\ delivery' = Ended(worker.group, "SKIPPED")
            /\ NextRow(worker.batch)
            /\ provider' = provider
       ELSE /\ worker' = [worker EXCEPT !.step = "prepared", !.unread = Unread]
            /\ provider' = [provider EXCEPT !.behind = @ \cup (worker.group \ Unread)]
            /\ delivery' = delivery
    /\ UNCHANGED <<link, chat, crashes>>

Announced == provider.got \cup provider.textless

\* chatNotification: the texts a digest may have.  The bodies of the last Shown messages
\* by id, which is not the order of createdAt, are joined and cut at the end to the limit
\* of the messenger, so that the later ones may be lost behind a long one.  Of the others
\* there is their number, of attachments a label.
Texts(rows) ==
    {text \in SUBSET rows :
        /\ text # {} /\ Cardinality(text) <= Shown
        /\ rows \cap Long = {} => text = rows \/ Cardinality(text) = Shown}

\* The messenger takes a digest of all that is unread.
Take(text, heard) ==
    provider' = [provider EXCEPT
        !.got = @ \cup text,
        !.textless = (@ \cup worker.unread) \ (provider.got \cup text),
        !.twice = @ \cup (worker.unread \cap Announced),
        !.unmarked = IF heard THEN @ ELSE @ \cup worker.unread]

\* Mutant: a refusal is taken for an answer.
SendUnchecked ==
    /\ worker.step = "prepared"
    /\ worker' = [worker EXCEPT !.step = "accepted"]
    /\ provider' = provider \/ \E text \in Texts(worker.unread) : Take(text, TRUE)
    /\ UNCHANGED <<link, chat, delivery, crashes>>

\* The call.  The messenger takes the digest and says so, or the answer is lost
\* (a timeout, an answer that cannot be parsed), or it refuses.
Send ==
    /\ worker.step = "prepared"
    /\ \/ /\ worker' = [worker EXCEPT !.step = "refused"]
          /\ provider' = provider
       \/ \E text \in Texts(worker.unread), heard \in BOOLEAN :
             /\ worker' = [worker EXCEPT !.step = IF heard THEN "accepted" ELSE "refused"]
             /\ Take(text, heard)
    /\ UNCHANGED <<link, chat, delivery, crashes>>

MarkSent ==
    /\ worker.step = "accepted"
    /\ delivery' = Ended(worker.group, "SENT")
    /\ NextRow(worker.batch)
    /\ UNCHANGED <<link, chat, crashes, provider>>

\* What the messenger has answered for is not marked.
Unmark ==
    provider' = IF worker.step = "accepted"
                THEN [provider EXCEPT !.unmarked = @ \cup worker.unread] ELSE provider

\* A query of the "try" fails, one that reads the link, the user or the messages, a mark
\* SKIPPED, or the mark SENT after the messenger has answered: the catch takes it all
\* for a notification that was not sent.
QueryFails ==
    /\ worker.step \in {"gathered", "accepted"}
    /\ worker' = [worker EXCEPT !.step = "refused"]
    /\ Unmark
    /\ UNCHANGED <<link, chat, delivery, crashes>>

Retried(rows, attempts) ==
    [m \in Messages |-> IF m \in rows
        THEN [delivery[m] EXCEPT !.status = "PENDING", !.due = Backoff(attempts), !.aged = FALSE]
        ELSE delivery[m]]

\* The catch: row.attempts + 1 is what the claim has made of it.
Fail ==
    /\ worker.step = "refused"
    /\ LET attempts == delivery[worker.row].attempts
       IN  delivery' = IF attempts >= MaxAttempts THEN Ended(worker.group, "FAILED")
                       ELSE Retried(worker.group, attempts)
    /\ NextRow(worker.batch)
    /\ UNCHANGED <<link, chat, crashes, provider>>

\* The server goes down, or the database in the catch or before the "try", whose error
\* ends the batch: the rows stay PROCESSING.
Crash ==
    /\ worker.step # "idle" /\ crashes < MaxCrashes
    /\ crashes' = crashes + 1
    /\ worker' = Resting
    /\ Unmark
    /\ UNCHANGED <<link, chat, delivery>>

Earlier(t) == IF t = 0 THEN 0 ELSE t - 1

\* Time passes, for the rows that have something to wait for.
Tick ==
    /\ delivery' = [m \in Messages |->
          [delivery[m] EXCEPT !.due = Earlier(@), !.latest = Earlier(@),
                              !.aged = @ \/ delivery[m].status = "PROCESSING"]]
    /\ delivery' # delivery
    /\ UNCHANGED <<link, chat, worker, crashes, provider>>

Process ==
    \/ Gather \/ Prepare \/ Send \/ MarkSent \/ QueryFails \/ Fail
    \/ \E m \in Messages : Claim(m)

Next ==
    \/ Connect \/ Disable \/ Disconnect
    \/ StartMessage \/ (\E m \in Messages : CommitMessage(m)) \/ MarkRead \/ WriteToStaff
    \/ RunQueue \/ Process \/ Crash \/ Tick

Spec == Init /\ [][Next]_vars

\* The interval calls runQueue again and again; a call of the messenger ends within
\* fifteen seconds; time passes.
FairSpec == Spec /\ WF_vars(RunQueue) /\ WF_vars(Process) /\ WF_vars(Tick)

-----------------------------------------------------------------------------

\* A row marked SENT stands for a message whose text the messenger has taken, or for one
\* behind the read mark when its group was sent.  Or it was announced without its text,
\* because as many others have theirs or because of a long one: never because its digest
\* was refused.
SentWasAnnounced ==
    \A m \in WithStatus("SENT") :
        \/ m \in provider.got \cup provider.behind
        \/ /\ m \in provider.textless
           /\ Cardinality(provider.got) >= Shown \/ Announced \cap Long # {}

\* A message is announced again only after a digest that could not be marked: its answer
\* was lost, or the mark SENT failed, or the server went down before it.
RepeatedOnlyUnmarked == provider.twice \subseteq provider.unmarked

\* A notification that was not tried yet is due fifteen minutes after its message at
\* the latest, however many messages follow.
DigestInTime ==
    \A m \in Pending : delivery[m].taken \/ delivery[m].due <= delivery[m].latest

\* Every notification ends as sent, skipped or given up.
EveryDeliveryEnds ==
    \A m \in Messages :
        delivery[m].status \in {"PENDING", "PROCESSING"}
            ~> delivery[m].status \in {"SENT", "SKIPPED", "FAILED"}
=============================================================================
