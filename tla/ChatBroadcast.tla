---------------------------- MODULE ChatBroadcast ----------------------------
(***************************************************************************)
(* One broadcast of the staff: the request of the dialog, which keeps its  *)
(* requestId when it is sent again, broadcast of chats.controller.ts, and  *)
(* the delivery to each recipient by chat-broadcast.service.ts.            *)
(*                                                                         *)
(* What a delivery puts into the conversation and into the queue of        *)
(* notifications is one message here; NotificationQueue takes it from      *)
(* there.                                                                  *)
(***************************************************************************)
EXTENDS Naturals, FiniteSets

CONSTANTS
    Requests,     \* the requests sent with one requestId, each with files of its own
    Recipients,   \* the residents the filters give
    BatchSize,    \* BATCH_SIZE
    MaxRetries,   \* bound: retries of the failed recipients by staff
    MaxRestarts    \* bound: restarts of the server

ASSUME BroadcastAssumption ==
    /\ IsFiniteSet(Requests) /\ IsFiniteSet(Recipients)
    /\ BatchSize \in Nat \ {0} /\ MaxRetries \in Nat /\ MaxRestarts \in Nat

VARIABLES
    request,   \* the step each request is at
    files,     \* the requests whose files are on disk
    stored,    \* chat_broadcasts, by the request whose files they refer to
    row,       \* chat_broadcast_recipients of each broadcast
    messages,  \* chat_messages: how many each recipient has of each broadcast
    sender,    \* runPending: the rows it read, the one whose delivery has failed
    bounds     \* retries and crashes so far

broadcastVars == <<request, files, stored, row, messages, sender, bounds>>

Rows == Requests \X Recipients

Statuses == {"none", "PENDING", "SENT", "FAILED"}

BroadcastTypeOK ==
    /\ request \in [Requests -> {"unsent", "checked", "caught", "answered", "refused", "lost"}]
    /\ files \subseteq Requests
    /\ stored \subseteq Requests
    /\ row \in [Rows -> Statuses]
    /\ messages \in [Rows -> 0..(MaxRetries + 1)]
    /\ sender \in [batch : SUBSET Rows, failed : SUBSET Rows]
    /\ bounds \in [retries : 0..MaxRetries, crashes : 0..MaxRestarts]

Idle == [batch |-> {}, failed |-> {}]

BroadcastInit ==
    /\ request = [r \in Requests |-> "unsent"]
    /\ files = {}
    /\ stored = {}
    /\ row = [w \in Rows |-> "none"]
    /\ messages = [w \in Rows |-> 0]
    /\ sender = Idle
    /\ bounds = [retries |-> 0, crashes |-> 0]

sending == <<row, messages, sender, bounds>>

-----------------------------------------------------------------------------
(* broadcast *)

\* The files are stored while the body is read; findExisting looks for an earlier
\* request with this requestId, and its answer is given again.
Check(r) ==
    /\ request[r] = "unsent"
    /\ IF stored # {} THEN /\ request' = [request EXCEPT ![r] = "answered"]
                           /\ files' = files
                      ELSE /\ request' = [request EXCEPT ![r] = "checked"]
                           /\ files' = files \cup {r}
    /\ UNCHANGED <<stored, sending>>

\* A file is not acceptable, or the filters match nobody.
Reject(r) ==
    /\ request[r] = "checked"
    /\ request' = [request EXCEPT ![r] = "refused"]
    /\ files' = files \ {r}
    /\ UNCHANGED <<stored, sending>>

Store(r, outcome) ==
    /\ request[r] = "checked"
    /\ request' = [request EXCEPT ![r] = outcome]
    /\ stored' = stored \cup {r}
    /\ row' = [w \in Rows |-> IF w[1] = r THEN "PENDING" ELSE row[w]]
    /\ UNCHANGED <<files, messages, sender, bounds>>

\* Mutant: the requestId is not unique.
CreateAlways(r) == Store(r, "answered") \/ Store(r, "caught")

\* create, one transaction.  The requestId is unique: a second one fails.  It may also
\* fail for another reason, or commit and not be heard of.
Create(r) ==
    \/ stored = {} /\ (Store(r, "answered") \/ Store(r, "caught"))
    \/ /\ request[r] = "checked"
       /\ request' = [request EXCEPT ![r] = "caught"]
       /\ UNCHANGED <<files, stored, sending>>

\* Mutant: the files are removed whatever findExisting says.
CatchCleaning(r) ==
    /\ request[r] = "caught"
    /\ request' = [request EXCEPT ![r] = IF stored # {} THEN "answered" ELSE "refused"]
    /\ files' = files \ {r}
    /\ UNCHANGED <<stored, sending>>

\* The catch: findExisting again, and the files go unless the stored broadcast refers
\* to them.  When findExisting fails too, nothing is known and they stay.
Catch(r) ==
    /\ request[r] = "caught"
    /\ \/ /\ request' = [request EXCEPT ![r] = IF stored # {} THEN "answered" ELSE "refused"]
          /\ files' = files \ ({r} \ stored)
       \/ /\ request' = [request EXCEPT ![r] = "refused"]
          /\ files' = files
    /\ UNCHANGED <<stored, sending>>

-----------------------------------------------------------------------------
(* runPending and deliver *)

RowsWith(status) == {w \in Rows : row[w] = status}

RunPending ==
    /\ sender = Idle /\ RowsWith("PENDING") # {}
    /\ \E batch \in SUBSET RowsWith("PENDING") :
          /\ batch # {} /\ Cardinality(batch) <= BatchSize
          /\ sender' = [Idle EXCEPT !.batch = batch]
    /\ UNCHANGED <<request, files, stored, row, messages, bounds>>

Done(w) == [sender EXCEPT !.batch = @ \ {w}]

Failed(w) == [sender EXCEPT !.batch = @ \ {w}, !.failed = {w}]

\* Mutant: the recipient is marked after the transaction, as a step that may fail.
DeliverApart(w) ==
    /\ sender.failed = {} /\ w \in sender.batch
    /\ IF row[w] # "PENDING"
       THEN sender' = Done(w) /\ UNCHANGED <<row, messages>>
       ELSE \/ /\ row' = [row EXCEPT ![w] = "SENT"]
               /\ messages' = [messages EXCEPT ![w] = @ + 1]
               /\ sender' = Done(w)
            \/ /\ row' = row
               /\ messages' = [messages EXCEPT ![w] = @ + 1]
               /\ sender' = Failed(w)
    /\ UNCHANGED <<request, files, stored, bounds>>

\* deliver: the claim, the message and the mark are one transaction.  It rolls back,
\* or commits, and then may still look failed.
Deliver(w) ==
    /\ sender.failed = {} /\ w \in sender.batch
    /\ IF row[w] # "PENDING"
       THEN sender' = Done(w) /\ UNCHANGED <<row, messages>>
       ELSE \/ /\ row' = [row EXCEPT ![w] = "SENT"]
               /\ messages' = [messages EXCEPT ![w] = @ + 1]
               /\ sender' \in {Done(w), Failed(w)}
            \/ sender' = Failed(w) /\ UNCHANGED <<row, messages>>
    /\ UNCHANGED <<request, files, stored, bounds>>

\* Mutant: the failure is logged, the row stays.
MarkFailedUnwritten(w) ==
    /\ w \in sender.failed
    /\ sender' = [sender EXCEPT !.failed = {}]
    /\ UNCHANGED <<request, files, stored, row, messages, bounds>>

\* The catch of runPending: the row fails if it is still pending.
MarkFailed(w) ==
    /\ w \in sender.failed
    /\ row' = [row EXCEPT ![w] = IF @ = "PENDING" THEN "FAILED" ELSE @]
    /\ sender' = [sender EXCEPT !.failed = {}]
    /\ UNCHANGED <<request, files, stored, messages, bounds>>

\* retry
Retry ==
    /\ RowsWith("FAILED") # {} /\ bounds.retries < MaxRetries
    /\ row' = [w \in Rows |-> IF row[w] = "FAILED" THEN "PENDING" ELSE row[w]]
    /\ bounds' = [bounds EXCEPT !.retries = @ + 1]
    /\ UNCHANGED <<request, files, stored, messages, sender>>

\* The server goes down: what was under way is gone, the files uploaded stay.
Restart ==
    /\ bounds.crashes < MaxRestarts
    /\ bounds' = [bounds EXCEPT !.crashes = @ + 1]
    /\ request' = [r \in Requests |-> IF request[r] \in {"checked", "caught"} THEN "lost"
                                      ELSE request[r]]
    /\ sender' = Idle
    /\ UNCHANGED <<files, stored, row, messages>>

BroadcastNext ==
    \/ \E r \in Requests : Check(r) \/ Reject(r) \/ Create(r) \/ Catch(r)
    \/ \E w \in Rows : Deliver(w) \/ MarkFailed(w)
    \/ RunPending \/ Retry \/ Restart

BroadcastSpec == BroadcastInit /\ [][BroadcastNext]_broadcastVars

\* The interval calls runPending every second, and each delivery ends.
FairBroadcastSpec ==
    BroadcastSpec /\ WF_broadcastVars(RunPending) /\ WF_broadcastVars(\E w \in Rows : Deliver(w) \/ MarkFailed(w))

-----------------------------------------------------------------------------

\* However often the request is sent and its failures retried, a resident gets the
\* broadcast once, and a row says SENT iff its message is there.
OneMessagePerRecipient ==
    /\ \A w \in Rows : row[w] = "SENT" <=> messages[w] = 1
    /\ \A v, w \in Rows : v # w /\ v[2] = w[2] => messages[v] = 0 \/ messages[w] = 0
    /\ \A w \in Rows : messages[w] <= 1

\* The files a stored broadcast refers to are on disk: no request that believes it has
\* failed removes them.
StoredFilesExist == stored \subseteq files

\* Every recipient of a stored broadcast gets it, or is shown as failed.
EveryRecipientIsDecided == \A w \in Rows : row[w] = "PENDING" ~> row[w] \in {"SENT", "FAILED"}
=============================================================================
