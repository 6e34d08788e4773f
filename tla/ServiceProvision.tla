-------------------------- MODULE ServiceProvision --------------------------
(***************************************************************************)
(* A service provision document of one month: computeAndSave, sendDocuments*)
(* and retryUnsyncedMonth of service-provision-doc.service.ts, run by its  *)
(* scheduler, at startup and by the endpoints of billing.controller.ts.    *)
(* Reading the charges, saving the document, reading it for sending, the   *)
(* call and the mark are steps of their own; nothing joins them.           *)
(*                                                                         *)
(* What a month's charges amount to is a version here, which later         *)
(* accruals, terminations and penalties replace.                           *)
(***************************************************************************)
EXTENDS Naturals

CONSTANTS
    Scheduled, Startup, Manual,  \* the cron jobs, the recovery at startup, the endpoints
    MaxVersions,                 \* bound: changes of the charges
    Absent

ASSUME ProvisionAssumption ==
    /\ Scheduled # Manual /\ Scheduled # Startup /\ Startup # Manual
    /\ MaxVersions \in Nat \ {0}
    /\ Absent \notin Nat

Jobs == {Scheduled, Startup, Manual}
ChargeVersions == 1..MaxVersions

VARIABLES
    mapped,    \* every contract charged has its two identifiers of accounting
    charges,   \* what the month's accruals and penalties amount to now
    month,     \* where the document's month is, seen from today
    document,  \* service_provision_documents: raw_payload and the sync status
    ledger,    \* external: what accounting has for this document
    job,       \* what each job is doing, and with which payload
    overlap    \* history: the last save came while a send had read the document before,
               \* or was of a job that knew of none and left the mark of the one there was

provisionVars == <<mapped, charges, month, document, ledger, job, overlap>>

Payloads == [charges : ChargeVersions, mapped : BOOLEAN]

JobSteps == {"idle", "save", "saveAndSend", "create", "createAndSend", "send", "call",
             "accepted", "rejected"}

ProvisionTypeOK ==
    /\ mapped \in BOOLEAN
    /\ charges \in ChargeVersions
    /\ month \in {"current", "previous", "older"}
    /\ document \in [payload : Payloads \cup {Absent}, sync : {"NOT_SYNCED", "SYNCED", "FAILED"}]
    /\ ledger \in ChargeVersions \cup {Absent}
    /\ job \in [Jobs -> [step : JobSteps, payload : Payloads \cup {Absent}]]
    /\ overlap \in BOOLEAN

Resting == [step |-> "idle", payload |-> Absent]

ProvisionInit ==
    /\ mapped = FALSE
    /\ charges = 1
    /\ month = "current"
    /\ document = [payload |-> Absent, sync |-> "NOT_SYNCED"]
    /\ ledger = Absent
    /\ job = [j \in Jobs |-> Resting]
    /\ overlap = FALSE

Step(j, step) == job' = [job EXCEPT ![j].step = step]

-----------------------------------------------------------------------------
(* The month *)

\* ContractApproval has stored the identifiers of the last contract.
Identify ==
    /\ ~mapped
    /\ mapped' = TRUE
    /\ UNCHANGED <<charges, month, document, ledger, job, overlap>>

\* The charges change; one of them may be of a contract that is not approved yet.
Charge ==
    /\ charges < MaxVersions
    /\ charges' = charges + 1
    /\ mapped' \in {mapped, FALSE}
    /\ UNCHANGED <<month, document, ledger, job, overlap>>

MonthPasses ==
    /\ month' = CASE month = "current" -> "previous" [] month = "previous" -> "older"
                  [] OTHER -> month
    /\ month' # month
    /\ UNCHANGED <<mapped, charges, document, ledger, job, overlap>>

-----------------------------------------------------------------------------
(* computeAndSave *)

\* The lines, with the identifiers the contracts have now.
Computed(next) == [step |-> next, payload |-> [charges |-> charges, mapped |-> mapped]]

Compute(j, next) ==
    /\ job[j] = Resting
    /\ job' = [job EXCEPT ![j] = Computed(next)]
    /\ UNCHANGED <<mapped, charges, month, document, ledger, overlap>>

\* Created on the first of the month, recalculated every night.
Prepare == month = "current" /\ Compute(Scheduled, "save")

\* Recalculated and sent on the last evening.
FinalRun == month = "current" /\ Compute(Scheduled, "saveAndSend")

\* The server goes down and comes back; what was under way is gone.  The recovery
\* recalculates the current month, and sends it too on its last evening, and the
\* previous one.
Restart ==
    /\ \E next \in {"save", "saveAndSend"} :
          /\ \/ month = "current"
             \/ month = "previous" /\ next = "saveAndSend"
          /\ job' = [j \in Jobs |-> IF j = Startup THEN Computed(next) ELSE Resting]
    /\ UNCHANGED <<mapped, charges, month, document, ledger, overlap>>

Recalculate == document.payload # Absent /\ Compute(Manual, "save")

Sending(j) == job[j].step \in {"call", "accepted", "rejected"}

\* Whether there is a document is read before the upsert.
FindNone(j) ==
    /\ document.payload = Absent
    /\ \/ job[j].step = "save" /\ Step(j, "create")
       \/ job[j].step = "saveAndSend" /\ Step(j, "createAndSend")
    /\ UNCHANGED <<mapped, charges, month, document, ledger, overlap>>

FoundNone(j) == job[j].step \in {"create", "createAndSend"}

Saved(j, sync) ==
    /\ \/ job[j].step \in {"save", "saveAndSend"} /\ document.payload # Absent
       \/ FoundNone(j)
    /\ document' = [payload |-> job[j].payload, sync |-> sync]
    /\ job' = [job EXCEPT ![j] = [step |-> IF job[j].step \in {"save", "create"}
                                           THEN "idle" ELSE "send",
                                  payload |-> Absent]]
    /\ overlap' = \/ \E other \in Jobs \ {j} : Sending(other)
                  \/ FoundNone(j) /\ document.sync = "SYNCED"
    /\ UNCHANGED <<mapped, charges, month, ledger>>

\* Mutant: the mark stays whatever the document says now.
SaveKeepingMark(j) == Saved(j, document.sync)

\* The upsert.  payloadChanged compares the text of the stored object, whose keys the
\* jsonb column has put in an order of its own, with that of the new one: they differ
\* even when the payloads are equal, and the document is to be sent again.  To a job that
\* has found none nothing has changed, and the mark of one created meanwhile stays.
Save(j) == Saved(j, IF FoundNone(j) THEN document.sync ELSE "NOT_SYNCED")

-----------------------------------------------------------------------------
(* sendDocuments *)

\* Accounting can place every line.
Complete == document.payload # Absent /\ document.payload.mapped

\* buildPushItem: a document with a line accounting cannot place is blocked as a whole.
ReadForSending(j) ==
    /\ document.payload # Absent
    /\ job' = [job EXCEPT ![j] = IF Complete
                                 THEN [step |-> "call", payload |-> document.payload]
                                 ELSE Resting]
    /\ UNCHANGED <<mapped, charges, month, document, ledger, overlap>>

\* Of the previous month the recovery sends what is not marked as sent.
SendAfterSave(j) ==
    /\ job[j].step = "send"
    /\ IF j = Startup /\ month # "current" /\ document.sync = "SYNCED"
       THEN /\ job' = [job EXCEPT ![j] = Resting]
            /\ UNCHANGED <<mapped, charges, month, document, ledger, overlap>>
       ELSE ReadForSending(j)

\* Mutant: a document that was rejected is not tried again.
RetryPreviousNew ==
    /\ job[Scheduled] = Resting
    /\ month = "previous" /\ document.sync = "NOT_SYNCED"
    /\ ReadForSending(Scheduled)

\* retryUnsyncedMonth, every evening, with the payload as it was saved.
RetryPrevious ==
    /\ job[Scheduled] = Resting
    /\ month = "previous" /\ document.sync # "SYNCED"
    /\ ReadForSending(Scheduled)

\* Any document may be sent by hand, also one marked as sent.
SendByHand == job[Manual] = Resting /\ ReadForSending(Manual)

\* Accounting books the document and says so, books it and is not heard, rejects it,
\* or is not reached.
Call(j) ==
    /\ job[j].step = "call"
    /\ \/ ledger' = job[j].payload.charges /\ Step(j, "accepted")
       \/ ledger' = job[j].payload.charges /\ job' = [job EXCEPT ![j] = Resting]
       \/ ledger' = ledger /\ Step(j, "rejected")
       \/ ledger' = ledger /\ job' = [job EXCEPT ![j] = Resting]
    /\ UNCHANGED <<mapped, charges, month, document, overlap>>

\* The answer is written by id, whatever the document has become.
Mark(j) ==
    /\ job[j].step \in {"accepted", "rejected"}
    /\ document' = [document EXCEPT !.sync = IF job[j].step = "accepted" THEN "SYNCED" ELSE "FAILED"]
    /\ job' = [job EXCEPT ![j] = Resting]
    /\ UNCHANGED <<mapped, charges, month, ledger, overlap>>

\* A step fails, and the job with it.
Fail(j) ==
    /\ job[j] # Resting
    /\ job' = [job EXCEPT ![j] = Resting]
    /\ UNCHANGED <<mapped, charges, month, document, ledger, overlap>>

Advance(j) == FindNone(j) \/ Save(j) \/ SendAfterSave(j) \/ Call(j) \/ Mark(j)

ProvisionNext ==
    \/ Identify \/ Charge \/ MonthPasses
    \/ Prepare \/ FinalRun \/ Restart \/ RetryPrevious
    \/ Recalculate \/ SendByHand
    \/ \E j \in Jobs : Advance(j) \/ Fail(j)

ProvisionSpec == ProvisionInit /\ [][ProvisionNext]_provisionVars

\* Every evening the job runs, and gets somewhere or fails; some evening accounting
\* books the document and says so, and the answer is stored.
EveningsPass ==
    /\ SF_provisionVars(RetryPrevious)
    /\ WF_provisionVars(Advance(Scheduled) \/ Fail(Scheduled))
    /\ SF_provisionVars(Call(Scheduled) /\ job'[Scheduled].step = "accepted")
    /\ SF_provisionVars(Mark(Scheduled) /\ document'.sync = "SYNCED")

FairProvisionSpec == ProvisionSpec /\ EveningsPass

-----------------------------------------------------------------------------

\* A document marked as sent is in accounting as it is here, unless it was recalculated
\* while it was being sent, or by a job that had looked before it was created; the next
\* recalculation mends that.
SyncedMatchesUnlessOverlap ==
    document.sync = "SYNCED" => overlap \/ ledger = document.payload.charges

\* A document of the previous month that names every contract is sent one evening: no
\* rejection, lost answer or failure is the end.  Older months are left to the staff, and
\* so is a document that an older recalculation, saved late, has put back.
PreviousMonthIsSent ==
    month = "previous" /\ Complete ~> document.sync = "SYNCED" \/ month = "older" \/ ~Complete
=============================================================================
