--------------------------- MODULE PaymentImports ---------------------------
(***************************************************************************)
(* Payments imported from accounting, beside the push that books payments  *)
(* there: payment-imports-ingest.service.ts and the approval of            *)
(* payment-imports.controller.ts.  Accounting's list names the documents   *)
(* the push has booked and those of bank statements alike; the night's     *)
(* ingest leaves out what it finds as the document of a payment of ours.   *)
(*                                                                         *)
(* A document is named by what it books.                                   *)
(***************************************************************************)
EXTENDS AccountingPush, FiniteSets

CONSTANTS
    Statements, \* documents accounting has from bank statements
    Clerks      \* requests that approve a record

Documents == Payments \cup Statements

VARIABLES
    filed,    \* external: the statements accounting has
    record,   \* payment_import_records
    imported, \* payments with source IMPORTED_1C: how many for each document
    ingest,   \* the night's ingest: its step, the documents it has still to look at
    clerk     \* the document whose record each request has read

importVars == <<vars, filed, record, imported, ingest, clerk>>

IngestType ==
    [step : {"idle", "fetched", "compared"}, list : SUBSET Documents, known : SUBSET Documents]

ImportTypeOK ==
    /\ TypeOK
    /\ filed \subseteq Statements
    /\ record \in [Documents -> {"none", "NEEDS_REVIEW", "MATCHED"}]
    /\ imported \in [Documents -> Nat]
    /\ ingest \in IngestType
    /\ clerk \in [Clerks -> Documents \cup {None}]

NoIngest == [step |-> "idle", list |-> {}, known |-> {}]

ImportInit ==
    /\ Init
    /\ filed = {}
    /\ record = [d \in Documents |-> "none"]
    /\ imported = [d \in Documents |-> 0]
    /\ ingest = NoIngest
    /\ clerk = [k \in Clerks |-> None]

-----------------------------------------------------------------------------
(* ingest, at 03:00 *)

FileStatement(s) ==
    /\ s \notin filed
    /\ filed' = filed \cup {s}
    /\ UNCHANGED <<vars, record, imported, ingest, clerk>>

Listed == {p \in Payments : books[p] # None} \cup filed

\* Accounting lists the documents of the contracts it is asked for, which need not be
\* all: a contract has to have its identifiers.
Fetch ==
    /\ ingest = NoIngest
    /\ \E list \in SUBSET Listed \ {{}} :
          ingest' = [step |-> "fetched", list |-> list, known |-> {}]
    /\ UNCHANGED <<vars, filed, record, imported, clerk>>

\* Mutant: only what was imported before is known.
CompareRecords ==
    /\ ingest.step = "fetched"
    /\ ingest' = [ingest EXCEPT !.step = "compared",
                                !.known = {d \in ingest.list : record[d] # "none"}]
    /\ UNCHANGED <<vars, filed, record, imported, clerk>>

\* Mutant: what was on last night's list is not looked at again.
CompareAny ==
    /\ ingest.step = "fetched"
    /\ ingest' = [ingest EXCEPT !.step = "compared",
                                !.known = IF \E d \in ingest.list : record[d] # "none"
                                          THEN ingest.list ELSE {}]
    /\ UNCHANGED <<vars, filed, record, imported, clerk>>

\* What is known is read once: records there are, and documents of our own payments.
Compare ==
    /\ ingest.step = "fetched"
    /\ ingest' = [ingest EXCEPT !.step = "compared",
                     !.known = {d \in ingest.list : record[d] # "none"}
                               \cup {p \in ingest.list \cap Payments : payment[p].uid}]
    /\ UNCHANGED <<vars, filed, record, imported, clerk>>

\* A document that is known or that no single contract matches is skipped; the record of
\* another one is created by a statement of its own.
Ingest ==
    /\ ingest.step = "compared"
    /\ IF ingest.list = {} THEN ingest' = NoIngest /\ record' = record
       ELSE \E d \in ingest.list :
               /\ ingest' = [ingest EXCEPT !.list = @ \ {d}]
               /\ \/ record' = record
                  \/ /\ d \notin ingest.known
                     /\ record' = [record EXCEPT ![d] = "NEEDS_REVIEW"]
    /\ UNCHANGED <<vars, filed, imported, clerk>>

\* The call fails, or the server goes down: what is created stays.
IngestFails ==
    /\ ingest # NoIngest
    /\ ingest' = NoIngest
    /\ UNCHANGED <<vars, filed, record, imported, clerk>>

-----------------------------------------------------------------------------
(* approve *)

Open(k) ==
    /\ clerk[k] = None
    /\ \E d \in Documents : record[d] = "NEEDS_REVIEW" /\ clerk' = [clerk EXCEPT ![k] = d]
    /\ UNCHANGED <<vars, filed, record, imported, ingest>>

\* Mutant: the status read before the transaction is trusted.
ApproveTrusting(k) ==
    /\ clerk[k] # None
    /\ record' = [record EXCEPT ![clerk[k]] = "MATCHED"]
    /\ imported' = [imported EXCEPT ![clerk[k]] = @ + 1]
    /\ clerk' = [clerk EXCEPT ![k] = None]
    /\ UNCHANGED <<vars, filed, ingest>>

\* The transaction claims the record and creates the payment, or finds it claimed, or
\* is refused or fails and changes nothing.
Approve(k) ==
    /\ clerk[k] # None
    /\ clerk' = [clerk EXCEPT ![k] = None]
    /\ \/ /\ record[clerk[k]] = "NEEDS_REVIEW"
          /\ record' = [record EXCEPT ![clerk[k]] = "MATCHED"]
          /\ imported' = [imported EXCEPT ![clerk[k]] = @ + 1]
       \/ UNCHANGED <<record, imported>>
    /\ UNCHANGED <<vars, filed, ingest>>

-----------------------------------------------------------------------------

ImportNext ==
    \/ Next /\ UNCHANGED <<filed, record, imported, ingest, clerk>>
    \/ \E s \in Statements : FileStatement(s)
    \/ Fetch \/ Compare \/ Ingest \/ IngestFails
    \/ \E k \in Clerks : Open(k) \/ Approve(k)

ImportSpec == ImportInit /\ [][ImportNext]_importVars

\* The job runs every night; some night accounting lists a document, a contract
\* matches it and the server stays up.
NightlyIngest ==
    /\ WF_importVars(Compare) /\ WF_importVars(Ingest)
    /\ \A d \in Statements : /\ SF_importVars(Fetch /\ d \in ingest'.list)
                             /\ SF_importVars(Compare /\ d \in ingest.list)
                             /\ SF_importVars(Ingest /\ record[d] # record'[d])

FairImportSpec == ImportSpec /\ NightlyIngest

-----------------------------------------------------------------------------

\* Two clerks who approve the same record, and nights that list a document again,
\* credit it once.
ImportedOnce ==
    \A d \in Documents : imported[d] = IF record[d] = "MATCHED" THEN 1 ELSE 0

\* The document of a website payment whose number is stored before the night's ingest
\* begins is never offered as a payment of its own, unless a push that overlaps another
\* clears the number again.  Else only an answer that is missing or names no document, or
\* one stored while the ingest is under way, lets it through.
OwnIsNotOffered ==
    \A p \in Payments :
        [](payment[p].uid /\ ingest = NoIngest /\ record[p] = "none"
               => [](record[p] = "none" \/ p \in cleared))

\* Every document of a statement is offered one day, although a failed night leaves its
\* list half done and the next one starts anew.
EveryStatementIsOffered == \A s \in Statements : s \in filed ~> record[s] # "none"
=============================================================================
