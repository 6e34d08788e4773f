--------------------------- MODULE OnlinePayments ---------------------------
(***************************************************************************)
(* Online payments from the payment intent to the credited payment and its *)
(* receipt: createIntent and getIntent (my-payments.controller.ts), the    *)
(* page that polls getIntent, the bank and the cash register behind their  *)
(* providers.  Every call to another system and every database transaction *)
(* is a step of its own.  What happens to the payment once it is credited  *)
(* is the business of ContractLedger and AccountingPush.                   *)
(***************************************************************************)
EXTENDS Naturals

CONSTANTS
    Intents,  \* payment intents
    Tabs      \* browser tabs that may show an intent

VARIABLES
    intent,   \* payment_intents: status, and fiscal_status ("none": no fiscal_uuid)
    payment,  \* how many payments the intent has been credited with
    bank,     \* external: the bank's side of the intent
    kassa,    \* external: the cash register's side
    page      \* the request each tab has in progress for each intent

vars == <<intent, payment, bank, kassa, page>>

IntentType ==
    [status : {"absent", "CREATED", "PENDING_BANK", "SUCCEEDED", "FAILED"},
     receipt : {"none", "wait", "done", "fail"}]

Steps == {"closed", "poll", "bank", "decline", "credit", "insert", "register",
          "registered", "receipt"}

TypeOK ==
    /\ intent \in [Intents -> IntentType]
    /\ payment \in [Intents -> Nat]
    /\ bank \in [Intents -> {"none", "open", "paid", "declined"}]
    /\ kassa \in [Intents -> {"none", "registered", "done", "fail"}]
    /\ page \in [Intents -> [Tabs -> Steps]]

Init ==
    /\ intent = [i \in Intents |-> [status |-> "absent", receipt |-> "none"]]
    /\ payment = [i \in Intents |-> 0]
    /\ bank = [i \in Intents |-> "none"]
    /\ kassa = [i \in Intents |-> "none"]
    /\ page = [i \in Intents |-> [g \in Tabs |-> "closed"]]

-----------------------------------------------------------------------------
(* createIntent *)

CreateIntent(i) ==
    /\ intent[i].status = "absent"
    /\ intent' = [intent EXCEPT ![i].status = "CREATED"]
    /\ UNCHANGED <<payment, bank, kassa, page>>

\* The start request reaches the bank; its answer may get lost.
StartPayment(i) ==
    /\ intent[i].status = "CREATED" /\ bank[i] = "none"
    /\ bank' = [bank EXCEPT ![i] = "open"]
    /\ UNCHANGED <<intent, payment, kassa, page>>

\* The bank's token is stored and the resident is sent to the bank's page.
StartDone(i) ==
    /\ intent[i].status = "CREATED" /\ bank[i] = "open"
    /\ intent' = [intent EXCEPT ![i].status = "PENDING_BANK"]
    /\ UNCHANGED <<payment, bank, kassa, page>>

StartFailed(i) ==
    /\ intent[i].status = "CREATED"
    /\ intent' = [intent EXCEPT ![i].status = "FAILED"]
    /\ UNCHANGED <<payment, bank, kassa, page>>

\* The resident pays or is declined; the bank does not change its mind.
BankDecides(i) ==
    /\ bank[i] = "open" /\ intent[i].status = "PENDING_BANK"
    /\ \E result \in {"paid", "declined"} : bank' = [bank EXCEPT ![i] = result]
    /\ UNCHANGED <<intent, payment, kassa, page>>

KassaDecides(i) ==
    /\ kassa[i] = "registered"
    /\ \E result \in {"done", "fail"} : kassa' = [kassa EXCEPT ![i] = result]
    /\ UNCHANGED <<intent, payment, bank, page>>

-----------------------------------------------------------------------------
(* getIntent, polled by a page.  A failed request stops the polling; so does *)
(* any status but PENDING_BANK and CREATED.                                  *)

GoOn(i, g, step) == page' = [page EXCEPT ![i][g] = step]

Reply(i, g, again) == GoOn(i, g, IF again THEN "poll" ELSE "closed")

OpenPage(i, g) ==
    /\ page[i][g] = "closed" /\ intent[i].status # "absent"
    /\ GoOn(i, g, "poll")
    /\ UNCHANGED <<intent, payment, bank, kassa>>

\* The tab is closed, the request fails or the server goes down.
LosePage(i, g) ==
    /\ page[i][g] # "closed"
    /\ GoOn(i, g, "closed")
    /\ UNCHANGED <<intent, payment, bank, kassa>>

\* A receipt that is registered and not done yet is asked for.
AskForReceipt(i, g) ==
    IF intent[i].status = "SUCCEEDED" /\ intent[i].receipt \in {"wait", "fail"}
    THEN GoOn(i, g, "receipt") ELSE Reply(i, g, intent[i].status = "CREATED")

GetIntent(i, g) ==
    /\ page[i][g] = "poll"
    /\ IF intent[i].status = "PENDING_BANK" THEN GoOn(i, g, "bank") ELSE AskForReceipt(i, g)
    /\ UNCHANGED <<intent, payment, bank, kassa>>

\* Mutant: a payment in progress is taken for a success.
AskBankOptimist(i, g) ==
    /\ page[i][g] = "bank"
    /\ CASE bank[i] = "declined" -> GoOn(i, g, "decline")
         [] OTHER -> GoOn(i, g, "credit")
    /\ UNCHANGED <<intent, payment, bank, kassa>>

\* Mutant: a payment in progress is taken for a failure.
AskBankImpatient(i, g) ==
    /\ page[i][g] = "bank"
    /\ IF bank[i] = "paid" THEN GoOn(i, g, "credit") ELSE GoOn(i, g, "decline")
    /\ UNCHANGED <<intent, payment, bank, kassa>>

AskBank(i, g) ==
    /\ page[i][g] = "bank"
    /\ CASE bank[i] = "paid"     -> GoOn(i, g, "credit")
         [] bank[i] = "declined" -> GoOn(i, g, "decline")
         [] OTHER -> Reply(i, g, TRUE)
    /\ UNCHANGED <<intent, payment, bank, kassa>>

Decline(i, g) ==
    /\ page[i][g] = "decline"
    /\ intent' = [intent EXCEPT ![i].status = "FAILED"]
    /\ Reply(i, g, FALSE)
    /\ UNCHANGED <<payment, bank, kassa>>

\* The crediting transaction looks at the intent again; an intent another
\* request has finished is credited already, and only its receipt is seen to.
CreditRead(i, g) ==
    /\ page[i][g] = "credit"
    /\ CASE intent[i].status = "PENDING_BANK" -> GoOn(i, g, "insert")
         [] intent[i].status = "SUCCEEDED" /\ intent[i].receipt = "none" -> GoOn(i, g, "register")
         [] OTHER -> AskForReceipt(i, g)
    /\ UNCHANGED <<intent, payment, bank, kassa>>

\* Mutant: the bank's reference of a payment is not unique.
CreditCommitTwice(i, g) ==
    /\ page[i][g] = "insert"
    /\ payment' = [payment EXCEPT ![i] = @ + 1]
    /\ intent' = [intent EXCEPT ![i].status = "SUCCEEDED"]
    /\ GoOn(i, g, IF intent[i].receipt = "none" THEN "register" ELSE "receipt")
    /\ UNCHANGED <<bank, kassa>>

\* The payment is inserted with the bank's reference, which is unique: of two
\* transactions that found the intent pending the second one fails.
CreditCommit(i, g) ==
    /\ page[i][g] = "insert"
    /\ \/ /\ payment[i] = 0
          /\ payment' = [payment EXCEPT ![i] = @ + 1]
          /\ intent' = [intent EXCEPT ![i].status = "SUCCEEDED"]
          /\ GoOn(i, g, "register")
       \/ /\ payment[i] > 0
          /\ Reply(i, g, FALSE)
          /\ UNCHANGED <<intent, payment>>
    /\ UNCHANGED <<bank, kassa>>

\* registerFiscalReceipt: the register knows the intent by its external id, and
\* what goes wrong here is swallowed.
RegisterReceipt(i, g) ==
    /\ page[i][g] = "register"
    /\ \/ /\ kassa' = [kassa EXCEPT ![i] = IF @ = "none" THEN "registered" ELSE @]
          /\ GoOn(i, g, "registered")
       \/ /\ Reply(i, g, FALSE)
          /\ UNCHANGED kassa
    /\ UNCHANGED <<intent, payment, bank>>

StoreReceipt(i, g) ==
    /\ page[i][g] = "registered"
    /\ intent' = [intent EXCEPT ![i].receipt = "wait"]
    /\ GoOn(i, g, "receipt")
    /\ UNCHANGED <<payment, bank, kassa>>

\* Mutant: the register's answer is stored as it is, the waiting one too.
AskKassaVerbatim(i, g) ==
    /\ page[i][g] = "receipt"
    /\ intent' = [intent EXCEPT ![i].receipt = kassa[i]]
    /\ Reply(i, g, FALSE)
    /\ UNCHANGED <<payment, bank, kassa>>

\* reconcileFiscalStatus
AskKassa(i, g) ==
    /\ page[i][g] = "receipt"
    /\ intent' = [intent EXCEPT ![i].receipt = IF kassa[i] \in {"done", "fail"}
                                                THEN kassa[i] ELSE @]
    /\ Reply(i, g, FALSE)
    /\ UNCHANGED <<payment, bank, kassa>>

Next ==
    \E i \in Intents :
        \/ CreateIntent(i) \/ StartPayment(i) \/ StartDone(i) \/ StartFailed(i)
        \/ BankDecides(i) \/ KassaDecides(i)
        \/ \E g \in Tabs :
              \/ OpenPage(i, g) \/ LosePage(i, g) \/ GetIntent(i, g) \/ AskBank(i, g)
              \/ Decline(i, g) \/ CreditRead(i, g) \/ CreditCommit(i, g)
              \/ RegisterReceipt(i, g) \/ StoreReceipt(i, g) \/ AskKassa(i, g)

Spec == Init /\ [][Next]_vars

\* No job of the server looks at pending intents: the resident has to come back,
\* and some request has to get through.
ResidentReturns ==
    \A i \in Intents :
        /\ SF_vars(\E g \in Tabs : OpenPage(i, g))
        /\ SF_vars(\E g \in Tabs : GetIntent(i, g))
        /\ SF_vars(\E g \in Tabs : AskBank(i, g))
        /\ SF_vars(\E g \in Tabs : CreditRead(i, g))
        /\ SF_vars(\E g \in Tabs : CreditCommit(i, g))

FairSpec == Spec /\ ResidentReturns

-----------------------------------------------------------------------------

\* However many tabs ask the bank at once, an intent is credited with one payment.
CreditedOnce == \A i \in Intents : payment[i] <= 1

\* An intent is shown as paid exactly when its payment is in the ledger: a late
\* answer of one request never turns the outcome another one has stored.
SucceededIsCredited ==
    \A i \in Intents : intent[i].status = "SUCCEEDED" <=> payment[i] > 0

\* What CreditOnce promises of an intent.
Phase(i) ==
    IF payment[i] > 0 THEN "credited"
    ELSE IF intent[i].status = "FAILED" THEN "failed"
    ELSE IF bank[i] = "paid" THEN "paid"
    ELSE "unpaid"

Promise == INSTANCE CreditOnce WITH phase <- [i \in Intents |-> Phase(i)]

\* The intents, the pages and the bank together implement CreditOnce: money the
\* bank did not take is never credited, money it took is never called failed.
CreditsWhatTheBankTook == Promise!Spec

\* Money the bank has taken is credited once the resident comes back.
PaidIsCredited == \A i \in Intents : bank[i] = "paid" ~> payment[i] > 0
=============================================================================
