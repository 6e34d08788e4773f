----------------------- MODULE OnlinePaymentsProofs -----------------------
(***************************************************************************)
(* What OnlinePayments' run shows of three tabs and one intent, for any    *)
(* number of both: crediting happens once and only with money the bank has *)
(* taken, and the module implements CreditOnce.                            *)
(*                                                                         *)
(* The strengthening relates each request in progress to the bank's answer *)
(* it acts on.  The answer is used a step later than it was read, and that *)
(* is sound because the bank does not change its mind.                     *)
(***************************************************************************)
EXTENDS OnlinePayments, TLAPS

\* The bank has decided only on intents the resident was sent to it with, a
\* failed intent is not one it took money for, a credited one is.
Settled(i) ==
    /\ payment[i] \in {0, 1}
    /\ intent[i].status = "SUCCEEDED" <=> payment[i] = 1
    /\ bank[i] \in {"paid", "declined"} => intent[i].status \notin {"absent", "CREATED"}
    /\ bank[i] = "paid" => intent[i].status # "FAILED"
    /\ payment[i] = 1 => bank[i] = "paid"

\* A request acts on an answer the bank has given and stands by.
AnswerStands(i, g) ==
    /\ page[i][g] \in {"credit", "insert"} => bank[i] = "paid"
    /\ page[i][g] = "decline" => bank[i] = "declined"

IInv ==
    /\ TypeOK
    /\ \A i \in Intents : Settled(i)
    /\ \A i \in Intents, g \in Tabs : AnswerStands(i, g)

\* What a page step keeps: the page is a page and the other requests stay put.
LEMMA GoOnKeepsType ==
  ASSUME TypeOK, NEW i \in Intents, NEW g \in Tabs, NEW step \in Steps, GoOn(i, g, step)
  PROVE  /\ page' \in [Intents -> [Tabs -> Steps]]
         /\ page'[i][g] = step
         /\ \A j \in Intents, h \in Tabs : <<j, h>> # <<i, g>> => page'[j][h] = page[j][h]
<1>1. page \in [Intents -> [Tabs -> Steps]]
  BY DEF TypeOK
<1> QED
  BY <1>1 DEF GoOn

\* A page step to "step" keeps every request's answer, if the new one has its own.
LEMMA GoOnKeepsAnswers ==
  ASSUME IInv, NEW i \in Intents, NEW g \in Tabs, NEW step \in Steps, GoOn(i, g, step),
         UNCHANGED bank,
         step \in {"credit", "insert"} => bank[i] = "paid",
         step = "decline" => bank[i] = "declined"
  PROVE  /\ page' \in [Intents -> [Tabs -> Steps]]
         /\ \A j \in Intents, h \in Tabs : AnswerStands(j, h)'
<1>1. TypeOK
  BY DEF IInv
<1>2. /\ page' \in [Intents -> [Tabs -> Steps]]
      /\ page'[i][g] = step
      /\ \A j \in Intents, h \in Tabs : <<j, h>> # <<i, g>> => page'[j][h] = page[j][h]
  BY <1>1, GoOnKeepsType
<1>3. ASSUME NEW j \in Intents, NEW h \in Tabs PROVE AnswerStands(j, h)'
  <2>1. CASE <<j, h>> = <<i, g>>
    BY <2>1, <1>2 DEF AnswerStands
  <2>2. CASE <<j, h>> # <<i, g>>
    BY <2>2, <1>2, <1>3 DEF AnswerStands, IInv
  <2> QED
    BY <2>1, <2>2
<1> QED
  BY <1>2, <1>3

\* Steps that leave intents, payments and the bank alone: only pages move, and
\* the register.
LEMMA PageStep ==
  ASSUME IInv, NEW i \in Intents, NEW g \in Tabs, NEW step \in Steps, GoOn(i, g, step),
         UNCHANGED <<intent, payment, bank>>,
         kassa' \in [Intents -> {"none", "registered", "done", "fail"}],
         step \in {"credit", "insert"} => bank[i] = "paid",
         step = "decline" => bank[i] = "declined"
  PROVE  IInv'
<1>1. /\ page' \in [Intents -> [Tabs -> Steps]]
      /\ \A j \in Intents, h \in Tabs : AnswerStands(j, h)'
  BY GoOnKeepsAnswers
<1>2. TypeOK'
  BY <1>1 DEF IInv, TypeOK
<1>3. \A j \in Intents : Settled(j)'
  BY DEF IInv, Settled
<1> QED
  BY <1>1, <1>2, <1>3 DEF IInv

LEMMA InitInvariant == Init => IInv
<1> SUFFICES ASSUME Init PROVE IInv
  OBVIOUS
<1>1. TypeOK
  BY DEF Init, TypeOK, IntentType, Steps
<1>2. ASSUME NEW i \in Intents PROVE Settled(i)
  BY DEF Init, Settled
<1>3. ASSUME NEW i \in Intents, NEW g \in Tabs PROVE AnswerStands(i, g)
  BY DEF Init, AnswerStands
<1> QED
  BY <1>1, <1>2, <1>3 DEF IInv

\* Creating an intent and starting its payment: no request acts on an answer of
\* the bank yet.
LEMMA IntentStep ==
  ASSUME IInv, NEW i \in Intents,
         CreateIntent(i) \/ StartDone(i) \/ StartFailed(i)
  PROVE  IInv'
<1>1. TypeOK /\ Settled(i)
  BY DEF IInv
<1>2. PICK status \in {"CREATED", "PENDING_BANK", "FAILED"} :
        /\ intent' = [intent EXCEPT ![i].status = status]
        /\ intent[i].status \in {"absent", "CREATED"}
        /\ UNCHANGED <<payment, bank, kassa, page>>
  BY DEF CreateIntent, StartDone, StartFailed
<1>3. intent \in [Intents -> IntentType]
  BY <1>1 DEF TypeOK
<1>4. /\ intent' \in [Intents -> IntentType]
      /\ intent'[i].status = status
      /\ \A j \in Intents : j # i => intent'[j] = intent[j]
  BY <1>2, <1>3 DEF IntentType
<1>5. TypeOK'
  BY <1>1, <1>2, <1>4 DEF TypeOK
<1>6. ASSUME NEW j \in Intents PROVE Settled(j)'
  <2>1. Settled(j)
    BY DEF IInv
  <2>2. CASE j = i
    BY <2>1, <2>2, <1>2, <1>4 DEF Settled
  <2>3. CASE j # i
    BY <2>1, <2>3, <1>2, <1>4 DEF Settled
  <2> QED
    BY <2>2, <2>3
<1>7. ASSUME NEW j \in Intents, NEW g \in Tabs PROVE AnswerStands(j, g)'
  BY <1>2 DEF AnswerStands, IInv
<1> QED
  BY <1>5, <1>6, <1>7 DEF IInv

\* The bank takes the intent and decides on it once.
LEMMA BankStep ==
  ASSUME IInv, NEW i \in Intents, StartPayment(i) \/ BankDecides(i)
  PROVE  IInv'
<1>1. TypeOK
  BY DEF IInv
<1>2. PICK result \in {"open", "paid", "declined"} :
        /\ bank' = [bank EXCEPT ![i] = result]
        /\ bank[i] \in {"none", "open"}
        /\ result # "open" => intent[i].status = "PENDING_BANK"
        /\ UNCHANGED <<intent, payment, kassa, page>>
  BY DEF StartPayment, BankDecides
<1>3. /\ bank' \in [Intents -> {"none", "open", "paid", "declined"}]
      /\ bank'[i] = result
      /\ \A j \in Intents : j # i => bank'[j] = bank[j]
  BY <1>1, <1>2 DEF TypeOK
<1>4. TypeOK'
  BY <1>1, <1>2, <1>3 DEF TypeOK
<1>5. ASSUME NEW j \in Intents PROVE Settled(j)'
  <2>1. Settled(j)
    BY DEF IInv
  <2>2. CASE j = i
    BY <2>1, <2>2, <1>2, <1>3 DEF Settled
  <2>3. CASE j # i
    BY <2>1, <2>3, <1>2, <1>3 DEF Settled
  <2> QED
    BY <2>2, <2>3
<1>6. ASSUME NEW j \in Intents, NEW g \in Tabs PROVE AnswerStands(j, g)'
  <2>1. AnswerStands(j, g)
    BY DEF IInv
  <2>2. CASE j = i
    BY <2>1, <2>2, <1>2, <1>3 DEF AnswerStands
  <2>3. CASE j # i
    BY <2>1, <2>3, <1>2, <1>3 DEF AnswerStands
  <2> QED
    BY <2>2, <2>3
<1> QED
  BY <1>4, <1>5, <1>6 DEF IInv

\* The receipt of an intent is stored; its status stays.
LEMMA ReceiptStep ==
  ASSUME IInv, NEW i \in Intents, NEW g \in Tabs, StoreReceipt(i, g) \/ AskKassa(i, g)
  PROVE  IInv'
<1>1. TypeOK
  BY DEF IInv
<1>2. PICK receipt \in {"none", "wait", "done", "fail"}, step \in {"receipt", "closed"} :
        /\ intent' = [intent EXCEPT ![i].receipt = receipt]
        /\ GoOn(i, g, step)
        /\ UNCHANGED <<payment, bank, kassa>>
  <2>1. CASE StoreReceipt(i, g)
    BY <2>1 DEF StoreReceipt
  <2>2. CASE AskKassa(i, g)
    <3> DEFINE receipt == IF kassa[i] \in {"done", "fail"} THEN kassa[i] ELSE intent[i].receipt
    <3>1. receipt \in {"none", "wait", "done", "fail"}
      BY <1>1 DEF TypeOK, IntentType
    <3>2. /\ intent' = [intent EXCEPT ![i].receipt = receipt]
          /\ GoOn(i, g, "closed")
          /\ UNCHANGED <<payment, bank, kassa>>
      BY <2>2 DEF AskKassa, Reply
    <3> HIDE DEF receipt
    <3> QED
      BY <3>1, <3>2
  <2> QED
    BY <2>1, <2>2
<1>3. intent \in [Intents -> IntentType]
  BY <1>1 DEF TypeOK
<1>4. /\ intent' \in [Intents -> IntentType]
      /\ \A j \in Intents : intent'[j].status = intent[j].status
  BY <1>2, <1>3 DEF IntentType
<1>5. step \in Steps
  BY DEF Steps
<1>6. /\ page' \in [Intents -> [Tabs -> Steps]]
      /\ \A j \in Intents, h \in Tabs : AnswerStands(j, h)'
  BY <1>2, <1>5, GoOnKeepsAnswers
<1>7. TypeOK'
  BY <1>1, <1>2, <1>4, <1>6 DEF TypeOK
<1>8. \A j \in Intents : Settled(j)'
  BY <1>2, <1>4 DEF IInv, Settled
<1> QED
  BY <1>6, <1>7, <1>8 DEF IInv

\* The bank's "no" is stored: the intent cannot have been credited.
LEMMA DeclineStep ==
  ASSUME IInv, NEW i \in Intents, NEW g \in Tabs, Decline(i, g)
  PROVE  IInv'
<1>1. TypeOK /\ Settled(i) /\ bank[i] = "declined"
  BY DEF IInv, AnswerStands, Decline
<1>2. /\ intent' = [intent EXCEPT ![i].status = "FAILED"]
      /\ GoOn(i, g, "closed")
      /\ UNCHANGED <<payment, bank, kassa>>
  BY DEF Decline, Reply
<1>3. intent \in [Intents -> IntentType]
  BY <1>1 DEF TypeOK
<1>4. /\ intent' \in [Intents -> IntentType]
      /\ intent'[i].status = "FAILED"
      /\ \A j \in Intents : j # i => intent'[j] = intent[j]
  BY <1>2, <1>3 DEF IntentType
<1>5. /\ page' \in [Intents -> [Tabs -> Steps]]
      /\ \A j \in Intents, h \in Tabs : AnswerStands(j, h)'
  BY <1>2, GoOnKeepsAnswers DEF Steps
<1>6. TypeOK'
  BY <1>1, <1>2, <1>4, <1>5 DEF TypeOK
<1>7. ASSUME NEW j \in Intents PROVE Settled(j)'
  <2>1. Settled(j)
    BY DEF IInv
  <2>2. CASE j = i
    BY <2>2, <1>1, <1>2, <1>4 DEF Settled
  <2>3. CASE j # i
    BY <2>1, <2>3, <1>2, <1>4 DEF Settled
  <2> QED
    BY <2>2, <2>3
<1> QED
  BY <1>5, <1>6, <1>7 DEF IInv

\* The payment is inserted by the first transaction that gets there.
LEMMA CreditStep ==
  ASSUME IInv, NEW i \in Intents, NEW g \in Tabs, CreditCommit(i, g), payment[i] = 0
  PROVE  IInv'
<1>1. TypeOK /\ Settled(i) /\ bank[i] = "paid"
  BY DEF IInv, AnswerStands, CreditCommit
<1>2. /\ intent' = [intent EXCEPT ![i].status = "SUCCEEDED"]
      /\ payment' = [payment EXCEPT ![i] = @ + 1]
      /\ GoOn(i, g, "register")
      /\ UNCHANGED <<bank, kassa>>
  BY DEF CreditCommit
<1>3. intent \in [Intents -> IntentType] /\ payment \in [Intents -> Nat]
  BY <1>1 DEF TypeOK
<1>4. /\ intent' \in [Intents -> IntentType]
      /\ intent'[i].status = "SUCCEEDED"
      /\ \A j \in Intents : j # i => intent'[j] = intent[j]
  BY <1>2, <1>3 DEF IntentType
<1>5. /\ payment' \in [Intents -> Nat]
      /\ payment'[i] = 1
      /\ \A j \in Intents : j # i => payment'[j] = payment[j]
  BY <1>2, <1>3
<1>6. /\ page' \in [Intents -> [Tabs -> Steps]]
      /\ \A j \in Intents, h \in Tabs : AnswerStands(j, h)'
  BY <1>2, GoOnKeepsAnswers DEF Steps
<1>7. TypeOK'
  BY <1>1, <1>2, <1>4, <1>5, <1>6 DEF TypeOK
<1>8. ASSUME NEW j \in Intents PROVE Settled(j)'
  <2>1. Settled(j)
    BY DEF IInv
  <2>2. CASE j = i
    BY <2>2, <1>1, <1>2, <1>4, <1>5 DEF Settled
  <2>3. CASE j # i
    BY <2>1, <2>3, <1>2, <1>4, <1>5 DEF Settled
  <2> QED
    BY <2>2, <2>3
<1> QED
  BY <1>6, <1>7, <1>8 DEF IInv

\* The steps of a tab, one by one.
LEMMA TabStep ==
  ASSUME IInv, NEW i \in Intents, NEW g \in Tabs,
         \/ OpenPage(i, g) \/ LosePage(i, g) \/ GetIntent(i, g) \/ AskBank(i, g)
         \/ Decline(i, g) \/ CreditRead(i, g) \/ CreditCommit(i, g)
         \/ RegisterReceipt(i, g) \/ StoreReceipt(i, g) \/ AskKassa(i, g)
  PROVE  IInv'
<1>1. TypeOK /\ AnswerStands(i, g)
  BY DEF IInv
<1>2. kassa \in [Intents -> {"none", "registered", "done", "fail"}]
  BY <1>1 DEF TypeOK
<1> DEFINE Quiet(step) == GoOn(i, g, step) /\ UNCHANGED <<intent, payment, bank, kassa>>
<1>3. ASSUME NEW step \in Steps, Quiet(step),
             step \in {"credit", "insert"} => bank[i] = "paid",
             step = "decline" => bank[i] = "declined"
      PROVE  IInv'
  BY <1>2, <1>3, PageStep
<1>4. CASE OpenPage(i, g)
  <2>1. Quiet("poll")
    BY <1>4 DEF OpenPage
  <2> QED
    BY <2>1, <1>3 DEF Steps
<1>5. CASE LosePage(i, g)
  <2>1. Quiet("closed")
    BY <1>5 DEF LosePage
  <2> QED
    BY <2>1, <1>3 DEF Steps
<1>6. CASE GetIntent(i, g)
  <2>1. Quiet("bank") \/ Quiet("receipt") \/ Quiet("poll") \/ Quiet("closed")
    BY <1>6 DEF GetIntent, AskForReceipt, Reply
  <2> QED
    BY <2>1, <1>3 DEF Steps
<1>7. CASE AskBank(i, g)
  <2>1. CASE bank[i] = "paid"
    <3>1. Quiet("credit")
      BY <1>7, <2>1 DEF AskBank
    <3> QED
      BY <3>1, <2>1, <1>3 DEF Steps
  <2>2. CASE bank[i] = "declined"
    <3>1. Quiet("decline")
      BY <1>7, <2>2 DEF AskBank
    <3> QED
      BY <3>1, <2>2, <1>3 DEF Steps
  <2>3. CASE bank[i] \notin {"paid", "declined"}
    <3>1. Quiet("poll")
      BY <1>7, <2>3 DEF AskBank, Reply
    <3> QED
      BY <3>1, <1>3 DEF Steps
  <2> QED
    BY <2>1, <2>2, <2>3
<1>8. CASE Decline(i, g)
  BY <1>8, DeclineStep
<1>9. CASE CreditRead(i, g)
  <2>1. bank[i] = "paid"
    BY <1>9, <1>1 DEF CreditRead, AnswerStands
  <2>2. \/ Quiet("insert") \/ Quiet("register") \/ Quiet("receipt")
        \/ Quiet("poll") \/ Quiet("closed")
    BY <1>9 DEF CreditRead, AskForReceipt, Reply
  <2> QED
    BY <2>1, <2>2, <1>3 DEF Steps
<1>10. CASE CreditCommit(i, g)
  <2>1. CASE payment[i] = 0
    BY <1>10, <2>1, CreditStep
  <2>2. CASE payment[i] # 0
    <3>1. Quiet("closed")
      BY <1>10, <2>2 DEF CreditCommit, Reply
    <3> QED
      BY <3>1, <1>3 DEF Steps
  <2> QED
    BY <2>1, <2>2
<1>11. CASE RegisterReceipt(i, g)
  <2>1. PICK step \in {"registered", "closed"} : GoOn(i, g, step)
    BY <1>11 DEF RegisterReceipt, Reply
  <2>2. kassa' \in [Intents -> {"none", "registered", "done", "fail"}]
    BY <1>11, <1>2 DEF RegisterReceipt
  <2>3. UNCHANGED <<intent, payment, bank>>
    BY <1>11 DEF RegisterReceipt
  <2>4. step \in Steps
    BY DEF Steps
  <2> QED
    BY <2>1, <2>2, <2>3, <2>4, PageStep
<1>12. CASE StoreReceipt(i, g)
  BY <1>12, ReceiptStep
<1>13. CASE AskKassa(i, g)
  BY <1>13, ReceiptStep
<1> QED
  BY <1>4, <1>5, <1>6, <1>7, <1>8, <1>9, <1>10, <1>11, <1>12, <1>13

\* The register decides: nothing but its own side changes.
LEMMA KassaStep ==
  ASSUME IInv, NEW i \in Intents, KassaDecides(i)
  PROVE  IInv'
<1>1. TypeOK'
  BY DEF IInv, TypeOK, KassaDecides
<1>2. \A j \in Intents : Settled(j)'
  BY DEF IInv, Settled, KassaDecides
<1>3. \A j \in Intents, h \in Tabs : AnswerStands(j, h)'
  BY DEF IInv, AnswerStands, KassaDecides
<1> QED
  BY <1>1, <1>2, <1>3 DEF IInv

LEMMA StepInvariant == IInv /\ [Next]_vars => IInv'
<1> SUFFICES ASSUME IInv, [Next]_vars PROVE IInv'
  OBVIOUS
<1>1. CASE Next
  <2>1. PICK i \in Intents :
          \/ CreateIntent(i) \/ StartPayment(i) \/ StartDone(i) \/ StartFailed(i)
          \/ BankDecides(i) \/ KassaDecides(i)
          \/ \E g \in Tabs :
                \/ OpenPage(i, g) \/ LosePage(i, g) \/ GetIntent(i, g) \/ AskBank(i, g)
                \/ Decline(i, g) \/ CreditRead(i, g) \/ CreditCommit(i, g)
                \/ RegisterReceipt(i, g) \/ StoreReceipt(i, g) \/ AskKassa(i, g)
    BY <1>1 DEF Next
  <2> QED
    BY <2>1, IntentStep, BankStep, KassaStep, TabStep
<1>2. CASE UNCHANGED vars
  BY <1>2 DEF vars, IInv, TypeOK, Settled, AnswerStands
<1> QED
  BY <1>1, <1>2

LEMMA Invariant == Spec => []IInv
<1> QED
  BY InitInvariant, StepInvariant, PTL DEF Spec

-----------------------------------------------------------------------------

\* The variables keep their types.
THEOREM TypeCorrect == Spec => []TypeOK
<1>1. IInv => TypeOK
  BY DEF IInv
<1> QED
  BY <1>1, Invariant, PTL

\* However many tabs ask at once, an intent is credited with one payment.
THEOREM CreditedAtMostOnce == Spec => []CreditedOnce
<1>1. IInv => CreditedOnce
  <2> SUFFICES ASSUME IInv, NEW i \in Intents PROVE payment[i] <= 1
    BY DEF CreditedOnce
  <2> QED
    BY SMT DEF IInv, Settled
<1> QED
  BY <1>1, Invariant, PTL

\* An intent is SUCCEEDED exactly when its payment is in the ledger.
THEOREM SucceededMeansCredited == Spec => []SucceededIsCredited
<1>1. IInv => SucceededIsCredited
  <2> SUFFICES ASSUME IInv, NEW i \in Intents
               PROVE  intent[i].status = "SUCCEEDED" <=> payment[i] > 0
    BY DEF SucceededIsCredited
  <2>1. payment[i] \in {0, 1} /\ (intent[i].status = "SUCCEEDED" <=> payment[i] = 1)
    BY DEF IInv, Settled
  <2>2. payment[i] = 1 <=> payment[i] > 0
    BY <2>1
  <2> QED
    BY <2>1, <2>2
<1> QED
  BY <1>1, Invariant, PTL

\* A step that leaves the data an intent's phase is computed from alone.
LEMMA PhaseKept ==
  ASSUME NEW j \in Intents, payment'[j] = payment[j], bank'[j] = bank[j],
         intent'[j].status = intent[j].status
  PROVE  Phase(j)' = Phase(j)
  BY DEF Phase

\* One intent changes phase the way CreditOnce allows, the others keep theirs.
LEMMA PhaseMoved ==
  ASSUME NEW i \in Intents, NEW from, NEW to,
         Phase(i) = from, Phase(i)' = to,
         \A j \in Intents : j # i => Phase(j)' = Phase(j)
  PROVE  Promise!Move(i, from, to)
  BY DEF Promise!Move

\* Every step of the module is a step of CreditOnce or leaves all phases alone.
LEMMA StepKeepsPromise == IInv /\ [Next]_vars => [Promise!Next]_([i \in Intents |-> Phase(i)])
<1> SUFFICES ASSUME IInv, [Next]_vars
             PROVE  \/ Promise!Next
                    \/ \A j \in Intents : Phase(j)' = Phase(j)
  OBVIOUS
<1>0. TypeOK /\ intent \in [Intents -> IntentType] /\ payment \in [Intents -> Nat]
      /\ bank \in [Intents -> {"none", "open", "paid", "declined"}]
  BY DEF IInv, TypeOK
<1>1. ASSUME NEW i \in Intents, CreateIntent(i) \/ StartDone(i)
      PROVE  \A j \in Intents : Phase(j)' = Phase(j)
  <2>1. Settled(i)
    BY DEF IInv
  <2>2. ASSUME NEW j \in Intents PROVE Phase(j)' = Phase(j)
    <3>1. CASE j # i
      BY <1>0, <1>1, <3>1, PhaseKept DEF CreateIntent, StartDone
    <3>2. CASE j = i
      <4>1. /\ intent[i].status \notin {"FAILED", "SUCCEEDED"}
            /\ intent'[i].status \notin {"FAILED", "SUCCEEDED"}
            /\ UNCHANGED <<payment, bank>>
        BY <1>0, <1>1 DEF CreateIntent, StartDone, IntentType
      <4> QED
        BY <3>2, <4>1 DEF Phase
    <3> QED
      BY <3>1, <3>2
  <2> QED
    BY <2>2
<1>2. ASSUME NEW i \in Intents, StartFailed(i) PROVE Promise!Next
  <2>1. Settled(i)
    BY DEF IInv
  <2>2. /\ payment[i] = 0 /\ payment' = payment
        /\ bank[i] # "paid" /\ bank' = bank
        /\ intent[i].status = "CREATED" /\ intent'[i].status = "FAILED"
        /\ \A j \in Intents : j # i => intent'[j] = intent[j]
    BY <1>0, <1>2, <2>1 DEF StartFailed, Settled, IntentType
  <2>3. Phase(i) = "unpaid" /\ Phase(i)' = "failed"
    BY <2>2 DEF Phase
  <2>4. \A j \in Intents : j # i => Phase(j)' = Phase(j)
    BY <2>2, PhaseKept
  <2> QED
    BY <2>3, <2>4, PhaseMoved DEF Promise!Next
<1>3. ASSUME NEW i \in Intents, StartPayment(i) \/ BankDecides(i)
      PROVE  Promise!Next \/ \A j \in Intents : Phase(j)' = Phase(j)
  <2>1. Settled(i)
    BY DEF IInv
  <2>2. PICK result \in {"open", "paid", "declined"} :
          /\ bank' = [bank EXCEPT ![i] = result]
          /\ bank[i] \in {"none", "open"}
          /\ result # "open" => intent[i].status = "PENDING_BANK"
          /\ UNCHANGED <<intent, payment>>
    BY <1>3 DEF StartPayment, BankDecides
  <2>3. bank'[i] = result /\ \A j \in Intents : j # i => bank'[j] = bank[j]
    BY <1>0, <2>2
  <2>4. \A j \in Intents : j # i => Phase(j)' = Phase(j)
    BY <2>2, <2>3, PhaseKept
  <2>5. payment[i] = 0
    BY <2>1, <2>2 DEF Settled
  <2>6. CASE result = "paid"
    <3>1. Phase(i) = "unpaid" /\ Phase(i)' = "paid"
      BY <2>2, <2>3, <2>5, <2>6 DEF Phase
    <3> QED
      BY <3>1, <2>4, PhaseMoved DEF Promise!Next
  <2>7. CASE result # "paid"
    <3>1. Phase(i)' = Phase(i)
      BY <2>2, <2>3, <2>5, <2>7 DEF Phase
    <3> QED
      BY <3>1, <2>4
  <2> QED
    BY <2>6, <2>7
<1>4. ASSUME NEW i \in Intents, NEW g \in Tabs, Decline(i, g)
      PROVE  Promise!Next \/ \A j \in Intents : Phase(j)' = Phase(j)
  <2>1. Settled(i) /\ bank[i] = "declined"
    BY <1>4 DEF IInv, AnswerStands, Decline
  <2>2. /\ payment[i] = 0 /\ payment' = payment /\ bank' = bank
        /\ intent'[i].status = "FAILED"
        /\ \A j \in Intents : j # i => intent'[j] = intent[j]
    BY <1>0, <1>4, <2>1 DEF Decline, Settled, IntentType
  <2>3. \A j \in Intents : j # i => Phase(j)' = Phase(j)
    BY <2>2, PhaseKept
  <2>4. Phase(i)' = "failed" /\ Phase(i) \in {"unpaid", "failed"}
    BY <2>1, <2>2 DEF Phase
  <2>5. CASE Phase(i) = "unpaid"
    BY <2>3, <2>4, <2>5, PhaseMoved DEF Promise!Next
  <2>6. CASE Phase(i) = "failed"
    BY <2>3, <2>4, <2>6
  <2> QED
    BY <2>4, <2>5, <2>6
<1>5. ASSUME NEW i \in Intents, NEW g \in Tabs, CreditCommit(i, g), payment[i] = 0
      PROVE  Promise!Next
  <2>1. Settled(i) /\ bank[i] = "paid"
    BY <1>5 DEF IInv, AnswerStands, CreditCommit
  <2>2. /\ payment' = [payment EXCEPT ![i] = @ + 1] /\ bank' = bank
        /\ \A j \in Intents : j # i => intent'[j] = intent[j]
    BY <1>0, <1>5 DEF CreditCommit
  <2>3. payment'[i] = 1 /\ \A j \in Intents : j # i => payment'[j] = payment[j]
    BY <1>0, <1>5, <2>2
  <2>4. \A j \in Intents : j # i => Phase(j)' = Phase(j)
    BY <2>2, <2>3, PhaseKept
  <2>5. Phase(i) = "paid"
    BY <1>5, <2>1 DEF Phase, Settled
  <2>6. Phase(i)' = "credited"
    BY <2>3 DEF Phase
  <2> QED
    BY <2>4, <2>5, <2>6, PhaseMoved DEF Promise!Next
<1>6. ASSUME NEW i \in Intents, NEW g \in Tabs,
             \/ OpenPage(i, g) \/ LosePage(i, g) \/ GetIntent(i, g) \/ AskBank(i, g)
             \/ CreditRead(i, g) \/ (CreditCommit(i, g) /\ payment[i] # 0)
             \/ RegisterReceipt(i, g) \/ StoreReceipt(i, g) \/ AskKassa(i, g)
      PROVE  \A j \in Intents : Phase(j)' = Phase(j)
  <2>1. UNCHANGED <<payment, bank>>
    BY <1>6 DEF OpenPage, LosePage, GetIntent, AskBank, CreditRead, CreditCommit,
                RegisterReceipt, StoreReceipt, AskKassa
  <2>2. \/ UNCHANGED intent
        \/ \E receipt : intent' = [intent EXCEPT ![i].receipt = receipt]
    BY <1>6 DEF OpenPage, LosePage, GetIntent, AskBank, CreditRead, CreditCommit,
                RegisterReceipt, StoreReceipt, AskKassa
  <2>3. \A j \in Intents : intent'[j].status = intent[j].status
    BY <1>0, <2>2 DEF IntentType
  <2> QED
    BY <2>1, <2>3, PhaseKept
<1>7. ASSUME NEW i \in Intents, KassaDecides(i) PROVE \A j \in Intents : Phase(j)' = Phase(j)
  BY <1>7 DEF KassaDecides, Phase
<1>8. CASE Next
  <2>1. PICK i \in Intents :
          \/ CreateIntent(i) \/ StartPayment(i) \/ StartDone(i) \/ StartFailed(i)
          \/ BankDecides(i) \/ KassaDecides(i)
          \/ \E g \in Tabs :
                \/ OpenPage(i, g) \/ LosePage(i, g) \/ GetIntent(i, g) \/ AskBank(i, g)
                \/ Decline(i, g) \/ CreditRead(i, g) \/ CreditCommit(i, g)
                \/ RegisterReceipt(i, g) \/ StoreReceipt(i, g) \/ AskKassa(i, g)
    BY <1>8 DEF Next
  <2> QED
    BY <2>1, <1>1, <1>2, <1>3, <1>4, <1>5, <1>6, <1>7
<1>9. CASE UNCHANGED vars
  BY <1>9 DEF vars, Phase
<1> QED
  BY <1>8, <1>9

\* The detailed module implements CreditOnce: money the bank did not take is never
\* credited, and money it took is never called failed.
THEOREM ImplementsCreditOnce == Spec => CreditsWhatTheBankTook
<1>1. Init => Promise!Init
  <2> SUFFICES ASSUME Init, NEW i \in Intents PROVE Phase(i) = "unpaid"
    BY DEF Promise!Init
  <2> QED
    BY DEF Init, Phase
<1> QED
  BY <1>1, InitInvariant, StepInvariant, StepKeepsPromise, PTL
     DEF Spec, CreditsWhatTheBankTook, Promise!Spec

=============================================================================
