----------------------- MODULE ContractApprovalProofs -----------------------
(***************************************************************************)
(* What the lock row of an approval is worth.  Without a slip it excludes: *)
(* one approval at a time, and what it has read stays true.  With slips,   *)
(* whoever may still create something holds a ticket: a contract brings    *)
(* one, each slip one more, and creating uses it up, so that the number of *)
(* creations is bounded by one plus the slips (CreatedOnce).               *)
(***************************************************************************)
EXTENDS ContractApproval, FiniteSetTheorems, TLAPS

LEMMA TypeInit == Init => TypeOK
<1> SUFFICES ASSUME Init PROVE TypeOK
  OBVIOUS
<1>1. AnyContract \in Contracts
  BY ApprovalAssumption DEF AnyContract
<1>2. Idle \in ApprovalType /\ NoPush \in PushType
  BY <1>1 DEF Idle, NoPush, ApprovalType, PushType, Steps, Counterparties, None
<1> QED
  BY <1>2, ApprovalAssumption DEF Init, TypeOK, Counterparties, None

LEMMA SlipType == ASSUME TypeOK, Slip \/ slips' = slips PROVE slips' \in 0..MaxSlips
BY ApprovalAssumption DEF TypeOK, Slip

LEMMA TypeStep == TypeOK /\ [Next]_vars => TypeOK'
<1> SUFFICES ASSUME TypeOK, [Next]_vars PROVE TypeOK'
  OBVIOUS
<1>0. /\ known \in [contractor : Counterparties, contract : [Contracts -> Counterparties]]
      /\ approval \in [Approvals -> ApprovalType] /\ push \in PushType
      /\ accounting \in [contractors : Nat, copies : [Contracts -> Nat]]
      /\ slips \in 0..MaxSlips /\ lock \in {"free", "held", "stale"}
  BY DEF TypeOK
<1>a. AnyContract \in Contracts
  BY ApprovalAssumption DEF AnyContract
<1>i. Idle \in ApprovalType /\ NoPush \in PushType
  BY <1>a DEF Idle, NoPush, ApprovalType, PushType, Steps, Counterparties, None
<1>s. ASSUME NEW a \in Approvals, NEW step \in Steps, At(a, step)
      PROVE  approval' \in [Approvals -> ApprovalType]
  BY <1>0, <1>s DEF At, ApprovalType
<1>1. ASSUME NEW a \in Approvals, NEW c \in Contracts, Acquire(a, c) PROVE TypeOK'
  <2>r. \A step \in Steps : [Idle EXCEPT !.step = step, !.contract = c] \in ApprovalType
    BY <1>i DEF ApprovalType
  <2>1. approval' \in [Approvals -> ApprovalType]
    BY <1>0, <1>1, <2>r DEF Acquire, Steps
  <2> QED
    BY <1>0, <1>1, <2>1 DEF Acquire, TypeOK
<1>2. ASSUME NEW a \in Approvals, AcquireEvicted(a) PROVE TypeOK'
  <2>1. approval' \in [Approvals -> ApprovalType]
    BY <1>0, <1>i, <1>2, <1>s DEF AcquireEvicted, Steps
  <2> QED
    BY <1>0, <1>2, <2>1 DEF AcquireEvicted, TypeOK
<1>3. ASSUME NEW a \in Approvals, Begin(a) PROVE TypeOK'
  <2>1. PICK step \in Steps :
          approval' = [approval EXCEPT ![a].step = step,
                          ![a].contractor = known.contractor,
                          ![a].hasContract = known.contract[approval[a].contract] # None]
    BY <1>3 DEF Begin, Steps
  <2> DEFINE r == [approval[a] EXCEPT !.step = step, !.contractor = known.contractor,
                      !.hasContract = known.contract[approval[a].contract] # None]
  <2>2. r \in ApprovalType
    BY <1>0 DEF ApprovalType
  <2>3. approval' = [approval EXCEPT ![a] = r]
    BY <2>1
  <2>4. approval' \in [Approvals -> ApprovalType]
    BY <1>0, <2>2, <2>3
  <2> QED
    BY <1>0, <1>3, <2>4 DEF Begin, TypeOK
<1>4. ASSUME NEW a \in Approvals, CreateContractor(a) PROVE TypeOK'
  <2>1. slips' \in 0..MaxSlips
    BY <1>4, SlipType DEF CreateContractor
  <2>2. approval' \in [Approvals -> ApprovalType]
    BY <1>0, <1>4, <1>s DEF CreateContractor, ApprovalType, Steps, Counterparties
  <2>3. accounting' \in [contractors : Nat, copies : [Contracts -> Nat]]
    BY <1>0, <1>4 DEF CreateContractor
  <2> QED
    BY <1>0, <1>4, <2>1, <2>2, <2>3 DEF CreateContractor, TypeOK
<1>5. ASSUME NEW a \in Approvals, StoreContractor(a) PROVE TypeOK'
  <2>1. slips' \in 0..MaxSlips
    BY <1>5, SlipType DEF StoreContractor
  <2>2. approval' \in [Approvals -> ApprovalType]
    BY <1>0, <1>5, <1>s DEF StoreContractor, Steps
  <2>3. known' \in [contractor : Counterparties, contract : [Contracts -> Counterparties]]
    BY <1>0, <1>5 DEF StoreContractor, ApprovalType
  <2> QED
    BY <1>0, <1>5, <2>1, <2>2, <2>3 DEF StoreContractor, TypeOK
<1>6. ASSUME NEW a \in Approvals, CreateContract(a) PROVE TypeOK'
  <2>1. slips' \in 0..MaxSlips
    BY <1>6, SlipType DEF CreateContract
  <2>2. approval' \in [Approvals -> ApprovalType]
    BY <1>0, <1>6, <1>s DEF CreateContract, Steps
  <2>3. accounting' \in [contractors : Nat, copies : [Contracts -> Nat]]
    BY <1>0, <1>6 DEF CreateContract, ApprovalType
  <2> QED
    BY <1>0, <1>6, <2>1, <2>2, <2>3 DEF CreateContract, TypeOK
<1>7. ASSUME NEW a \in Approvals, StoreContract(a) PROVE TypeOK'
  <2>1. slips' \in 0..MaxSlips
    BY <1>7, SlipType DEF StoreContract
  <2>2. approval' \in [Approvals -> ApprovalType]
    BY <1>0, <1>7, <1>s DEF StoreContract, Steps
  <2>3. known' \in [contractor : Counterparties, contract : [Contracts -> Counterparties]]
    BY <1>0, <1>7 DEF StoreContract, ApprovalType
  <2> QED
    BY <1>0, <1>7, <2>1, <2>2, <2>3 DEF StoreContract, TypeOK
<1>8. ASSUME NEW a \in Approvals, Release(a) PROVE TypeOK'
  BY <1>0, <1>i, <1>8 DEF Release, TypeOK
<1>9. ASSUME NEW c \in Contracts, PushRead(c) PROVE TypeOK'
  <2>1. slips' \in 0..MaxSlips
    BY <1>9, SlipType DEF PushRead
  <2>2. push' \in PushType
    BY <1>0, <1>i, <1>9 DEF PushRead, PushType
  <2> QED
    BY <1>0, <1>9, <2>1, <2>2 DEF PushRead, TypeOK
<1>10. CASE PushCall
  <2> DEFINE n == accounting.contractors
             ks == IF push.contractor # None THEN {push.contractor} ELSE 1..(n + 1)
             m(k) == IF push.contractor = None /\ k = n + 1 THEN k ELSE n
             cs == IF push.hasContract THEN {0} ELSE {0, 1}
  <2>1. PICK k \in ks, created \in cs :
          /\ accounting' = [accounting EXCEPT !.contractors = m(k),
                                              !.copies[push.contract] = @ + created]
          /\ \E newContractor \in {None, k}, newContract \in {None, k} :
                push' = [push EXCEPT !.step = "answered", !.newContractor = newContractor,
                                     !.newContract = newContract]
    BY <1>10 DEF PushCall
  <2>2. k \in Nat /\ created \in Nat /\ n \in Nat
    BY <1>0, <2>1 DEF PushType, Counterparties
  <2>3. push' \in PushType
    <3>1. \A x, y \in Nat : [push EXCEPT !.step = "answered", !.newContractor = x,
                                         !.newContract = y] \in PushType
      BY <1>0 DEF PushType, Counterparties
    <3>2. PICK x \in {None, k}, y \in {None, k} :
            push' = [push EXCEPT !.step = "answered", !.newContractor = x, !.newContract = y]
      BY <2>1
    <3>3. x \in Nat /\ y \in Nat
      BY <2>2 DEF None
    <3> QED
      BY <3>1, <3>2, <3>3
  <2>4. accounting' \in [contractors : Nat, copies : [Contracts -> Nat]]
    <3>1. accounting.copies[push.contract] \in Nat
      BY <1>0 DEF PushType
    <3>4. m(k) \in Nat
      BY <2>2
    <3> HIDE DEF m
    <3>3. accounting' = [accounting EXCEPT !.contractors = m(k),
                                           !.copies[push.contract] = @ + created]
      BY <2>1
    <3>5. accounting' = [contractors |-> m(k),
                         copies |-> [accounting.copies EXCEPT ![push.contract] = @ + created]]
      BY <1>0, <3>3
    <3>6. [accounting.copies EXCEPT ![push.contract] = @ + created] \in [Contracts -> Nat]
      <4>1. accounting.copies \in [Contracts -> Nat]
        BY <1>0
      <4>2. accounting.copies[push.contract] + created \in Nat
        BY <2>2, <3>1
      <4> HIDE DEF cs
      <4> QED
        BY <4>1, <4>2
    <3> QED
      BY <3>4, <3>5, <3>6
  <2> QED
    BY <1>0, <1>10, <2>3, <2>4 DEF PushCall, TypeOK
<1>11. CASE PushStore
  <2>1. known' \in [contractor : Counterparties, contract : [Contracts -> Counterparties]]
    BY <1>0, <1>11 DEF PushStore, PushType
  <2> QED
    BY <1>0, <1>i, <1>11, <2>1 DEF PushStore, TypeOK
<1>12. CASE Expire
  <2>1. slips' \in 0..MaxSlips
    BY <1>12, SlipType DEF Expire
  <2> QED
    BY <1>0, <1>12, <2>1 DEF Expire, TypeOK
<1>13. CASE Crash
  <2>1. slips' \in 0..MaxSlips
    BY <1>13, SlipType DEF Crash
  <2> QED
    BY <1>0, <1>i, <1>13, <2>1 DEF Crash, TypeOK
<1>14. CASE UNCHANGED vars
  BY <1>14 DEF vars, TypeOK
<1> QED
  BY <1>1, <1>2, <1>3, <1>4, <1>5, <1>6, <1>7, <1>8, <1>9, <1>10, <1>11, <1>12, <1>13, <1>14
  DEF Next, Advance

\* Identifiers are numbers, and an approval is at a step of its own code, whatever is lost.
THEOREM TypeCorrect == Spec => []TypeOK
BY TypeInit, TypeStep, PTL DEF Spec

-----------------------------------------------------------------------------
(* Without a slip: the row is held by the one approval there is, and what it *)
(* has read of the resident is still so.                                     *)

Exclusive ==
    /\ push = NoPush
    /\ lock # "stale" /\ \A a \in Approvals : approval[a].step # "evicted"
    /\ \A a, b \in Holders : a = b
    /\ lock = "held" <=> Holders # {}

ReadIsTrue ==
    \A a \in Approvals :
        /\ approval[a].step \in {"contractor", "storeContractor"} => known.contractor = None
        /\ approval[a].step \in {"contract", "storeContract"} =>
              approval[a].contractor = known.contractor

SameCounterparty == \A c \in Contracts : known.contract[c] \in {None, known.contractor}

CalmInv == slips = 0 => Exclusive /\ ReadIsTrue /\ SameCounterparty

LEMMA CalmInit == Init => CalmInv
<1> SUFFICES ASSUME Init PROVE Exclusive /\ ReadIsTrue /\ SameCounterparty
  BY DEF CalmInv
<1>1. \A a \in Approvals : approval[a].step = "idle"
  BY DEF Init, Idle
<1>2. Holders = {}
  BY <1>1 DEF Holders
<1>3. Exclusive
  BY <1>1, <1>2 DEF Init, Exclusive
<1>4. ReadIsTrue
  BY <1>1 DEF ReadIsTrue
<1>5. SameCounterparty
  BY DEF Init, SameCounterparty
<1> QED
  BY <1>3, <1>4, <1>5

LEMMA SlipsGrow == ASSUME TypeOK, [Next]_vars, slips' = 0 PROVE slips = 0
<1>1. slips \in Nat
  BY ApprovalAssumption DEF TypeOK
<1>2. slips' = slips \/ slips' = slips + 1
  BY DEF Next, Advance, vars, Acquire, AcquireEvicted, Begin, CreateContractor, StoreContractor,
         CreateContract, StoreContract, Release, PushRead, PushCall, PushStore, Expire, Crash, Slip
<1> QED
  BY <1>1, <1>2

\* An approval that holds the row goes on, and keeps it.
LEMMA HolderMoves ==
  ASSUME TypeOK, Exclusive, NEW a \in Holders,
         approval' \in [Approvals -> ApprovalType], a \in Holders',
         \A b \in Approvals : b # a => approval'[b] = approval[b],
         UNCHANGED <<lock, push>>
  PROVE  Exclusive'
<1>1. Holders' = Holders
  BY DEF Holders
<1>2. \A b \in Approvals : approval'[b].step # "evicted"
  BY DEF Exclusive, Holders
<1> QED
  BY <1>1, <1>2 DEF Exclusive

LEMMA CalmStep == TypeOK /\ TypeOK' /\ CalmInv /\ [Next]_vars => CalmInv'
<1> SUFFICES ASSUME TypeOK, TypeOK', CalmInv, [Next]_vars, slips' = 0
             PROVE  Exclusive' /\ ReadIsTrue' /\ SameCounterparty'
  BY DEF CalmInv
<1>0. /\ slips = 0 /\ Exclusive /\ ReadIsTrue /\ SameCounterparty
      /\ ~Slip
      /\ approval \in [Approvals -> ApprovalType] /\ approval' \in [Approvals -> ApprovalType]
      /\ known \in [contractor : Counterparties, contract : [Contracts -> Counterparties]]
  BY SlipsGrow DEF CalmInv, TypeOK, Slip
<1>h. \A a \in Approvals : approval[a].step \notin {"idle", "evicted"} => a \in Holders
  BY DEF Holders
<1>u. ASSUME NEW a \in Holders, UNCHANGED <<known, lock, push>>, a \in Holders',
             \A b \in Approvals : b # a => approval'[b] = approval[b],
             /\ approval'[a].step \in {"contractor", "storeContractor"} => known.contractor = None
             /\ approval'[a].step \in {"contract", "storeContract"} =>
                   approval'[a].contractor = known.contractor
      PROVE  Exclusive' /\ ReadIsTrue' /\ SameCounterparty'
  <2>1. Exclusive'
    BY <1>0, <1>u, HolderMoves
  <2>2. ReadIsTrue'
    BY <1>0, <1>u DEF ReadIsTrue
  <2>3. SameCounterparty'
    BY <1>0, <1>u DEF SameCounterparty
  <2> QED
    BY <2>1, <2>2, <2>3
<1>1. ASSUME NEW a \in Approvals, NEW c \in Contracts, Acquire(a, c)
      PROVE  Exclusive' /\ ReadIsTrue' /\ SameCounterparty'
  <2>1. /\ lock = "free" /\ lock' = "held" /\ UNCHANGED <<known, push>>
        /\ approval' = [approval EXCEPT ![a] = [Idle EXCEPT !.step = "locked", !.contract = c]]
    BY <1>0, <1>1 DEF Acquire, Exclusive
  <2>2. /\ approval'[a].step = "locked"
        /\ \A b \in Approvals : b # a => approval'[b] = approval[b]
    BY <1>0, <2>1 DEF Idle
  <2>3. Holders = {}
    BY <1>0, <2>1 DEF Exclusive
  <2>4. Holders' = {a}
    BY <2>2, <2>3 DEF Holders
  <2>5. Exclusive'
    BY <1>0, <2>1, <2>2, <2>4 DEF Exclusive
  <2>6. ReadIsTrue'
    BY <1>0, <2>1, <2>2 DEF ReadIsTrue
  <2>7. SameCounterparty'
    BY <1>0, <2>1 DEF SameCounterparty
  <2> QED
    BY <2>5, <2>6, <2>7
<1>2. ASSUME NEW a \in Approvals, Begin(a)
      PROVE  Exclusive' /\ ReadIsTrue' /\ SameCounterparty'
  <2> DEFINE c == approval[a].contract
             next == IF known.contractor = None THEN "contractor"
                     ELSE IF known.contract[c] = None THEN "contract" ELSE "release"
  <2>1. PICK step \in {next, "release"} :
          approval' = [approval EXCEPT ![a].step = step, ![a].contractor = known.contractor,
                                       ![a].hasContract = known.contract[c] # None]
    BY <1>2 DEF Begin
  <2>2. /\ approval'[a].step = step /\ approval'[a].contractor = known.contractor
        /\ \A b \in Approvals : b # a => approval'[b] = approval[b]
    BY <1>0, <2>1 DEF ApprovalType
  <2>3. a \in Holders /\ a \in Holders'
    BY <1>2, <2>2 DEF Begin, Holders
  <2>4. UNCHANGED <<known, lock, push>>
    BY <1>2 DEF Begin
  <2>5. step \in {"contractor", "storeContractor"} => known.contractor = None
    OBVIOUS
  <2> QED
    BY <1>u, <2>2, <2>3, <2>4, <2>5
<1>3. ASSUME NEW a \in Approvals, CreateContractor(a)
      PROVE  Exclusive' /\ ReadIsTrue' /\ SameCounterparty'
  <2>1. a \in Holders /\ known.contractor = None /\ UNCHANGED <<known, lock, push>>
    BY <1>0, <1>3 DEF CreateContractor, Holders, ReadIsTrue
  <2>2. /\ approval'[a].step \in {"storeContractor", "release"}
        /\ \A b \in Approvals : b # a => approval'[b] = approval[b]
    BY <1>0, <1>3 DEF CreateContractor, At, ApprovalType
  <2>3. a \in Holders'
    BY <2>2 DEF Holders
  <2> QED
    BY <1>u, <2>1, <2>2, <2>3
<1>4. ASSUME NEW a \in Approvals, StoreContractor(a)
      PROVE  Exclusive' /\ ReadIsTrue' /\ SameCounterparty'
  <2>1. /\ a \in Holders /\ known.contractor = None /\ UNCHANGED <<lock, push>>
        /\ known' = [known EXCEPT !.contractor = approval[a].contractor]
        /\ At(a, IF approval[a].hasContract THEN "release" ELSE "contract")
    BY <1>0, <1>4 DEF StoreContractor, Holders, ReadIsTrue
  <2>2. /\ approval'[a].step \in {"release", "contract"}
        /\ approval'[a].contractor = approval[a].contractor
        /\ \A b \in Approvals : b # a => approval'[b] = approval[b]
    BY <1>0, <2>1 DEF At, ApprovalType
  <2>3. known'.contractor = approval[a].contractor /\ known'.contract = known.contract
    BY <1>0, <2>1
  <2>4. a \in Holders'
    BY <2>2 DEF Holders
  <2>5. Exclusive'
    BY <1>0, <2>1, <2>2, <2>4, HolderMoves
  <2>6. ReadIsTrue'
    <3> SUFFICES ASSUME NEW b \in Approvals
                 PROVE  /\ approval'[b].step \in {"contractor", "storeContractor"} =>
                              known'.contractor = None
                        /\ approval'[b].step \in {"contract", "storeContract"} =>
                              approval'[b].contractor = known'.contractor
      BY DEF ReadIsTrue
    <3>1. CASE b = a
      BY <2>2, <2>3, <3>1
    <3>2. CASE b # a
      <4>1. b \notin Holders
        BY <1>0, <2>1, <3>2 DEF Exclusive
      <4> QED
        BY <1>h, <2>2, <3>2, <4>1
    <3> QED
      BY <3>1, <3>2
  <2>7. SameCounterparty'
    BY <1>0, <2>1, <2>3 DEF SameCounterparty
  <2> QED
    BY <2>5, <2>6, <2>7
<1>5. ASSUME NEW a \in Approvals, CreateContract(a)
      PROVE  Exclusive' /\ ReadIsTrue' /\ SameCounterparty'
  <2>1. /\ a \in Holders /\ approval[a].contractor = known.contractor
        /\ UNCHANGED <<known, lock, push>>
    BY <1>0, <1>5 DEF CreateContract, Holders, ReadIsTrue
  <2>2. /\ approval'[a].step \in {"storeContract", "release"}
        /\ approval'[a].contractor = approval[a].contractor
        /\ \A b \in Approvals : b # a => approval'[b] = approval[b]
    BY <1>0, <1>5 DEF CreateContract, At, ApprovalType
  <2>3. a \in Holders'
    BY <2>2 DEF Holders
  <2> QED
    BY <1>u, <2>1, <2>2, <2>3
<1>6. ASSUME NEW a \in Approvals, StoreContract(a)
      PROVE  Exclusive' /\ ReadIsTrue' /\ SameCounterparty'
  <2>1. /\ a \in Holders /\ approval[a].contractor = known.contractor /\ UNCHANGED <<lock, push>>
        /\ known' = [known EXCEPT !.contract[approval[a].contract] = approval[a].contractor]
        /\ At(a, "release")
    BY <1>0, <1>6 DEF StoreContract, Holders, ReadIsTrue
  <2>2. /\ approval'[a].step = "release"
        /\ \A b \in Approvals : b # a => approval'[b] = approval[b]
    BY <1>0, <2>1 DEF At, ApprovalType
  <2>3. /\ known'.contractor = known.contractor
        /\ \A c \in Contracts : known'.contract[c] \in {known.contract[c], known.contractor}
    BY <1>0, <2>1
  <2>4. a \in Holders'
    BY <2>2 DEF Holders
  <2>5. Exclusive'
    BY <1>0, <2>1, <2>2, <2>4, HolderMoves
  <2>6. ReadIsTrue'
    BY <1>0, <2>2, <2>3 DEF ReadIsTrue
  <2>7. SameCounterparty'
    BY <1>0, <2>3 DEF SameCounterparty
  <2> QED
    BY <2>5, <2>6, <2>7
<1>7. ASSUME NEW a \in Approvals, Release(a)
      PROVE  Exclusive' /\ ReadIsTrue' /\ SameCounterparty'
  <2>1. /\ a \in Holders /\ lock' = "free" /\ UNCHANGED <<known, push>>
        /\ approval'[a].step = "idle"
        /\ \A b \in Approvals : b # a => approval'[b] = approval[b]
    BY <1>0, <1>7 DEF Release, Holders, Idle
  <2>2. Holders' = {}
    BY <1>0, <2>1 DEF Holders, Exclusive
  <2>3. Exclusive'
    BY <1>0, <2>1, <2>2 DEF Exclusive
  <2>4. ReadIsTrue'
    BY <1>0, <2>1 DEF ReadIsTrue
  <2>5. SameCounterparty'
    BY <1>0, <2>1 DEF SameCounterparty
  <2> QED
    BY <2>3, <2>4, <2>5
<1>8. CASE (\E a \in Approvals : AcquireEvicted(a)) \/ (\E c \in Contracts : PushRead(c))
           \/ PushCall \/ PushStore \/ Expire \/ Crash
  <2>1. push = NoPush /\ NoPush.step = "idle"
    BY <1>0 DEF Exclusive, NoPush
  <2> QED
    BY <1>0, <1>8, <2>1 DEF AcquireEvicted, PushRead, PushCall, PushStore, Expire, Crash, Exclusive
<1>9. CASE UNCHANGED vars
  <2>1. Holders' = Holders
    BY <1>9 DEF vars, Holders
  <2> QED
    BY <1>0, <1>9, <2>1 DEF vars, Exclusive, ReadIsTrue, SameCounterparty
<1> QED
  BY <1>1, <1>2, <1>3, <1>4, <1>5, <1>6, <1>7, <1>8, <1>9 DEF Next, Advance

\* As long as nothing is lost, crashes or takes ten minutes, contracts are stored under the
\* counterparty of their resident, however many requests there are.
THEOREM OneCounterparty == Spec => []UidsBelongTogether
<1>1. CalmInv => UidsBelongTogether
  BY DEF CalmInv, SameCounterparty, UidsBelongTogether
<1> QED
  BY <1>1, CalmInit, CalmStep, TypeCorrect, PTL DEF Spec

-----------------------------------------------------------------------------
(* CreatedOnce.  Whoever may still create something for the resident holds a  *)
(* ticket: one there is from the start, and every slip brings another.  While *)
(* the identifier is not stored, a ticket is with each approval that has not  *)
(* created it yet, and with the row when the next approval can take it; once  *)
(* it is stored, with the approvals that have read that there is none.        *)

\* What has been created and what may be, for given holders of tickets.
Tally(stored, made, may, will, entry) ==
    made + (IF stored # None THEN Cardinality(will) ELSE Cardinality(may) + entry)

In(a, S) == IF a \in S THEN 1 ELSE 0

\* The row lets an approval in that nobody has slipped for.
Entry == IF lock = "held" /\ Holders # {} THEN 0 ELSE 1

MayContractor == {a \in Holders : approval[a].step # "storeContractor"}
WillContractor == {a \in Approvals : approval[a].step = "contractor"}
PushContractor == IF push.step = "read" /\ push.contractor = None THEN 1 ELSE 0

MayContract(c) ==
    {a \in Holders : ~(approval[a].step = "storeContract" /\ approval[a].contract = c)}
WillContract(c) ==
    {a \in Approvals : /\ approval[a].contract = c
                       /\ \/ approval[a].step = "contract"
                          \/ /\ approval[a].step \in {"contractor", "storeContractor"}
                             /\ ~approval[a].hasContract}
PushContract(c) ==
    IF push.step = "read" /\ push.contract = c /\ ~push.hasContract THEN 1 ELSE 0

ContractorTally ==
    Tally(known.contractor, accounting.contractors + PushContractor,
          MayContractor, WillContractor, Entry)

ContractTally(c) ==
    Tally(known.contract[c], accounting.copies[c] + PushContract(c),
          MayContract(c), WillContract(c), Entry)

TicketInv ==
    /\ ContractorTally <= slips + 1
    /\ \A c \in Contracts : ContractTally(c) <= slips + 1

\* What is stored is an identifier: an approval that stores has one.
StoresSomething ==
    \A a \in Approvals :
        approval[a].step \in {"storeContractor", "contract", "storeContract"} =>
            approval[a].contractor # None

LEMMA Splits ==
  ASSUME NEW A, IsFiniteSet(A), NEW S \in SUBSET A, NEW a
  PROVE  /\ Cardinality(S) \in Nat /\ Cardinality(S \ {a}) \in Nat
         /\ Cardinality(S) = Cardinality(S \ {a}) + In(a, S)
<1>1. IsFiniteSet(S) /\ IsFiniteSet(S \ {a})
  BY FS_Subset
<1>2. Cardinality(S) \in Nat /\ Cardinality(S \ {a}) \in Nat
  BY <1>1, FS_CardinalityType
<1>3. CASE a \in S
  BY <1>1, <1>2, <1>3, FS_RemoveElement DEF In
<1>4. CASE a \notin S
  <2>1. S \ {a} = S
    BY <1>4
  <2>2. Cardinality(S \ {a}) = Cardinality(S)
    BY <2>1
  <2>3. In(a, S) = 0
    BY <1>4 DEF In
  <2> QED
    BY <1>2, <2>2, <2>3
<1> QED
  BY <1>2, <1>3, <1>4

LEMMA Fewer ==
  ASSUME NEW A, IsFiniteSet(A), NEW S \in SUBSET A, NEW T \in SUBSET S
  PROVE  Cardinality(T) <= Cardinality(S)
BY FS_Subset

\* A step of one approval, for the tickets of one thing: what it creates and what it
\* takes is paid for by what it gives back and by slips.
Pays(stored, stored1, made, made1, may, may1, will, will1, entry, entry1) ==
    /\ stored # None => stored1 # None
    /\ stored1 = None => made1 + may1 + entry1 + slips <= made + may + entry + slips'
    /\ stored # None => made1 + will1 + slips <= made + will + slips'
    /\ stored1 # None /\ stored = None => made1 + will1 + slips <= made + may + entry + slips'

LEMMA TallyMoves ==
  ASSUME NEW A, IsFiniteSet(A), NEW a,
         NEW T \in SUBSET A, NEW T1 \in SUBSET A, NEW W \in SUBSET T, NEW W1 \in SUBSET A,
         T1 \ {a} = T \ {a}, W1 \ {a} = W \ {a},
         NEW stored \in Nat, NEW stored1 \in Nat,
         NEW made \in Nat, NEW made1 \in Nat, NEW e \in Nat, NEW e1 \in Nat,
         slips \in Nat, slips' \in Nat,
         Pays(stored, stored1, made, made1, In(a, T), In(a, T1), In(a, W), In(a, W1), e, e1),
         Tally(stored, made, T, W, e) <= slips + 1
  PROVE  Tally(stored1, made1, T1, W1, e1) <= slips' + 1
<1> DEFINE n == Cardinality(T \ {a})
           m == Cardinality(W \ {a})
<1>1. /\ Cardinality(T) = n + In(a, T) /\ Cardinality(T1) = n + In(a, T1)
      /\ Cardinality(W) = m + In(a, W) /\ Cardinality(W1) = m + In(a, W1)
      /\ n \in Nat /\ m \in Nat
  <2>1. W \in SUBSET A
    OBVIOUS
  <2> QED
    BY <2>1, Splits
<1>2. m <= n
  <2>1. T \ {a} \in SUBSET A /\ W \ {a} \in SUBSET (T \ {a})
    OBVIOUS
  <2> QED
    BY <2>1, Fewer
<1>3. In(a, T) \in Nat /\ In(a, T1) \in Nat /\ In(a, W) \in Nat /\ In(a, W1) \in Nat
  BY DEF In
<1> HIDE DEF n, m
<1>4. CASE stored # None
  BY <1>1, <1>3, <1>4 DEF Tally, Pays
<1>5. CASE stored1 = None
  BY <1>1, <1>3, <1>5 DEF Tally, Pays
<1>6. CASE stored1 # None /\ stored = None
  BY <1>1, <1>2, <1>3, <1>6 DEF Tally, Pays
<1> QED
  BY <1>4, <1>5, <1>6

-----------------------------------------------------------------------------
(* The steps of Next, each for the counterparty and for the contracts. *)

ContractorPays(a) ==
    Pays(known.contractor, known'.contractor,
         accounting.contractors + PushContractor, (accounting.contractors + PushContractor)',
         In(a, MayContractor), In(a, MayContractor'),
         In(a, WillContractor), In(a, WillContractor'), Entry, Entry')

ContractPays(a, c) ==
    Pays(known.contract[c], known'.contract[c],
         accounting.copies[c] + PushContract(c), (accounting.copies[c] + PushContract(c))',
         In(a, MayContract(c)), In(a, MayContract(c)'),
         In(a, WillContract(c)), In(a, WillContract(c)'), Entry, Entry')

\* The others hold what they held.
Others(a) == \A b \in Approvals : b # a => approval'[b] = approval[b]

LEMMA TicketMove ==
  ASSUME TypeOK, TypeOK', TicketInv, NEW a, Others(a),
         ContractorPays(a), \A c \in Contracts : ContractPays(a, c)
  PROVE  TicketInv'
<1>1. /\ IsFiniteSet(Approvals) /\ slips \in Nat /\ slips' \in Nat
      /\ Entry \in Nat /\ Entry' \in Nat
  BY ApprovalAssumption DEF TypeOK, Entry
<1>2. ContractorTally' <= slips' + 1
  <2>1. /\ MayContractor \in SUBSET Approvals /\ MayContractor' \in SUBSET Approvals
        /\ WillContractor' \in SUBSET Approvals
    BY DEF MayContractor, WillContractor, Holders
  <2>2. WillContractor \in SUBSET MayContractor
    BY DEF MayContractor, WillContractor, Holders
  <2>3. /\ MayContractor' \ {a} = MayContractor \ {a}
        /\ WillContractor' \ {a} = WillContractor \ {a}
    BY DEF MayContractor, WillContractor, Holders, Others
  <2>4. /\ accounting.contractors + PushContractor \in Nat
        /\ (accounting.contractors + PushContractor)' \in Nat
    BY DEF TypeOK, PushContractor
  <2>6. known.contractor \in Nat /\ known'.contractor \in Nat
    BY DEF TypeOK, Counterparties
  <2>5. ContractorTally <= slips + 1
    BY DEF TicketInv
  <2> QED
    BY <1>1, <2>1, <2>2, <2>3, <2>4, <2>5, <2>6, TallyMoves DEF ContractorPays, ContractorTally
<1>3. ASSUME NEW c \in Contracts
      PROVE  ContractTally(c)' <= slips' + 1
  <2>1. /\ MayContract(c) \in SUBSET Approvals /\ MayContract(c)' \in SUBSET Approvals
        /\ WillContract(c)' \in SUBSET Approvals
    BY DEF MayContract, WillContract, Holders
  <2>2. WillContract(c) \in SUBSET MayContract(c)
    BY DEF MayContract, WillContract, Holders
  <2>3. /\ MayContract(c)' \ {a} = MayContract(c) \ {a}
        /\ WillContract(c)' \ {a} = WillContract(c) \ {a}
    BY DEF MayContract, WillContract, Holders, Others
  <2>4. /\ accounting.copies[c] + PushContract(c) \in Nat
        /\ (accounting.copies[c] + PushContract(c))' \in Nat
    BY DEF TypeOK, PushContract
  <2>6. known.contract[c] \in Nat /\ known'.contract[c] \in Nat
    BY DEF TypeOK, Counterparties
  <2>5. ContractTally(c) <= slips + 1 /\ ContractPays(a, c)
    BY DEF TicketInv
  <2>7. Pays(known.contract[c], known'.contract[c],
             accounting.copies[c] + PushContract(c), (accounting.copies[c] + PushContract(c))',
             In(a, MayContract(c)), In(a, MayContract(c)'),
             In(a, WillContract(c)), In(a, WillContract(c)'), Entry, Entry')
    BY <2>5 DEF ContractPays
  <2>8. Tally(known.contract[c], accounting.copies[c] + PushContract(c),
              MayContract(c), WillContract(c), Entry) <= slips + 1
    BY <2>5 DEF ContractTally
  <2>9. Tally(known'.contract[c], (accounting.copies[c] + PushContract(c))',
              MayContract(c)', WillContract(c)', Entry') <= slips' + 1
    BY <1>1, <2>1, <2>2, <2>3, <2>4, <2>6, <2>7, <2>8, TallyMoves
  <2> QED
    BY <2>9 DEF ContractTally
<1> QED
  BY <1>2, <1>3 DEF TicketInv

LEMMA Tickets ==
  ASSUME NEW a \in Approvals
  PROVE  /\ In(a, MayContractor) =
               IF approval[a].step \in {"idle", "evicted", "storeContractor"} THEN 0 ELSE 1
         /\ In(a, WillContractor) = IF approval[a].step = "contractor" THEN 1 ELSE 0
         /\ \A c \in Contracts :
               /\ In(a, MayContract(c)) =
                     IF \/ approval[a].step \in {"idle", "evicted"}
                        \/ approval[a].step = "storeContract" /\ approval[a].contract = c
                     THEN 0 ELSE 1
               /\ In(a, WillContract(c)) =
                     IF /\ approval[a].contract = c
                        /\ \/ approval[a].step = "contract"
                           \/ /\ approval[a].step \in {"contractor", "storeContractor"}
                              /\ ~approval[a].hasContract
                     THEN 1 ELSE 0
BY DEF In, MayContractor, WillContractor, MayContract, WillContract, Holders

LEMMA TicketsNext ==
  ASSUME NEW a \in Approvals
  PROVE  /\ In(a, MayContractor') =
               IF approval'[a].step \in {"idle", "evicted", "storeContractor"} THEN 0 ELSE 1
         /\ In(a, WillContractor') = IF approval'[a].step = "contractor" THEN 1 ELSE 0
         /\ \A c \in Contracts :
               /\ In(a, MayContract(c)') =
                     IF \/ approval'[a].step \in {"idle", "evicted"}
                        \/ approval'[a].step = "storeContract" /\ approval'[a].contract = c
                     THEN 0 ELSE 1
               /\ In(a, WillContract(c)') =
                     IF /\ approval'[a].contract = c
                        /\ \/ approval'[a].step = "contract"
                           \/ /\ approval'[a].step \in {"contractor", "storeContractor"}
                              /\ ~approval'[a].hasContract
                     THEN 1 ELSE 0
BY DEF In, MayContractor, WillContractor, MayContract, WillContract, Holders

\* The row: an approval that acts holds it before and after, or comes and goes.
LEMMA EntryStays ==
  ASSUME UNCHANGED lock, NEW a \in Approvals, Others(a), (a \in Holders) = (a \in Holders')
  PROVE  Entry' = Entry
<1>1. Holders' = Holders
  BY DEF Holders, Others
<1> QED
  BY <1>1 DEF Entry

LEMMA ApprovalPays ==
  ASSUME TypeOK, TypeOK', StoresSomething, NEW a \in Approvals,
         Advance(a) \/ \E c \in Contracts : Acquire(a, c)
  PROVE  Others(a) /\ ContractorPays(a) /\ \A c \in Contracts : ContractPays(a, c)
<1>t. /\ slips \in Nat /\ slips' \in Nat /\ Entry \in 0..1 /\ Entry' \in 0..1
      /\ accounting.contractors \in Nat /\ PushContractor \in 0..1
      /\ \A c \in Contracts : accounting.copies[c] \in Nat /\ PushContract(c) \in 0..1
      /\ approval[a] \in ApprovalType /\ approval'[a] \in ApprovalType
      /\ a \in DOMAIN approval /\ DOMAIN approval = Approvals
  BY ApprovalAssumption DEF TypeOK, Entry, PushContractor, PushContract
<1>p. /\ UNCHANGED push
      /\ PushContractor' = PushContractor
      /\ \A c \in Contracts : PushContract(c)' = PushContract(c)
  BY DEF Advance, Acquire, AcquireEvicted, Begin, CreateContractor, StoreContractor,
         CreateContract, StoreContract, Release, PushContractor, PushContract
<1>o. Others(a)
  BY <1>t DEF Others, Advance, Acquire, AcquireEvicted, Begin, CreateContractor,
              StoreContractor, CreateContract, StoreContract, Release, At
<1>q. /\ In(a, MayContractor) =
              IF approval[a].step \in {"idle", "evicted", "storeContractor"} THEN 0 ELSE 1
      /\ In(a, WillContractor) = IF approval[a].step = "contractor" THEN 1 ELSE 0
      /\ In(a, MayContractor') =
              IF approval'[a].step \in {"idle", "evicted", "storeContractor"} THEN 0 ELSE 1
      /\ In(a, WillContractor') = IF approval'[a].step = "contractor" THEN 1 ELSE 0
  BY Tickets, TicketsNext
<1>r. \A d \in Contracts :
         /\ In(a, MayContract(d)) =
               IF \/ approval[a].step \in {"idle", "evicted"}
                  \/ approval[a].step = "storeContract" /\ approval[a].contract = d
               THEN 0 ELSE 1
         /\ In(a, WillContract(d)) =
               IF /\ approval[a].contract = d
                  /\ \/ approval[a].step = "contract"
                     \/ /\ approval[a].step \in {"contractor", "storeContractor"}
                        /\ ~approval[a].hasContract
               THEN 1 ELSE 0
         /\ In(a, MayContract(d)') =
               IF \/ approval'[a].step \in {"idle", "evicted"}
                  \/ approval'[a].step = "storeContract" /\ approval'[a].contract = d
               THEN 0 ELSE 1
         /\ In(a, WillContract(d)') =
               IF /\ approval'[a].contract = d
                  /\ \/ approval'[a].step = "contract"
                     \/ /\ approval'[a].step \in {"contractor", "storeContractor"}
                        /\ ~approval'[a].hasContract
               THEN 1 ELSE 0
  BY Tickets, TicketsNext
<1>1. ASSUME NEW c \in Contracts, Acquire(a, c)
      PROVE  ContractorPays(a) /\ \A d \in Contracts : ContractPays(a, d)
  <2>1. /\ approval[a].step = "idle" /\ UNCHANGED <<known, accounting, slips>>
        /\ Entry = 1
        /\ \/ approval'[a].step = "locked" /\ lock' = "held"
           \/ approval'[a].step = "evicted" /\ lock' = "free"
    <3>1. /\ Idle.step = "idle"
          /\ [Idle EXCEPT !.step = "locked", !.contract = c].step = "locked"
          /\ [Idle EXCEPT !.step = "evicted", !.contract = c].step = "evicted"
      BY DEF Idle
    <3>2. lock \in {"free", "stale"}
      BY <1>1 DEF Acquire
    <3>3. Entry = 1
      BY <3>2 DEF Entry
    <3>4. /\ approval[a].step = "idle" /\ UNCHANGED <<known, accounting, slips>>
          /\ \/ approval'[a] = [Idle EXCEPT !.step = "locked", !.contract = c] /\ lock' = "held"
             \/ approval'[a] = [Idle EXCEPT !.step = "evicted", !.contract = c] /\ lock' = "free"
      BY <1>1, <1>t, <3>1 DEF Acquire
    <3> QED
      BY <3>1, <3>3, <3>4
  <2>2. approval'[a].step = "locked" => Entry' = 0
    <3>1. approval'[a].step = "locked" => a \in Holders'
      BY DEF Holders
    <3> QED
      BY <2>1, <3>1 DEF Entry
  <2> QED
    <3>c. ContractorPays(a)
      BY <1>t, <1>p, <2>1, <2>2, <1>q DEF ContractorPays, Pays
    <3>d. ASSUME NEW d \in Contracts PROVE ContractPays(a, d)
      BY <1>t, <1>p, <2>1, <2>2, <1>r
      DEF ContractPays, Pays
    <3> QED
      BY <1>o, <3>c, <3>d
<1>2. CASE AcquireEvicted(a)
  <2>1. /\ approval[a].step = "evicted" /\ UNCHANGED <<known, accounting, slips>>
        /\ \/ approval'[a].step = "locked" /\ lock = "free" /\ lock' = "held"
           \/ approval'[a].step = "idle" /\ lock' = lock
    <3>1. Idle.step = "idle"
      BY DEF Idle
    <3> QED
      BY <1>2, <1>t, <3>1 DEF AcquireEvicted, At, ApprovalType
  <2>2. CASE approval'[a].step = "locked" /\ lock = "free" /\ lock' = "held"
    <3>1. Entry = 1 /\ Entry' = 0
      <4>1. a \in Holders'
        BY <2>2 DEF Holders
      <4> QED
        BY <2>2, <4>1 DEF Entry
    <3> QED
      <4>c. ContractorPays(a)
        BY <1>t, <1>p, <2>1, <2>2, <3>1, <1>q DEF ContractorPays, Pays
      <4>d. ASSUME NEW d \in Contracts PROVE ContractPays(a, d)
        BY <1>t, <1>p, <2>1, <2>2, <3>1, <1>r
        DEF ContractPays, Pays
      <4> QED
        BY <1>o, <4>c, <4>d
  <2>3. CASE approval'[a].step = "idle" /\ lock' = lock
    <3>1. Entry = Entry'
      <4>1. a \notin Holders /\ a \notin Holders'
        BY <2>1, <2>3 DEF Holders
      <4> QED
        BY <1>o, <2>3, <4>1, EntryStays
    <3> QED
      <4>c. ContractorPays(a)
        BY <1>t, <1>p, <2>1, <2>3, <3>1, <1>q DEF ContractorPays, Pays
      <4>d. ASSUME NEW d \in Contracts PROVE ContractPays(a, d)
        BY <1>t, <1>p, <2>1, <2>3, <3>1, <1>r
        DEF ContractPays, Pays
      <4> QED
        BY <1>o, <4>c, <4>d
  <2> QED
    BY <2>1, <2>2, <2>3
<1>3. CASE Begin(a)
  <2>1. /\ approval[a].step = "locked" /\ UNCHANGED <<known, lock, accounting, slips>>
        /\ approval'[a].contract = approval[a].contract
        /\ known.contract[approval[a].contract] = None \/ approval'[a].hasContract
        /\ \/ approval'[a].step = "release"
           \/ approval'[a].step = "contractor" /\ known.contractor = None
           \/ /\ approval'[a].step = "contract" /\ known.contractor # None
              /\ known.contract[approval[a].contract] = None
    BY <1>3, <1>t DEF Begin, ApprovalType
  <2>2. Entry' = Entry
    <3>1. a \in Holders /\ a \in Holders'
      BY <2>1 DEF Holders
    <3> QED
      BY <1>o, <2>1, <3>1, EntryStays
  <2> QED
    <3>c. ContractorPays(a)
      BY <1>t, <1>p, <2>1, <2>2, <1>q DEF ContractorPays, Pays
    <3>d. ASSUME NEW d \in Contracts PROVE ContractPays(a, d)
      BY <1>t, <1>p, <2>1, <2>2, <1>r
      DEF ContractPays, Pays
    <3> QED
      BY <1>o, <3>c, <3>d
<1>4. CASE CreateContractor(a)
  <2>1. /\ approval[a].step = "contractor" /\ UNCHANGED <<known, lock>>
        /\ approval'[a].contract = approval[a].contract
        /\ approval'[a].hasContract = approval[a].hasContract
        /\ accounting'.copies = accounting.copies
        /\ \/ /\ accounting'.contractors = accounting.contractors + 1
              /\ \/ approval'[a].step = "storeContractor" /\ slips' = slips
                 \/ approval'[a].step = "release" /\ slips' = slips + 1
           \/ approval'[a].step = "release" /\ UNCHANGED <<accounting, slips>>
    BY <1>4, <1>t DEF CreateContractor, At, Slip, ApprovalType, TypeOK
  <2>2. Entry' = Entry
    <3>1. a \in Holders /\ a \in Holders'
      BY <2>1 DEF Holders
    <3> QED
      BY <1>o, <2>1, <3>1, EntryStays
  <2> QED
    <3>c. ContractorPays(a)
      BY <1>t, <1>p, <2>1, <2>2, <1>q DEF ContractorPays, Pays
    <3>d. ASSUME NEW d \in Contracts PROVE ContractPays(a, d)
      BY <1>t, <1>p, <2>1, <2>2, <1>r
      DEF ContractPays, Pays
    <3> QED
      BY <1>o, <3>c, <3>d
<1>5. CASE StoreContractor(a)
  <2>1. /\ approval[a].step = "storeContractor" /\ UNCHANGED <<lock, accounting>>
        /\ approval[a].contractor # None
        /\ approval'[a].contract = approval[a].contract
        /\ approval'[a].hasContract = approval[a].hasContract
        /\ known'.contract = known.contract
        /\ \/ /\ known'.contractor = approval[a].contractor /\ slips' = slips
              /\ \/ approval'[a].step = "release"
                 \/ approval'[a].step = "contract" /\ ~approval[a].hasContract
           \/ known' = known /\ approval'[a].step = "release" /\ slips' = slips + 1
    BY <1>5, <1>t DEF StoreContractor, At, Slip, ApprovalType, TypeOK, StoresSomething
  <2>2. Entry' = Entry
    <3>1. a \in Holders /\ a \in Holders'
      BY <2>1 DEF Holders
    <3> QED
      BY <1>o, <2>1, <3>1, EntryStays
  <2> QED
    <3>c. ContractorPays(a)
      BY <1>t, <1>p, <2>1, <2>2, <1>q DEF ContractorPays, Pays
    <3>d. ASSUME NEW d \in Contracts PROVE ContractPays(a, d)
      BY <1>t, <1>p, <2>1, <2>2, <1>r
      DEF ContractPays, Pays
    <3> QED
      BY <1>o, <3>c, <3>d
<1>6. CASE CreateContract(a)
  <2>1. /\ approval[a].step = "contract" /\ UNCHANGED <<known, lock>>
        /\ approval'[a].contract = approval[a].contract
        /\ accounting'.contractors = accounting.contractors
        /\ \/ /\ \A c \in Contracts : accounting'.copies[c] =
                    accounting.copies[c] + (IF c = approval[a].contract THEN 1 ELSE 0)
              /\ \/ approval'[a].step = "storeContract" /\ slips' = slips
                 \/ approval'[a].step = "release" /\ slips' = slips + 1
           \/ approval'[a].step = "release" /\ UNCHANGED <<accounting, slips>>
    BY <1>6, <1>t DEF CreateContract, At, Slip, ApprovalType, TypeOK
  <2>2. Entry' = Entry
    <3>1. a \in Holders /\ a \in Holders'
      BY <2>1 DEF Holders
    <3> QED
      BY <1>o, <2>1, <3>1, EntryStays
  <2> QED
    <3>c. ContractorPays(a)
      BY <1>t, <1>p, <2>1, <2>2, <1>q DEF ContractorPays, Pays
    <3>d. ASSUME NEW d \in Contracts PROVE ContractPays(a, d)
      BY <1>t, <1>p, <2>1, <2>2, <1>r
      DEF ContractPays, Pays
    <3> QED
      BY <1>o, <3>c, <3>d
<1>7. CASE StoreContract(a)
  <2>1. /\ approval[a].step = "storeContract" /\ UNCHANGED <<lock, accounting>>
        /\ approval[a].contractor # None /\ approval'[a].step = "release"
        /\ known'.contractor = known.contractor
        /\ \/ /\ \A c \in Contracts : known'.contract[c] =
                    IF c = approval[a].contract THEN approval[a].contractor ELSE known.contract[c]
              /\ slips' = slips
           \/ known' = known /\ slips' = slips + 1
    BY <1>7, <1>t DEF StoreContract, At, Slip, ApprovalType, TypeOK, StoresSomething
  <2>2. Entry' = Entry
    <3>1. a \in Holders /\ a \in Holders'
      BY <2>1 DEF Holders
    <3> QED
      BY <1>o, <2>1, <3>1, EntryStays
  <2> QED
    <3>c. ContractorPays(a)
      BY <1>t, <1>p, <2>1, <2>2, <1>q DEF ContractorPays, Pays
    <3>d. ASSUME NEW d \in Contracts PROVE ContractPays(a, d)
      BY <1>t, <1>p, <2>1, <2>2, <1>r
      DEF ContractPays, Pays
    <3> QED
      BY <1>o, <3>c, <3>d
<1>8. CASE Release(a)
  <2>1. /\ approval[a].step = "release" /\ UNCHANGED <<known, accounting, slips>>
        /\ approval'[a].step = "idle" /\ lock' = "free"
    BY <1>8, <1>t DEF Release, Idle
  <2>2. Entry' = 1
    BY <2>1 DEF Entry
  <2> QED
    <3>c. ContractorPays(a)
      BY <1>t, <1>p, <2>1, <2>2, <1>q DEF ContractorPays, Pays
    <3>d. ASSUME NEW d \in Contracts PROVE ContractPays(a, d)
      BY <1>t, <1>p, <2>1, <2>2, <1>r
      DEF ContractPays, Pays
    <3> QED
      BY <1>o, <3>c, <3>d
<1> QED
  BY <1>o, <1>1, <1>2, <1>3, <1>4, <1>5, <1>6, <1>7, <1>8 DEF Advance

\* A payment pushed before the approval is paid for when it is read.
LEMMA PushPays ==
  ASSUME TypeOK, TypeOK', NEW a,
         (\E c \in Contracts : PushRead(c)) \/ PushCall \/ PushStore \/ UNCHANGED vars
  PROVE  Others(a) /\ ContractorPays(a) /\ \A c \in Contracts : ContractPays(a, c)
<1>1. /\ UNCHANGED <<approval, lock>>
      /\ slips \in Nat /\ slips' \in Nat /\ accounting.contractors \in Nat
      /\ \A c \in Contracts : accounting.copies[c] \in Nat
  <2>1. UNCHANGED <<approval, lock>>
    BY DEF PushRead, PushCall, PushStore, vars
  <2>2. slips \in Nat /\ slips' \in Nat
    BY ApprovalAssumption DEF TypeOK
  <2> QED
    BY <2>1, <2>2 DEF TypeOK
<1>2. /\ Entry' = Entry /\ MayContractor' = MayContractor /\ WillContractor' = WillContractor
      /\ \A c \in Contracts : /\ MayContract(c)' = MayContract(c)
                              /\ WillContract(c)' = WillContract(c)
  BY <1>1 DEF Entry, MayContractor, WillContractor, MayContract, WillContract, Holders
<1>3. /\ Entry \in Nat /\ In(a, MayContractor) \in 0..1 /\ In(a, WillContractor) \in 0..1
      /\ WillContractor \in SUBSET MayContractor
      /\ \A c \in Contracts : /\ In(a, MayContract(c)) \in 0..1
                              /\ In(a, WillContract(c)) \in 0..1
                              /\ WillContract(c) \in SUBSET MayContract(c)
  BY DEF Entry, In, MayContractor, WillContractor, MayContract, WillContract, Holders
<1>4. /\ In(a, WillContractor) <= In(a, MayContractor)
      /\ \A c \in Contracts : In(a, WillContract(c)) <= In(a, MayContract(c))
  BY <1>3 DEF In
<1>5. /\ known.contractor # None => known'.contractor # None
      /\ accounting'.contractors + PushContractor' + slips
            <= accounting.contractors + PushContractor + slips'
      /\ accounting'.contractors \in Nat /\ PushContractor \in 0..1 /\ PushContractor' \in 0..1
      /\ \A c \in Contracts :
            /\ known.contract[c] # None => known'.contract[c] # None
            /\ accounting'.copies[c] \in Nat
            /\ PushContract(c) \in 0..1 /\ PushContract(c)' \in 0..1
            /\ accounting'.copies[c] + PushContract(c)' + slips
                  <= accounting.copies[c] + PushContract(c) + slips'
  <2>0. /\ PushContractor \in 0..1 /\ PushContractor' \in 0..1
        /\ \A c \in Contracts : PushContract(c) \in 0..1 /\ PushContract(c)' \in 0..1
        /\ accounting'.contractors \in Nat
        /\ \A c \in Contracts : accounting'.copies[c] \in Nat
    BY DEF PushContractor, PushContract, TypeOK
  <2>1. ASSUME NEW c \in Contracts, PushRead(c)
        PROVE  /\ UNCHANGED <<known, accounting>> /\ slips' = slips + 1
    BY <2>1 DEF PushRead, Slip
  <2>2. CASE PushCall
    <3>1. /\ UNCHANGED <<known, slips>> /\ push.step = "read" /\ push'.step = "answered"
          /\ \/ accounting'.contractors = accounting.contractors
             \/ /\ accounting'.contractors = accounting.contractors + 1
                /\ push.contractor = None
          /\ \E created \in IF push.hasContract THEN {0} ELSE {0, 1} :
                \A c \in Contracts : accounting'.copies[c] =
                   IF c = push.contract THEN accounting.copies[c] + created
                                        ELSE accounting.copies[c]
      <4>1. UNCHANGED <<known, slips>> /\ push.step = "read" /\ push \in PushType
        BY <2>2 DEF PushCall, TypeOK
      <4>2. PICK k \in (IF push.contractor # None THEN {push.contractor}
                                                  ELSE 1..(accounting.contractors + 1)),
                 created \in (IF push.hasContract THEN {0} ELSE {0, 1}) :
               /\ accounting' = [accounting EXCEPT
                     !.contractors = IF push.contractor = None /\ k = accounting.contractors + 1
                                     THEN k ELSE accounting.contractors,
                     !.copies[push.contract] = @ + created]
               /\ \E newContractor \in {None, k}, newContract \in {None, k} :
                     push' = [push EXCEPT !.step = "answered",
                                          !.newContractor = newContractor,
                                          !.newContract = newContract]
        BY <2>2 DEF PushCall
      <4>3. push'.step = "answered"
        BY <4>1, <4>2 DEF PushType
      <4>4. /\ accounting'.contractors =
                  IF push.contractor = None /\ k = accounting.contractors + 1
                  THEN k ELSE accounting.contractors
            /\ \A c \in Contracts : accounting'.copies[c] =
                  IF c = push.contract THEN accounting.copies[c] + created
                                       ELSE accounting.copies[c]
        BY <4>2 DEF TypeOK
      <4> QED
        BY <4>1, <4>3, <4>4
    <3>2. PushContractor' = 0 /\ \A c \in Contracts : PushContract(c)' = 0
      BY <3>1 DEF PushContractor, PushContract
    <3> QED
      BY <1>1, <2>0, <3>1, <3>2 DEF PushContractor, PushContract
  <2>3. CASE PushStore
    <3>1. /\ UNCHANGED <<accounting, slips>> /\ push.step = "answered" /\ push' = NoPush
          /\ known'.contractor # known.contractor => known'.contractor # None
          /\ \A c \in Contracts :
                known'.contract[c] # known.contract[c] => known'.contract[c] # None
      BY <2>3 DEF PushStore, TypeOK
    <3>2. PushContractor' = 0 /\ \A c \in Contracts : PushContract(c)' = 0
      BY <3>1 DEF PushContractor, PushContract, NoPush
    <3> QED
      BY <1>1, <2>0, <3>1, <3>2
  <2>4. CASE UNCHANGED vars
    BY <1>1, <2>0, <2>4 DEF vars, PushContractor, PushContract
  <2>5. CASE \E c \in Contracts : PushRead(c)
    <3>1. /\ UNCHANGED <<known, accounting>> /\ slips' = slips + 1 /\ push = NoPush
      BY <2>5 DEF PushRead, Slip
    <3>2. PushContractor = 0 /\ \A c \in Contracts : PushContract(c) = 0
      BY <3>1 DEF PushContractor, PushContract, NoPush
    <3> QED
      BY <1>1, <2>0, <3>1, <3>2
  <2> QED
    BY <2>2, <2>3, <2>4, <2>5
<1>6. Others(a)
  BY <1>1 DEF Others
<1>7. ContractorPays(a)
  BY <1>1, <1>2, <1>3, <1>4, <1>5 DEF ContractorPays, Pays
<1>8. ASSUME NEW c \in Contracts PROVE ContractPays(a, c)
  BY <1>1, <1>2, <1>3, <1>4, <1>5 DEF ContractPays, Pays
<1> QED
  BY <1>6, <1>7, <1>8

LEMMA AddBoth ==
  ASSUME NEW s \in Nat, NEW t \in Nat, s <= t, NEW made \in Nat, NEW may \in Nat,
         NEW will \in Nat, NEW e \in Nat, NEW e1 \in Nat, e1 + s <= e + t
  PROVE  /\ made + may + e1 + s <= made + may + e + t
         /\ made + will + s <= made + will + t
OBVIOUS

LEMMA OnlyEntryPays ==
  ASSUME slips \in Nat, slips' \in Nat, slips <= slips', NEW stored, NEW made \in Nat,
         NEW may \in Nat, NEW will \in Nat, NEW e \in Nat, NEW e1 \in Nat,
         e1 + slips <= e + slips'
  PROVE  Pays(stored, stored, made, made, may, may, will, will, e, e1)
<1>1. /\ made + may + e1 + slips <= made + may + e + slips'
      /\ made + will + slips <= made + will + slips'
  BY AddBoth, Zenon
<1> QED
  BY <1>1, Zenon DEF Pays

\* An approval that outlives the row gives its ticket to the next one.
LEMMA ExpirePays ==
  ASSUME TypeOK, TypeOK', NEW a, Expire
  PROVE  Others(a) /\ ContractorPays(a) /\ \A c \in Contracts : ContractPays(a, c)
<1>1. /\ UNCHANGED <<known, approval, push, accounting>> /\ lock = "held" /\ lock' = "stale"
      /\ accounting.contractors \in Nat /\ PushContractor \in 0..1
      /\ \A c \in Contracts : accounting.copies[c] \in Nat /\ PushContract(c) \in 0..1
  BY ApprovalAssumption DEF TypeOK, Expire, Slip, PushContractor, PushContract
<1>s. slips \in Nat /\ slips' \in Nat /\ slips' \in {slips, slips + 1}
  BY ApprovalAssumption DEF TypeOK, Expire, Slip
<1>l. slips <= slips'
  BY <1>s
<1>2. /\ MayContractor' = MayContractor /\ WillContractor' = WillContractor
      /\ \A c \in Contracts : /\ MayContract(c)' = MayContract(c)
                              /\ WillContract(c)' = WillContract(c)
      /\ PushContractor' = PushContractor
      /\ \A c \in Contracts : PushContract(c)' = PushContract(c)
  BY <1>1 DEF MayContractor, WillContractor, MayContract, WillContract, Holders,
              PushContractor, PushContract
<1>3. /\ In(a, MayContractor) \in 0..1 /\ In(a, WillContractor) \in 0..1
      /\ WillContractor \in SUBSET MayContractor
      /\ \A c \in Contracts : /\ In(a, MayContract(c)) \in 0..1
                              /\ In(a, WillContract(c)) \in 0..1
                              /\ WillContract(c) \in SUBSET MayContract(c)
  BY DEF In, MayContractor, WillContractor, MayContract, WillContract, Holders
<1>4. /\ In(a, WillContractor) <= In(a, MayContractor)
      /\ \A c \in Contracts : In(a, WillContract(c)) <= In(a, MayContract(c))
  BY <1>3 DEF In
<1>5. Entry' + slips <= Entry + slips' /\ Entry \in 0..1 /\ Entry' \in 0..1
  <2>1. Entry' = 1
    BY <1>1 DEF Entry
  <2>2. CASE Holders = {}
    <3>1. Entry = 1
      BY <2>2 DEF Entry
    <3>2. slips' = slips
      BY <2>2 DEF Expire
    <3>3. Entry' + slips <= Entry + slips'
      BY <1>s, <2>1, <3>1, <3>2
    <3> QED
      BY <2>1, <3>1, <3>3
  <2>3. CASE Holders # {}
    <3>1. slips' = slips + 1
      BY <2>3 DEF Expire, Slip
    <3>2. Entry \in 0..1
      BY DEF Entry
    <3> QED
      BY <1>s, <2>1, <3>1, <3>2
  <2> QED
    BY <2>2, <2>3
<1>6. Others(a)
  BY <1>1 DEF Others
<1>7. ContractorPays(a)
  <2>1. /\ known'.contractor = known.contractor
        /\ accounting'.contractors = accounting.contractors
        /\ PushContractor' = PushContractor
        /\ MayContractor' = MayContractor /\ WillContractor' = WillContractor
    BY <1>1, <1>2
  <2>2. In(a, MayContractor) \in 0..1 /\ In(a, WillContractor) \in 0..1
    BY <1>3
  <2> QED
    <3>1. /\ accounting.contractors + PushContractor \in Nat
          /\ (accounting.contractors + PushContractor)' = accounting.contractors + PushContractor
          /\ In(a, MayContractor) \in Nat /\ In(a, WillContractor) \in Nat
          /\ Entry \in Nat /\ Entry' \in Nat /\ slips \in Nat /\ slips' \in Nat
      BY <1>s, <1>1, <1>5, <2>1, <2>2
    <3> QED
      BY <1>l, <1>5, <2>1, <3>1, OnlyEntryPays DEF ContractorPays
<1>8. ASSUME NEW c \in Contracts PROVE ContractPays(a, c)
  <2>1. /\ known'.contract[c] = known.contract[c]
        /\ accounting'.copies[c] = accounting.copies[c]
        /\ PushContract(c)' = PushContract(c)
        /\ MayContract(c)' = MayContract(c) /\ WillContract(c)' = WillContract(c)
    BY <1>1, <1>2
  <2>2. In(a, MayContract(c)) \in 0..1 /\ In(a, WillContract(c)) \in 0..1
    BY <1>3
  <2> QED
    <3>1. /\ accounting.copies[c] + PushContract(c) \in Nat
          /\ (accounting.copies[c] + PushContract(c))' = accounting.copies[c] + PushContract(c)
          /\ In(a, MayContract(c)) \in Nat /\ In(a, WillContract(c)) \in Nat
          /\ Entry \in Nat /\ Entry' \in Nat /\ slips \in Nat /\ slips' \in Nat
      BY <1>s, <1>1, <1>5, <2>1, <2>2
    <3> QED
      BY <1>l, <1>5, <2>1, <3>1, OnlyEntryPays DEF ContractPays
<1> QED
  BY <1>6, <1>7, <1>8

\* What has been created is not more than the tickets given out.
LEMMA MadeIsPaid ==
  ASSUME TypeOK, TicketInv
  PROVE  /\ accounting.contractors <= slips + 1
         /\ \A c \in Contracts : accounting.copies[c] <= slips + 1
<1>1. /\ slips \in Nat /\ Entry \in 0..1
      /\ accounting.contractors \in Nat /\ PushContractor \in 0..1
      /\ \A c \in Contracts : accounting.copies[c] \in Nat /\ PushContract(c) \in 0..1
  BY ApprovalAssumption DEF TypeOK, Entry, PushContractor, PushContract
<1>2. ASSUME NEW S \in SUBSET Approvals PROVE Cardinality(S) \in Nat
  BY ApprovalAssumption, FS_Subset, FS_CardinalityType
<1>3. accounting.contractors <= slips + 1
  <2>1. Cardinality(MayContractor) \in Nat /\ Cardinality(WillContractor) \in Nat
    <3>1. MayContractor \in SUBSET Approvals /\ WillContractor \in SUBSET Approvals
      BY DEF MayContractor, WillContractor, Holders
    <3> QED
      BY <1>2, <3>1
  <2> QED
    BY <1>1, <2>1 DEF TicketInv, ContractorTally, Tally
<1>4. ASSUME NEW c \in Contracts
      PROVE  accounting.copies[c] <= slips + 1
  <2>1. Cardinality(MayContract(c)) \in Nat /\ Cardinality(WillContract(c)) \in Nat
    <3>1. MayContract(c) \in SUBSET Approvals /\ WillContract(c) \in SUBSET Approvals
      BY DEF MayContract, WillContract, Holders
    <3> QED
      BY <1>2, <3>1
  <2>2. ContractTally(c) <= slips + 1
    BY DEF TicketInv
  <2> QED
    BY <1>1, <2>1, <2>2 DEF ContractTally, Tally
<1> QED
  BY <1>3, <1>4

TicketsCounted == StoresSomething /\ TicketInv

LEMMA TicketsInit == Init => TicketsCounted
<1> SUFFICES ASSUME Init PROVE TicketsCounted
  OBVIOUS
<1>1. /\ \A a \in Approvals : approval[a].step = "idle"
      /\ push.step = "idle" /\ slips = 0 /\ lock = "free"
      /\ known.contractor = None /\ accounting.contractors = 0
      /\ \A c \in Contracts : known.contract[c] = None /\ accounting.copies[c] = 0
  BY DEF Init, Idle, NoPush
<1>2. /\ MayContractor = {} /\ WillContractor = {} /\ PushContractor = 0 /\ Entry = 1
      /\ \A c \in Contracts : /\ MayContract(c) = {} /\ WillContract(c) = {}
                              /\ PushContract(c) = 0
  BY <1>1 DEF MayContractor, WillContractor, PushContractor, MayContract, WillContract,
              PushContract, Entry, Holders
<1>3. Cardinality({}) = 0
  BY FS_EmptySet
<1>4. ContractorTally <= slips + 1
  BY <1>1, <1>2, <1>3 DEF ContractorTally, Tally
<1>5. ASSUME NEW c \in Contracts PROVE ContractTally(c) <= slips + 1
  <2>1. MayContract(c) = {} /\ WillContract(c) = {} /\ PushContract(c) = 0 /\ Entry = 1
    BY <1>2
  <2> QED
    BY <1>1, <1>3, <2>1 DEF ContractTally, Tally
<1>6. StoresSomething
  BY <1>1 DEF StoresSomething
<1> QED
  BY <1>4, <1>5, <1>6 DEF TicketsCounted, TicketInv

\* An approval that has got as far as a contract has a counterparty.
LEMMA StoresStep ==
  TypeOK /\ TypeOK' /\ StoresSomething /\ [Next]_vars => StoresSomething'
<1> SUFFICES ASSUME TypeOK, TypeOK', StoresSomething, [Next]_vars,
                    NEW b \in Approvals,
                    approval'[b].step \in {"storeContractor", "contract", "storeContract"}
             PROVE  approval'[b].contractor # None
  BY DEF StoresSomething
<1>t. approval[b] \in ApprovalType /\ b \in DOMAIN approval /\ DOMAIN approval = Approvals
      /\ accounting.contractors \in Nat
  BY DEF TypeOK
<1>s. approval[b].step \in {"storeContractor", "contract", "storeContract"} =>
          approval[b].contractor # None
  BY DEF StoresSomething
<1>1. ASSUME NEW a \in Approvals, Advance(a) \/ \E c \in Contracts : Acquire(a, c)
      PROVE  approval'[b].contractor # None
  <2>1. CASE b # a
    <3>1. approval'[b] = approval[b]
      BY <1>1, <1>t, <2>1
      DEF Advance, Acquire, AcquireEvicted, Begin, CreateContractor, StoreContractor,
          CreateContract, StoreContract, Release, At
    <3> QED
      BY <1>s, <3>1
  <2>2. CASE b = a /\ Begin(a)
    BY <1>t, <2>2 DEF Begin, ApprovalType
  <2>3. CASE b = a /\ CreateContractor(a)
    BY <1>t, <2>3 DEF CreateContractor, At, ApprovalType, None
  <2>4. CASE b = a /\ StoreContractor(a)
    BY <1>t, <1>s, <2>4 DEF StoreContractor, At, ApprovalType
  <2>5. CASE b = a /\ CreateContract(a)
    BY <1>t, <1>s, <2>5 DEF CreateContract, At, ApprovalType
  <2>6. CASE b = a /\ (StoreContract(a) \/ Release(a) \/ AcquireEvicted(a)
                       \/ \E c \in Contracts : Acquire(a, c))
    <3>1. approval'[b].step \in {"release", "idle", "locked", "evicted"}
      <4>1. CASE StoreContract(a)
        BY <1>t, <2>6, <4>1 DEF StoreContract, At
      <4>2. CASE Release(a)
        BY <1>t, <2>6, <4>2 DEF Release, Idle
      <4>3. CASE AcquireEvicted(a)
        <5>1. Idle.step = "idle"
          BY DEF Idle
        <5> QED
          BY <1>t, <2>6, <4>3, <5>1 DEF AcquireEvicted, At, ApprovalType
      <4>4. CASE \E c \in Contracts : Acquire(a, c)
        BY <1>t, <2>6, <4>4 DEF Acquire, Idle
      <4> QED
        BY <2>6, <4>1, <4>2, <4>3, <4>4
    <3> QED
      BY <3>1
  <2> QED
    BY <1>1, <2>1, <2>2, <2>3, <2>4, <2>5, <2>6 DEF Advance
<1>2. CASE \/ \E c \in Contracts : PushRead(c)
           \/ PushCall \/ PushStore \/ Expire \/ UNCHANGED vars
  <2>1. approval' = approval
    BY <1>2 DEF PushRead, PushCall, PushStore, Expire, vars
  <2> QED
    BY <1>s, <2>1
<1>3. CASE Crash
  <2>1. approval'[b].step = "idle"
    BY <1>3 DEF Crash, Idle
  <2> QED
    BY <2>1
<1> QED
  BY <1>1, <1>2, <1>3 DEF Next

\* A crash takes all tickets and brings one: there is one for what is asked for next.
LEMMA CrashCounted ==
  ASSUME TypeOK, TicketInv, Crash
  PROVE  TicketInv'
<1>1. /\ UNCHANGED <<known, accounting>> /\ slips' = slips + 1 /\ slips \in Nat
      /\ push' = NoPush /\ \A a \in Approvals : approval'[a].step = "idle"
      /\ accounting.contractors \in Nat /\ \A c \in Contracts : accounting.copies[c] \in Nat
  BY ApprovalAssumption DEF TypeOK, Crash, Slip, Idle
<1>2. /\ MayContractor' = {} /\ WillContractor' = {} /\ PushContractor' = 0 /\ Entry' = 1
      /\ \A c \in Contracts : /\ MayContract(c)' = {} /\ WillContract(c)' = {}
                              /\ PushContract(c)' = 0
  <2>1. Holders' = {}
    BY <1>1 DEF Holders
  <2>2. push'.step = "idle"
    BY <1>1 DEF NoPush
  <2> QED
    BY <1>1, <2>1, <2>2 DEF MayContractor, WillContractor, PushContractor, MayContract,
                            WillContract, PushContract, Entry
<1>3. Cardinality({}) = 0
  BY FS_EmptySet
<1>4. /\ accounting.contractors <= slips + 1
      /\ \A c \in Contracts : accounting.copies[c] <= slips + 1
  BY MadeIsPaid
<1>5. ContractorTally' <= slips' + 1
  BY <1>1, <1>2, <1>3, <1>4 DEF ContractorTally, Tally
<1>6. ASSUME NEW c \in Contracts PROVE ContractTally(c)' <= slips' + 1
  <2>1. MayContract(c)' = {} /\ WillContract(c)' = {} /\ PushContract(c)' = 0 /\ Entry' = 1
    BY <1>2
  <2>2. accounting'.copies[c] = accounting.copies[c]
        /\ accounting.copies[c] \in Nat /\ accounting.copies[c] <= slips + 1
    BY <1>1, <1>4
  <2> QED
    BY <1>1, <1>3, <2>1, <2>2 DEF ContractTally, Tally
<1> QED
  BY <1>5, <1>6 DEF TicketInv

LEMMA TicketsStep == TypeOK /\ TypeOK' /\ TicketsCounted /\ [Next]_vars => TicketsCounted'
<1> SUFFICES ASSUME TypeOK, TypeOK', TicketsCounted, [Next]_vars
             PROVE  TicketsCounted'
  OBVIOUS
<1>0. StoresSomething /\ TicketInv
  BY DEF TicketsCounted
<1>1. StoresSomething'
  BY <1>0, StoresStep
<1>2. ASSUME NEW a \in Approvals, Advance(a) \/ \E c \in Contracts : Acquire(a, c)
      PROVE  TicketInv'
  <2>1. Others(a) /\ ContractorPays(a) /\ \A c \in Contracts : ContractPays(a, c)
    BY <1>0, <1>2, ApprovalPays
  <2> QED
    BY <1>0, <2>1, TicketMove
<1>3. ASSUME (\E c \in Contracts : PushRead(c)) \/ PushCall \/ PushStore \/ UNCHANGED vars
      PROVE  TicketInv'
  <2>1. Others(0) /\ ContractorPays(0) /\ \A c \in Contracts : ContractPays(0, c)
    BY <1>3, PushPays
  <2> QED
    BY <1>0, <2>1, TicketMove
<1>4. ASSUME Expire PROVE TicketInv'
  <2>1. Others(0) /\ ContractorPays(0) /\ \A c \in Contracts : ContractPays(0, c)
    BY <1>4, ExpirePays
  <2> QED
    BY <1>0, <2>1, TicketMove
<1>5. ASSUME Crash PROVE TicketInv'
  BY <1>0, <1>5, CrashCounted
<1>6. TicketInv'
  BY <1>2, <1>3, <1>4, <1>5 DEF Next
<1> QED
  BY <1>1, <1>6 DEF TicketsCounted

\* However many requests there are for the contracts of a resident, one counterparty and
\* one contract each are created, and one more for each slip.
THEOREM CreatedAtMostOnce == Spec => []CreatedOnce
<1>1. TypeOK /\ TicketsCounted => CreatedOnce
  <2> SUFFICES ASSUME TypeOK, TicketsCounted PROVE CreatedOnce
    OBVIOUS
  <2>1. /\ accounting.contractors <= slips + 1
        /\ \A c \in Contracts : accounting.copies[c] <= slips + 1
    BY MadeIsPaid DEF TicketsCounted
  <2>2. /\ slips \in Nat /\ slips + 1 = 1 + slips
    BY ApprovalAssumption DEF TypeOK
  <2> QED
    BY <2>1, <2>2 DEF CreatedOnce
<1> QED
  BY <1>1, TicketsInit, TicketsStep, TypeCorrect, PTL DEF Spec

=============================================================================
