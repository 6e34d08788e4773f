-------------------------- MODULE ContractApproval --------------------------
(***************************************************************************)
(* The approval of the contracts of one resident:                          *)
(* contract-approval.service.ts.  Accounting creates a counterparty for    *)
(* the resident and a contract under it, in two calls; the identifiers it  *)
(* answers with are stored.  A row of sync_locks per resident keeps a      *)
(* second approval out, until it is ten minutes old.  Payments are pushed  *)
(* without that lock, and store the identifiers too that the answer names. *)
(*                                                                         *)
(* A counterparty is a number.  Of the identifier of a contract matters    *)
(* under which counterparty accounting has it.                             *)
(***************************************************************************)
EXTENDS Naturals, FiniteSets

CONSTANTS
    Contracts,   \* the contracts of the resident
    Approvals,   \* requests of the staff
    MaxSlips     \* bound: see slips

ASSUME ApprovalAssumption == MaxSlips \in Nat /\ Contracts # {} /\ IsFiniteSet(Approvals)

None == 0

Counterparties == Nat

VARIABLES
    known,      \* accounting1c_contractor_uid, accounting1c_uid
    lock,       \* the row of sync_locks: none, younger or older than LOCK_STALE_MS
    approval,   \* the request: its step, its contract, the counterparty it has
    push,       \* the push of a payment for a contract that is not approved yet
    accounting, \* external: how many counterparties, how many copies of a contract
    slips       \* history: answers and stores lost, crashes, approvals that outlive the
                \* lock, payments pushed before the approval

vars == <<known, lock, approval, push, accounting, slips>>

Steps == {"idle", "evicted", "locked", "contractor", "storeContractor", "contract",
          "storeContract", "release"}

ApprovalType ==
    [step : Steps, contract : Contracts, contractor : Counterparties, hasContract : BOOLEAN]

PushType ==
    [step : {"idle", "read", "answered"}, contract : Contracts, contractor : Counterparties,
     hasContract : BOOLEAN, newContractor : Counterparties, newContract : Counterparties]

TypeOK ==
    /\ known \in [contractor : Counterparties, contract : [Contracts -> Counterparties]]
    /\ lock \in {"free", "held", "stale"}
    /\ approval \in [Approvals -> ApprovalType]
    /\ push \in PushType
    /\ accounting \in [contractors : Nat, copies : [Contracts -> Nat]]
    /\ slips \in 0..MaxSlips

AnyContract == CHOOSE c \in Contracts : TRUE

Idle == [step |-> "idle", contract |-> AnyContract, contractor |-> None, hasContract |-> FALSE]

NoPush == [step |-> "idle", contract |-> AnyContract, contractor |-> None,
           hasContract |-> FALSE, newContractor |-> None, newContract |-> None]

Init ==
    /\ known = [contractor |-> None, contract |-> [c \in Contracts |-> None]]
    /\ lock = "free"
    /\ approval = [a \in Approvals |-> Idle]
    /\ push = NoPush
    /\ accounting = [contractors |-> 0, copies |-> [c \in Contracts |-> 0]]
    /\ slips = 0

\* Nothing of a request that has been answered is read again.
At(a, step) == approval' = [approval EXCEPT ![a].step = step]

Slip == slips < MaxSlips /\ slips' = slips + 1

-----------------------------------------------------------------------------
(* acquireLock *)

\* Mutant: the row is taken without a look at its age.
AcquireAlways(a, c) ==
    /\ approval[a] = Idle
    /\ lock' = "held"
    /\ approval' = [approval EXCEPT ![a] = [Idle EXCEPT !.step = "locked", !.contract = c]]
    /\ UNCHANGED <<known, push, accounting, slips>>

\* An old row is deleted; a young one answers "already running", which changes nothing.
Acquire(a, c) ==
    /\ approval[a] = Idle
    /\ \/ /\ lock = "free"
          /\ lock' = "held"
          /\ approval' = [approval EXCEPT ![a] = [Idle EXCEPT !.step = "locked", !.contract = c]]
       \/ /\ lock = "stale"
          /\ lock' = "free"
          /\ approval' = [approval EXCEPT ![a] = [Idle EXCEPT !.step = "evicted", !.contract = c]]
    /\ UNCHANGED <<known, push, accounting, slips>>

\* The row is created again, if nobody else was faster.
AcquireEvicted(a) ==
    /\ approval[a].step = "evicted"
    /\ IF lock = "free" THEN lock' = "held" /\ At(a, "locked")
                        ELSE lock' = lock /\ approval' = [approval EXCEPT ![a] = Idle]
    /\ UNCHANGED <<known, push, accounting, slips>>

-----------------------------------------------------------------------------
(* approveLocked *)

\* Mutant: either identifier counts as an approval.
BeginEither(a) ==
    /\ approval[a].step = "locked"
    /\ LET c == approval[a].contract
           next == IF known.contractor = None THEN "contractor" ELSE "release"
       IN  \E step \in {next, "release"} :
              approval' = [approval EXCEPT ![a].step = step,
                                           ![a].contractor = known.contractor,
                                           ![a].hasContract = known.contract[c] # None]
    /\ UNCHANGED <<known, lock, push, accounting, slips>>

\* The state of the contract is read once.  A contract that is terminated or has no
\* terms, and calls that are not configured, are refused.
Begin(a) ==
    /\ approval[a].step = "locked"
    /\ LET c == approval[a].contract
           next == IF known.contractor = None THEN "contractor"
                   ELSE IF known.contract[c] = None THEN "contract" ELSE "release"
       IN  \E step \in {next, "release"} :
              approval' = [approval EXCEPT ![a].step = step,
                                           ![a].contractor = known.contractor,
                                           ![a].hasContract = known.contract[c] # None]
    /\ UNCHANGED <<known, lock, push, accounting, slips>>

\* createContractors: created and answered, created and not heard of, refused.
CreateContractor(a) ==
    /\ approval[a].step = "contractor"
    /\ LET new == accounting.contractors + 1
       IN  \/ /\ accounting' = [accounting EXCEPT !.contractors = new]
              /\ \/ /\ approval' = [approval EXCEPT ![a].step = "storeContractor",
                                                    ![a].contractor = new]
                    /\ slips' = slips
                 \/ At(a, "release") /\ Slip
           \/ At(a, "release") /\ UNCHANGED <<accounting, slips>>
    /\ UNCHANGED <<known, lock, push>>

\* The transaction that stores the answer may fail.
StoreContractor(a) ==
    /\ approval[a].step = "storeContractor"
    /\ \/ /\ known' = [known EXCEPT !.contractor = approval[a].contractor]
          /\ At(a, IF approval[a].hasContract THEN "release" ELSE "contract")
          /\ slips' = slips
       \/ known' = known /\ At(a, "release") /\ Slip
    /\ UNCHANGED <<lock, push, accounting>>

CreateContract(a) ==
    /\ approval[a].step = "contract"
    /\ \/ /\ accounting' = [accounting EXCEPT !.copies[approval[a].contract] = @ + 1]
          /\ \/ At(a, "storeContract") /\ slips' = slips
             \/ At(a, "release") /\ Slip
       \/ At(a, "release") /\ UNCHANGED <<accounting, slips>>
    /\ UNCHANGED <<known, lock, push>>

StoreContract(a) ==
    /\ approval[a].step = "storeContract"
    /\ At(a, "release")
    /\ \/ /\ known' = [known EXCEPT !.contract[approval[a].contract] = approval[a].contractor]
          /\ slips' = slips
       \/ known' = known /\ Slip
    /\ UNCHANGED <<lock, push, accounting>>

\* The finally deletes the row of the resident, whoever has created it.
Release(a) ==
    /\ approval[a].step = "release"
    /\ lock' = "free"
    /\ approval' = [approval EXCEPT ![a] = Idle]
    /\ UNCHANGED <<known, push, accounting, slips>>

-----------------------------------------------------------------------------
(* pushPayments, for a contract that is not approved *)

\* The payment is sent with the identifiers that are known when it is read.
PushRead(c) ==
    /\ push = NoPush
    /\ known.contractor = None \/ known.contract[c] = None
    /\ Slip
    /\ push' = [NoPush EXCEPT !.step = "read", !.contract = c, !.contractor = known.contractor,
                              !.hasContract = known.contract[c] # None]
    /\ UNCHANGED <<known, lock, approval, accounting>>

\* Accounting books the payment under the counterparty sent, one it has or a new one,
\* and under a contract it has or creates; it may name either in its answer.
PushCall ==
    /\ push.step = "read"
    /\ LET n == accounting.contractors
           c == push.contract
       IN  \E k \in IF push.contractor # None THEN {push.contractor} ELSE 1..(n + 1),
             created \in IF push.hasContract THEN {0} ELSE {0, 1} :
              /\ accounting' = [accounting EXCEPT
                    !.contractors = IF push.contractor = None /\ k = n + 1 THEN k ELSE n,
                    !.copies[c] = @ + created]
              /\ \E newContractor \in {None, k}, newContract \in {None, k} :
                    push' = [push EXCEPT !.step = "answered", !.newContractor = newContractor,
                                         !.newContract = newContract]
    /\ UNCHANGED <<known, lock, approval, slips>>

\* What was not known when the payment was read is stored.
PushStore ==
    /\ push.step = "answered"
    /\ known' =
          [known EXCEPT
             !.contractor = IF push.contractor = None /\ push.newContractor # None
                            THEN push.newContractor ELSE @,
             !.contract[push.contract] = IF ~push.hasContract /\ push.newContract # None
                                         THEN push.newContract ELSE @]
    /\ push' = NoPush
    /\ UNCHANGED <<lock, approval, accounting, slips>>

-----------------------------------------------------------------------------

Holders == {a \in Approvals : approval[a].step \notin {"idle", "evicted"}}

\* Ten minutes pass, which an approval under way may outlive.
Expire ==
    /\ lock = "held"
    /\ lock' = "stale"
    /\ IF Holders = {} THEN slips' = slips ELSE Slip
    /\ UNCHANGED <<known, approval, push, accounting>>

\* The server goes down; the row stays.
Crash ==
    /\ push # NoPush \/ \E a \in Approvals : approval[a] # Idle
    /\ approval' = [a \in Approvals |-> Idle]
    /\ push' = NoPush
    /\ Slip
    /\ UNCHANGED <<known, lock, accounting>>

Advance(a) ==
    \/ AcquireEvicted(a) \/ Begin(a) \/ CreateContractor(a) \/ StoreContractor(a)
    \/ CreateContract(a) \/ StoreContract(a) \/ Release(a)

Next ==
    \/ \E a \in Approvals : Advance(a) \/ \E c \in Contracts : Acquire(a, c)
    \/ \E c \in Contracts : PushRead(c)
    \/ PushCall \/ PushStore \/ Expire \/ Crash

Spec == Init /\ [][Next]_vars

\* Requests under way go on and time passes; somebody asks again for a contract that
\* is not approved, and it is not refused, nor do the calls fail, every time.
StaffRetry ==
    /\ WF_vars(Expire) /\ WF_vars(PushCall \/ PushStore)
    /\ \A a \in Approvals : WF_vars(Advance(a))
    /\ \A c \in Contracts : SF_vars(\E a \in Approvals : Acquire(a, c))
    /\ \A a \in Approvals :
          /\ SF_vars(Begin(a) /\ approval'[a].step # "release")
          /\ SF_vars(CreateContractor(a) /\ approval'[a].step # "release")
          /\ SF_vars(CreateContract(a) /\ approval'[a].step # "release")

FairSpec == Spec /\ StaffRetry

-----------------------------------------------------------------------------

\* Approvals of a resident's contracts side by side create one counterparty and one
\* contract each; another one only for an answer that was lost or not stored, for an
\* approval older than ten minutes, or for a payment pushed before the approval.
CreatedOnce ==
    /\ accounting.contractors <= 1 + slips
    /\ \A c \in Contracts : accounting.copies[c] <= 1 + slips

\* A contract is stored under the counterparty its resident is known by, as long as
\* nothing of that has happened.
UidsBelongTogether ==
    slips = 0 => \A c \in Contracts : known.contract[c] \in {None, known.contractor}

\* The lock row of an approval that died keeps the resident out for a time, not for
\* ever: with staff who ask again every contract is approved one day.
EveryContractApproved ==
    \A c \in Contracts : <>(known.contractor # None /\ known.contract[c] # None)
=============================================================================
