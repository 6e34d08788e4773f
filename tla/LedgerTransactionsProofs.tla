---------------------- MODULE LedgerTransactionsProofs ----------------------
(***************************************************************************)
(* SettledUnlessPending for any number of payments, refunds, reversals,    *)
(* recalculations and terminations.                                        *)
(*                                                                         *)
(* The invariant is not inductive alone: a reconciliation clears the flag  *)
(* with what it has read.  The strengthening says why that is still true:  *)
(* a snapshot whose version is current is the present history, and a       *)
(* termination keeps the history still by holding the contract row.        *)
(***************************************************************************)
EXTENDS LedgerTransactions, TLAPS

Reconcilers == Recalcs \cup {Nightly}

\* A reversal past its check knows the payment it reverses.
TargetKnown(v) == tx[v].at \in {"checked", "deleting", "deleted"} => tx[v].target \in Payments

\* A snapshot taken at the current version shows the present history.
SnapshotCurrent(q) ==
    tx[q].at \in {"read", "written", "unchanged"} =>
        /\ tx[q].version <= version
        /\ tx[q].version = version => tx[q].seen = ActiveEvents

\* A termination holds the contract row from its first update, and so replays
\* the present history.
RowLocked(t) ==
    /\ tx[t].at \in {"locked", "written", "unchanged"} => lock = t
    /\ tx[t].at \in {"written", "unchanged"} => tx[t].seen = ActiveEvents

Consistent(q) ==
    /\ q \in Reversals => TargetKnown(q)
    /\ q \in Reconcilers => SnapshotCurrent(q)
    /\ q \in Terminations => RowLocked(q)

IInv ==
    /\ TypeOK
    /\ SettledUnlessPending
    /\ \A q \in Processes : Consistent(q)

\* The initial state satisfies the invariant.
LEMMA InitInvariant == Init => IInv
<1> SUFFICES ASSUME Init PROVE IInv
  OBVIOUS
<1>1. NotStarted \in TxType
  BY DEF NotStarted, TxType, Steps
<1>2. TypeOK
  BY <1>1 DEF Init, TypeOK
<1>3. \A q \in Processes : tx[q].at = "idle"
  BY DEF Init, NotStarted
<1>4. SettledUnlessPending
  BY DEF Init, SettledUnlessPending, ActiveEvents
<1>5. \A q \in Processes : Consistent(q)
  BY <1>3 DEF Consistent, TargetKnown, SnapshotCurrent, RowLocked
<1> QED
  BY <1>2, <1>4, <1>5 DEF IInv

\* A step of process q that leaves its record in TxType keeps the type of tx.
LEMMA MoveKeepsType ==
  ASSUME TypeOK, NEW q \in Processes, NEW r \in TxType, tx' = [tx EXCEPT ![q] = r]
  PROVE  tx' \in [Processes -> TxType]
  BY DEF TypeOK

\* The two moves every action ends in keep the type of tx.
LEMMA GotoKeepsType ==
  ASSUME TypeOK, NEW q \in Processes, NEW step \in Steps, Goto(q, step)
  PROVE  tx' \in [Processes -> TxType]
<1>1. [tx[q] EXCEPT !.at = step] \in TxType
  BY DEF TypeOK, TxType
<1> QED
  BY <1>1, MoveKeepsType DEF Goto

LEMMA FinishKeepsType ==
  ASSUME TypeOK, NEW q \in Processes, Finish(q)
  PROVE  tx' \in [Processes -> TxType]
<1>1. [NotStarted EXCEPT !.at = IF q = Nightly THEN "idle" ELSE "done"] \in TxType
  BY DEF NotStarted, TxType, Steps
<1> QED
  BY <1>1, MoveKeepsType DEF Finish

\* Every step keeps the variables in their types.
LEMMA TypeStep ==
  ASSUME TypeOK, \A v \in Reversals : TargetKnown(v), [Next]_vars
  PROVE  TypeOK'
<1>a. \A q \in Payments \cup Refunds \cup Reversals \cup Recalcs \cup Terminations \cup {Nightly} :
        q \in Processes /\ tx[q] \in TxType
  BY DEF Processes, Requests, TypeOK
<1>b. ActiveEvents \in SUBSET Events
  BY DEF ActiveEvents
<1>c. Payments \subseteq Events /\ Refunds \subseteq Events
  BY DEF Events
<1>1. ASSUME NEW p \in Payments, PayRead(p) PROVE TypeOK'
  <2>1. [tx[p] EXCEPT !.at = "read", !.seen = accounted] \in TxType
    BY <1>a DEF TxType, Steps, TypeOK
  <2>2. tx' \in [Processes -> TxType]
    BY <1>1, <1>a, <2>1, MoveKeepsType DEF PayRead
  <2> QED
    BY <1>1, <2>2 DEF PayRead, TypeOK
<1>2. ASSUME NEW p \in Payments, PayCommit(p) PROVE TypeOK'
  <2>1. tx' \in [Processes -> TxType]
    BY <1>2, <1>a, FinishKeepsType DEF PayCommit
  <2>2. accounted' \in SUBSET Events
    BY <1>2, <1>a, <1>c DEF PayCommit, TxType
  <2> QED
    BY <1>2, <1>c, <2>1, <2>2 DEF PayCommit, TypeOK
<1>3. ASSUME NEW r \in Refunds, RefundRead(r) PROVE TypeOK'
  <2>1. [tx[r] EXCEPT !.at = "read", !.version = version] \in TxType
    BY <1>a DEF TxType, Steps, TypeOK
  <2>2. tx' \in [Processes -> TxType]
    BY <1>3, <1>a, <2>1, MoveKeepsType DEF RefundRead
  <2> QED
    BY <1>3, <2>2 DEF RefundRead, TypeOK
<1>4. ASSUME NEW r \in Refunds, RefundCommit(r) PROVE TypeOK'
  <2>1. tx' \in [Processes -> TxType]
    BY <1>4, <1>a, FinishKeepsType DEF RefundCommit
  <2> QED
    BY <1>4, <1>c, <2>1 DEF RefundCommit, TypeOK
<1>5. ASSUME NEW v \in Reversals, ReverseCheck(v) PROVE TypeOK'
  <2>1. PICK p \in Payments :
          tx' = [tx EXCEPT ![v] = [@ EXCEPT !.at = "checked", !.target = p]]
    BY <1>5 DEF ReverseCheck
  <2>2. [tx[v] EXCEPT !.at = "checked", !.target = p] \in TxType
    BY <1>a DEF TxType, Steps
  <2>3. tx' \in [Processes -> TxType]
    BY <1>a, <2>1, <2>2, MoveKeepsType
  <2> QED
    BY <1>5, <2>3 DEF ReverseCheck, TypeOK
<1>6. ASSUME NEW v \in Reversals, ReverseDelete(v) PROVE TypeOK'
  <2> DEFINE p == tx[v].target
             r == [tx[v] EXCEPT !.at = IF RowsFree(v, p) THEN "deleted" ELSE "deleting",
                                !.version = rows[p]]
  <2>1. rows[p] \in Nat
    BY <1>6 DEF ReverseDelete, TypeOK, TargetKnown
  <2>2. r \in TxType
    BY <1>a, <2>1 DEF TxType, Steps
  <2>3. tx' \in [Processes -> TxType]
    BY <1>6, <1>a, <2>2, MoveKeepsType DEF ReverseDelete
  <2> QED
    BY <1>6, <2>3 DEF ReverseDelete, TypeOK
<1>7. ASSUME NEW v \in Reversals, ReverseDeleted(v) PROVE TypeOK'
  <2>1. tx' \in [Processes -> TxType]
    BY <1>7, <1>a, GotoKeepsType DEF ReverseDeleted, Steps
  <2> QED
    BY <1>7, <2>1 DEF ReverseDeleted, TypeOK
<1>8. ASSUME NEW v \in Reversals, ReverseCommit(v) PROVE TypeOK'
  <2>1. tx' \in [Processes -> TxType]
    BY <1>8, <1>a, FinishKeepsType DEF ReverseCommit
  <2>2. state' \in [Events -> {"absent", "active", "reversed"}]
    BY <1>8 DEF ReverseCommit, TypeOK
  <2>3. rows' \in [Payments -> Nat]
    BY <1>8 DEF ReverseCommit, TypeOK
  <2> QED
    BY <1>8, <2>1, <2>2, <2>3 DEF ReverseCommit, TypeOK
<1>9. ASSUME NEW q \in Reconcilers, RecalcRead(q) PROVE TypeOK'
  <2>1. [tx[q] EXCEPT !.at = "read", !.seen = ActiveEvents, !.version = version] \in TxType
    BY <1>a, <1>b DEF TxType, Steps, TypeOK, Reconcilers
  <2>2. tx' \in [Processes -> TxType]
    BY <1>9, <1>a, <2>1, MoveKeepsType DEF RecalcRead, Reconcilers
  <2> QED
    BY <1>9, <2>2 DEF RecalcRead, TypeOK
<1>10. ASSUME NEW q \in Reconcilers, RecalcWrite(q) PROVE TypeOK'
  <2>1. tx' \in [Processes -> TxType]
    BY <1>10, <1>a, GotoKeepsType DEF RecalcWrite, Steps, Reconcilers
  <2> QED
    BY <1>10, <2>1 DEF RecalcWrite, TypeOK
<1>11. \A q : RowsAfter(q) \in [Payments -> Nat]
  BY DEF RowsAfter, TypeOK
<1>12. ASSUME NEW q \in Reconcilers, RecalcCommit(q) PROVE TypeOK'
  <2>1. tx' \in [Processes -> TxType]
    BY <1>12, <1>a, FinishKeepsType DEF RecalcCommit, Reconcilers
  <2>2. accounted' \in SUBSET Events
    BY <1>12, <1>a DEF RecalcCommit, TxType, Reconcilers
  <2>3. rows' \in [Payments -> Nat]
    BY <1>12, <1>11 DEF RecalcCommit
  <2>4. state' \in [Events -> {"absent", "active", "reversed"}] /\ version' \in Nat
    BY <1>12 DEF RecalcCommit, TypeOK
  <2>6. pending' \in BOOLEAN /\ refused' \in BOOLEAN
    BY <1>12, Zenon DEF RecalcCommit
  <2>5. terminated' \in BOOLEAN /\ lock' \in Terminations \cup {None}
    BY <1>12 DEF RecalcCommit, TypeOK
  <2> QED
    BY <2>1, <2>2, <2>3, <2>4, <2>5, <2>6, Zenon DEF TypeOK
<1>13. ASSUME NEW q \in Processes, SerializationFailure(q) PROVE TypeOK'
  <2>1. tx' \in [Processes -> TxType]
    BY <1>13, FinishKeepsType DEF SerializationFailure
  <2> QED
    BY <1>13, <2>1 DEF SerializationFailure, TypeOK
<1>14. ASSUME NEW t \in Terminations, TerminateLock(t) PROVE TypeOK'
  <2>1. tx' \in [Processes -> TxType]
    BY <1>14, <1>a, GotoKeepsType DEF TerminateLock, Steps
  <2> QED
    BY <1>14, <2>1 DEF TerminateLock, TypeOK
<1>15. ASSUME NEW t \in Terminations, TerminateWrite(t) PROVE TypeOK'
  <2>1. /\ [tx[t] EXCEPT !.at = "unchanged", !.seen = ActiveEvents] \in TxType
        /\ [tx[t] EXCEPT !.at = "written", !.seen = ActiveEvents] \in TxType
    BY <1>a, <1>b DEF TxType, Steps
  <2>2. tx' \in [Processes -> TxType]
    BY <1>15, <1>a, <2>1, MoveKeepsType DEF TerminateWrite
  <2> QED
    BY <1>15, <2>2 DEF TerminateWrite, TypeOK
<1>16. ASSUME NEW t \in Terminations, TerminateCommit(t) PROVE TypeOK'
  <2>1. tx' \in [Processes -> TxType]
    BY <1>16, <1>a, FinishKeepsType DEF TerminateCommit
  <2>2. accounted' \in SUBSET Events
    BY <1>16, <1>a DEF TerminateCommit, TxType
  <2>3. rows' \in [Payments -> Nat]
    BY <1>16, <1>11 DEF TerminateCommit
  <2>4. state' \in [Events -> {"absent", "active", "reversed"}] /\ version' \in Nat
    BY <1>16 DEF TerminateCommit, TypeOK
  <2>6. pending' \in BOOLEAN /\ refused' \in BOOLEAN
    BY <1>16, Zenon DEF TerminateCommit
  <2>5. terminated' \in BOOLEAN /\ lock' \in Terminations \cup {None}
    BY <1>16 DEF TerminateCommit, TypeOK
  <2> QED
    BY <2>1, <2>2, <2>3, <2>4, <2>5, <2>6, Zenon DEF TypeOK
<1>17. ASSUME NEW q \in Processes, Rollback(q) PROVE TypeOK'
  <2>1. tx' \in [Processes -> TxType]
    BY <1>17, FinishKeepsType DEF Rollback
  <2> QED
    BY <1>17, <2>1 DEF Rollback, TypeOK
<1>18. CASE UNCHANGED vars
  BY <1>18 DEF vars, TypeOK
<1>19. ASSUME PaymentSent PROVE TypeOK'
  BY <1>19 DEF PaymentSent, TypeOK
<1>20. ASSUME NEW q \in Reconcilers, RecalcRefused(q) PROVE TypeOK'
  <2>1. tx' \in [Processes -> TxType]
    BY <1>20, <1>a, FinishKeepsType DEF RecalcRefused, Reconcilers
  <2> QED
    BY <1>20, <2>1 DEF RecalcRefused, TypeOK
<1> QED
  BY <1>1, <1>2, <1>3, <1>4, <1>5, <1>6, <1>7, <1>8, <1>9, <1>10, <1>12, <1>13,
     <1>14, <1>15, <1>16, <1>17, <1>18, <1>19, <1>20, <1>a
     DEF Next, PayNext, RefundNext, ReverseNext, RecalcNext, TerminateNext, DeadlockVictim,
         Reconcilers, Processes

-----------------------------------------------------------------------------

\* A step of q that leaves the contract row alone keeps every process consistent
\* if it keeps q so.
LEMMA QuietFrame ==
  ASSUME IInv, NEW q \in Processes,
         \A other \in Processes \ {q} : tx'[other] = tx[other],
         UNCHANGED <<state, version, lock>>,
         Consistent(q)'
  PROVE  \A other \in Processes : Consistent(other)'
<1>1. ActiveEvents' = ActiveEvents
  BY DEF ActiveEvents
<1> SUFFICES ASSUME NEW other \in Processes \ {q} PROVE Consistent(other)'
  OBVIOUS
<1>2. Consistent(other)
  BY DEF IInv
<1> QED
  BY <1>1, <1>2 DEF Consistent, TargetKnown, SnapshotCurrent, RowLocked

\* So does a step of q when no other transaction holds the contract row, if it
\* changes the history only together with the version.
LEMMA CommitFrame ==
  ASSUME IInv, NEW q \in Processes,
         \A other \in Processes \ {q} : tx'[other] = tx[other],
         lock \in {None, q},
         version' = version + 1 \/ UNCHANGED <<state, version>>,
         Consistent(q)'
  PROVE  \A other \in Processes : Consistent(other)'
<1> SUFFICES ASSUME NEW other \in Processes \ {q} PROVE Consistent(other)'
  OBVIOUS
<1>1. Consistent(other) /\ tx'[other] = tx[other]
  BY DEF IInv
<1>2. other \in Reversals => TargetKnown(other)'
  BY <1>1 DEF Consistent, TargetKnown
<1>3. ASSUME other \in Reconcilers PROVE SnapshotCurrent(other)'
  <2>1. SnapshotCurrent(other) /\ version \in Nat /\ tx[other].version \in Nat
    BY <1>1, <1>3 DEF Consistent, IInv, TypeOK, TxType
  <2>2. CASE version' = version + 1
    BY <1>1, <2>1, <2>2 DEF SnapshotCurrent
  <2>3. CASE UNCHANGED <<state, version>>
    BY <1>1, <2>1, <2>3 DEF SnapshotCurrent, ActiveEvents
  <2> QED
    BY <2>2, <2>3
<1>4. ASSUME other \in Terminations PROVE RowLocked(other)'
  <2>1. lock # other
    BY <1>4, ProcessAssumption DEF Processes, Requests
  <2> QED
    BY <1>1, <1>4, <2>1 DEF Consistent, RowLocked
<1> QED
  BY <1>2, <1>3, <1>4 DEF Consistent

\* A finished process leaves the others as they are and is consistent.
LEMMA FinishConsistent ==
  ASSUME TypeOK, NEW q \in Processes, Finish(q)
  PROVE  /\ \A other \in Processes \ {q} : tx'[other] = tx[other]
         /\ Consistent(q)'
<1>1. /\ \A other \in Processes \ {q} : tx'[other] = tx[other]
      /\ tx'[q] = [NotStarted EXCEPT !.at = IF q = Nightly THEN "idle" ELSE "done"]
  BY DEF Finish, TypeOK
<1>2. tx'[q].at \in {"idle", "done"}
  BY <1>1 DEF NotStarted
<1> QED
  BY <1>1, <1>2 DEF Consistent, TargetKnown, SnapshotCurrent, RowLocked

\* Every process is of one kind.
LEMMA OneKind ==
  /\ \A p \in Payments : p \in Processes /\ p \notin Reversals \cup Reconcilers \cup Terminations
  /\ \A r \in Refunds : r \in Processes /\ r \notin Reversals \cup Reconcilers \cup Terminations
  /\ \A v \in Reversals : v \in Processes /\ v \notin Reconcilers \cup Terminations
  /\ \A q \in Reconcilers : q \in Processes /\ q \notin Reversals \cup Terminations
  /\ \A t \in Terminations : t \in Processes /\ t \notin Reversals \cup Reconcilers
  BY ProcessAssumption DEF Processes, Requests, Reconcilers

\* Every step keeps every process consistent.
LEMMA ConsistentStep ==
  ASSUME IInv, [Next]_vars
  PROVE  \A other \in Processes : Consistent(other)'
<1>t. TypeOK /\ \A q \in Processes : Consistent(q)
  BY DEF IInv
<1>1. ASSUME NEW p \in Payments, PayRead(p) PROVE \A other \in Processes : Consistent(other)'
  <2>1. Consistent(p)'
    BY OneKind DEF Consistent
  <2>2. \A other \in Processes \ {p} : tx'[other] = tx[other]
    BY <1>1, <1>t DEF PayRead, TypeOK
  <2> QED
    BY <1>1, <2>1, <2>2, OneKind, QuietFrame DEF PayRead
<1>2. ASSUME NEW p \in Payments, PayCommit(p) PROVE \A other \in Processes : Consistent(other)'
  BY <1>2, <1>t, OneKind, FinishConsistent, CommitFrame DEF PayCommit
<1>3. ASSUME NEW r \in Refunds, RefundRead(r) PROVE \A other \in Processes : Consistent(other)'
  <2>1. Consistent(r)'
    BY OneKind DEF Consistent
  <2>2. \A other \in Processes \ {r} : tx'[other] = tx[other]
    BY <1>3, <1>t DEF RefundRead, TypeOK
  <2> QED
    BY <1>3, <2>1, <2>2, OneKind, QuietFrame DEF RefundRead
<1>4. ASSUME NEW r \in Refunds, RefundCommit(r) PROVE \A other \in Processes : Consistent(other)'
  BY <1>4, <1>t, OneKind, FinishConsistent, CommitFrame DEF RefundCommit
<1>5. ASSUME NEW v \in Reversals, ReverseCheck(v) PROVE \A other \in Processes : Consistent(other)'
  <2>1. PICK p \in Payments :
          tx' = [tx EXCEPT ![v] = [@ EXCEPT !.at = "checked", !.target = p]]
    BY <1>5 DEF ReverseCheck
  <2>2. /\ \A other \in Processes \ {v} : tx'[other] = tx[other]
        /\ tx'[v] = [tx[v] EXCEPT !.at = "checked", !.target = p]
    BY <2>1, <1>t, OneKind DEF TypeOK
  <2>3. tx'[v].target = p
    BY <2>2, <1>t, OneKind DEF TypeOK, TxType
  <2>4. Consistent(v)'
    BY <2>3, OneKind DEF Consistent, TargetKnown
  <2> QED
    BY <1>5, <2>2, <2>4, OneKind, QuietFrame DEF ReverseCheck
<1>6. ASSUME NEW v \in Reversals, ReverseDelete(v) PROVE \A other \in Processes : Consistent(other)'
  <2>1. \A other \in Processes \ {v} : tx'[other] = tx[other]
    BY <1>6, <1>t DEF ReverseDelete, TypeOK
  <2>2. tx'[v].target = tx[v].target
    BY <1>6, <1>t, OneKind DEF ReverseDelete, TypeOK, TxType
  <2>3. tx[v].target \in Payments
    BY <1>6, <1>t, OneKind DEF ReverseDelete, Consistent, TargetKnown
  <2>4. Consistent(v)'
    BY <2>2, <2>3, OneKind DEF Consistent, TargetKnown
  <2> QED
    BY <1>6, <2>1, <2>4, OneKind, QuietFrame DEF ReverseDelete
<1>7. ASSUME NEW v \in Reversals, ReverseDeleted(v) PROVE \A other \in Processes : Consistent(other)'
  <2>1. \A other \in Processes \ {v} : tx'[other] = tx[other]
    BY <1>7, <1>t DEF ReverseDeleted, Goto, TypeOK
  <2>2. tx'[v].target = tx[v].target
    BY <1>7, <1>t, OneKind DEF ReverseDeleted, Goto, TypeOK, TxType
  <2>3. tx[v].target \in Payments
    BY <1>7, <1>t, OneKind DEF ReverseDeleted, Consistent, TargetKnown
  <2>4. Consistent(v)'
    BY <2>2, <2>3, OneKind DEF Consistent, TargetKnown
  <2> QED
    BY <1>7, <2>1, <2>4, OneKind, QuietFrame DEF ReverseDeleted
<1>8. ASSUME NEW v \in Reversals, ReverseCommit(v) PROVE \A other \in Processes : Consistent(other)'
  BY <1>8, <1>t, OneKind, FinishConsistent, CommitFrame DEF ReverseCommit
<1>9. ASSUME NEW q \in Reconcilers, RecalcRead(q) PROVE \A other \in Processes : Consistent(other)'
  <2>1. /\ \A other \in Processes \ {q} : tx'[other] = tx[other]
        /\ tx'[q] = [tx[q] EXCEPT !.at = "read", !.seen = ActiveEvents, !.version = version]
    BY <1>9, <1>t, OneKind DEF RecalcRead, TypeOK
  <2>2. tx'[q].seen = ActiveEvents /\ tx'[q].version = version
    BY <2>1, <1>t, OneKind DEF TypeOK, TxType
  <2>3. UNCHANGED <<state, version, lock>> /\ version \in Nat
    BY <1>9, <1>t DEF RecalcRead, TypeOK
  <2>4. Consistent(q)'
    BY <2>2, <2>3, OneKind DEF Consistent, SnapshotCurrent, ActiveEvents
  <2> QED
    BY <2>1, <2>3, <2>4, OneKind, QuietFrame
<1>10. ASSUME NEW q \in Reconcilers, RecalcWrite(q) PROVE \A other \in Processes : Consistent(other)'
  <2>1. PICK step \in Steps : Goto(q, step)
    BY <1>10 DEF RecalcWrite, Steps
  <2>2. /\ \A other \in Processes \ {q} : tx'[other] = tx[other]
        /\ tx'[q].seen = tx[q].seen /\ tx'[q].version = tx[q].version
    BY <2>1, <1>t, OneKind DEF Goto, TypeOK, TxType
  <2>3. UNCHANGED <<state, version, lock>>
    BY <1>10 DEF RecalcWrite
  <2>4. tx[q].version <= version /\ (tx[q].version = version => tx[q].seen = ActiveEvents)
    BY <1>10, <1>t, OneKind DEF RecalcWrite, Consistent, SnapshotCurrent
  <2>5. Consistent(q)'
    BY <2>2, <2>3, <2>4, OneKind DEF Consistent, SnapshotCurrent, ActiveEvents
  <2> QED
    BY <2>2, <2>3, <2>5, OneKind, QuietFrame
<1>11. ASSUME NEW q \in Reconcilers, RecalcCommit(q) PROVE \A other \in Processes : Consistent(other)'
  BY <1>11, <1>t, OneKind, FinishConsistent, CommitFrame DEF RecalcCommit
<1>12. ASSUME NEW q \in Processes, SerializationFailure(q)
       PROVE  \A other \in Processes : Consistent(other)'
  BY <1>12, <1>t, FinishConsistent, QuietFrame DEF SerializationFailure
<1>13. ASSUME NEW t \in Terminations, TerminateLock(t)
       PROVE  \A other \in Processes : Consistent(other)'
  <2>1. /\ \A other \in Processes \ {t} : tx'[other] = tx[other]
        /\ tx'[t].at = "locked"
    BY <1>13, <1>t, OneKind DEF TerminateLock, Goto, TypeOK, TxType
  <2>2. Consistent(t)'
    BY <1>13, <2>1, OneKind DEF TerminateLock, Consistent, RowLocked
  <2> QED
    BY <1>13, <2>1, <2>2, OneKind, CommitFrame DEF TerminateLock
<1>14. ASSUME NEW t \in Terminations, TerminateWrite(t)
       PROVE  \A other \in Processes : Consistent(other)'
  <2>1. PICK step \in Steps : tx' = [tx EXCEPT ![t] = [@ EXCEPT !.at = step, !.seen = ActiveEvents]]
    BY <1>14 DEF TerminateWrite, Steps
  <2>2. /\ \A other \in Processes \ {t} : tx'[other] = tx[other]
        /\ tx'[t].seen = ActiveEvents
    BY <2>1, <1>t, OneKind DEF TypeOK, TxType
  <2>3. UNCHANGED <<state, version, lock>>
    BY <1>14 DEF TerminateWrite
  <2>4. lock = t
    BY <1>14, <1>t, OneKind DEF TerminateWrite, Consistent, RowLocked
  <2>5. Consistent(t)'
    BY <2>2, <2>3, <2>4, OneKind DEF Consistent, RowLocked, ActiveEvents
  <2> QED
    BY <2>2, <2>3, <2>5, OneKind, QuietFrame
<1>15. ASSUME NEW t \in Terminations, TerminateCommit(t)
       PROVE  \A other \in Processes : Consistent(other)'
  <2>1. lock = t
    BY <1>15, <1>t, OneKind DEF TerminateCommit, Consistent, RowLocked
  <2> QED
    BY <1>15, <1>t, <2>1, OneKind, FinishConsistent, CommitFrame DEF TerminateCommit
<1>16. ASSUME NEW q \in Processes, Rollback(q) PROVE \A other \in Processes : Consistent(other)'
  <2>1. CASE lock = q
    BY <1>16, <1>t, <2>1, FinishConsistent, CommitFrame DEF Rollback
  <2>2. CASE lock # q
    BY <1>16, <1>t, <2>2, FinishConsistent, QuietFrame DEF Rollback
  <2> QED
    BY <2>1, <2>2
<1>17. ASSUME PaymentSent PROVE \A other \in Processes : Consistent(other)'
  BY <1>17, <1>t DEF PaymentSent, Consistent, TargetKnown, SnapshotCurrent, RowLocked,
                     ActiveEvents
<1>18. ASSUME NEW q \in Reconcilers, RecalcRefused(q)
       PROVE  \A other \in Processes : Consistent(other)'
  BY <1>18, <1>t, OneKind, FinishConsistent, QuietFrame DEF RecalcRefused
<1>19. CASE UNCHANGED vars
  BY <1>19, <1>t DEF vars, Consistent, TargetKnown, SnapshotCurrent, RowLocked, ActiveEvents
<1> QED
  BY <1>1, <1>2, <1>3, <1>4, <1>5, <1>6, <1>7, <1>8, <1>9, <1>10, <1>11, <1>12,
     <1>13, <1>14, <1>15, <1>16, <1>17, <1>18, <1>19, OneKind
     DEF Next, PayNext, RefundNext, ReverseNext, RecalcNext, TerminateNext, DeadlockVictim,
         Reconcilers, Processes

\* Every step keeps the balances settled: a payment and a reversal raise the
\* flag, a refund accounts for itself, a reconciliation clears the flag with the
\* present history.
LEMMA SettledStep ==
  ASSUME IInv, [Next]_vars
  PROVE  SettledUnlessPending'
<1>t. TypeOK /\ SettledUnlessPending /\ \A q \in Processes : Consistent(q)
  BY DEF IInv
<1>1. ASSUME UNCHANGED <<state, accounted, pending>> PROVE SettledUnlessPending'
  BY <1>1, <1>t DEF SettledUnlessPending, ActiveEvents
<1>2. ASSUME NEW p \in Payments, PayCommit(p) PROVE SettledUnlessPending'
  BY <1>2 DEF PayCommit, SettledUnlessPending
<1>3. ASSUME NEW r \in Refunds, RefundCommit(r) PROVE SettledUnlessPending'
  <2>1. ActiveEvents' = ActiveEvents \cup {r}
    BY <1>3, <1>t DEF RefundCommit, ActiveEvents, Events, TypeOK
  <2> QED
    BY <1>3, <1>t, <2>1 DEF RefundCommit, SettledUnlessPending
<1>4. ASSUME NEW v \in Reversals, ReverseCommit(v) PROVE SettledUnlessPending'
  BY <1>4 DEF ReverseCommit, SettledUnlessPending
<1>5. ASSUME NEW q \in Reconcilers, RecalcCommit(q) PROVE SettledUnlessPending'
  <2>1. tx[q].seen = ActiveEvents
    BY <1>5, <1>t, OneKind DEF RecalcCommit, Consistent, SnapshotCurrent
  <2> QED
    BY <1>5, <2>1 DEF RecalcCommit, SettledUnlessPending, ActiveEvents
<1>6. ASSUME NEW t \in Terminations, TerminateCommit(t) PROVE SettledUnlessPending'
  <2>1. tx[t].seen = ActiveEvents
    BY <1>6, <1>t, OneKind DEF TerminateCommit, Consistent, RowLocked
  <2> QED
    BY <1>6, <2>1 DEF TerminateCommit, SettledUnlessPending, ActiveEvents
<1>7. \/ UNCHANGED <<state, accounted, pending>>
      \/ \E p \in Payments : PayCommit(p)
      \/ \E r \in Refunds : RefundCommit(r)
      \/ \E v \in Reversals : ReverseCommit(v)
      \/ \E q \in Reconcilers : RecalcCommit(q)
      \/ \E t \in Terminations : TerminateCommit(t)
  BY DEF Next, vars, PayNext, RefundNext, ReverseNext, RecalcNext, TerminateNext,
         DeadlockVictim, Reconcilers, PayRead, RefundRead, ReverseCheck, ReverseDelete,
         ReverseDeleted, RecalcRead, RecalcRefused, RecalcWrite, SerializationFailure,
         TerminateLock, TerminateWrite, Rollback, PaymentSent
<1> QED
  BY <1>1, <1>2, <1>3, <1>4, <1>5, <1>6, <1>7

\* The invariant is inductive.
LEMMA StepInvariant == IInv /\ [Next]_vars => IInv'
<1> SUFFICES ASSUME IInv, [Next]_vars PROVE IInv'
  OBVIOUS
<1>1. \A v \in Reversals : TargetKnown(v)
  BY OneKind DEF IInv, Consistent
<1>2. TypeOK'
  BY <1>1, TypeStep DEF IInv
<1> QED
  BY <1>2, SettledStep, ConsistentStep DEF IInv

LEMMA Invariant == Spec => []IInv
  BY InitInvariant, StepInvariant, PTL DEF Spec

\* The transactions keep their variables in their types, for any set of requests.
THEOREM TypeCorrect == Spec => []TypeOK
<1>1. IInv => TypeOK
  BY DEF IInv
<1> QED
  BY <1>1, Invariant, PTL

\* The balances account for the payments and refunds in force whenever no
\* reconciliation is pending, for any number of requests in any interleaving.
THEOREM SettledCorrect == Spec => []SettledUnlessPending
<1>1. IInv => SettledUnlessPending
  BY DEF IInv
<1> QED
  BY <1>1, Invariant, PTL

=============================================================================
