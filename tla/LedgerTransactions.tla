------------------------- MODULE LedgerTransactions -------------------------
(***************************************************************************)
(* The database transactions ContractLedger takes in one step, statement   *)
(* by statement, for one contract row.  The backend opens them at two      *)
(* isolation levels:                                                       *)
(*   READ COMMITTED   createPayment, reversePayment and terminate: a       *)
(*                    statement sees what is committed when it starts and  *)
(*                    waits for rows others have written;                  *)
(*   SERIALIZABLE     createRefund and the reconciliation: one snapshot,   *)
(*                    and an update of a row changed since is an error.    *)
(* What a reconciliation computes is abstracted to the events (payments    *)
(* and refunds) it replays: accounted is the set of events the committed   *)
(* credit balance and allocations account for.  Whether the replay of the  *)
(* history in force is refused, because its refunds overdraw the credit or *)
(* because it would move the allocation of a payment accounting has, is    *)
(* left open at every change of the history and of what accounting has.    *)
(***************************************************************************)
EXTENDS Naturals

CONSTANTS
    Payments,      \* payments dated up to today; each is entered by one request
    Refunds,       \* refunds; each is made by one request
    Reversals,     \* requests to reverse a payment
    Recalcs,       \* requests to recalculate the penalty
    Terminations,  \* requests to terminate the contract
    Nightly,       \* the nightly reconciliation
    None

Requests == Payments \cup Refunds \cup Reversals \cup Recalcs \cup Terminations
Processes == Requests \cup {Nightly}
Events == Payments \cup Refunds

ASSUME ProcessAssumption ==
    /\ Nightly \notin Requests
    /\ None \notin Processes
    /\ Payments \cap (Refunds \cup Reversals \cup Recalcs \cup Terminations) = {}
    /\ Refunds \cap (Reversals \cup Recalcs \cup Terminations) = {}
    /\ Reversals \cap (Recalcs \cup Terminations) = {}
    /\ Recalcs \cap Terminations = {}

VARIABLES
    state,       \* committed state of each event
    rows,        \* version that wrote the payment's allocation rows, 0 for none
    accounted,   \* events the committed credit and allocations account for
    pending,     \* contracts.penaltyRecalcPending
    refused,     \* a replay of the committed history throws
    terminated,  \* contracts.status = TERMINATED
    version,     \* updates of the contract row committed so far
    lock,        \* the transaction that holds the contract row
    tx           \* where each process is in its transaction

vars == <<state, rows, accounted, pending, refused, terminated, version, lock, tx>>

Steps == {"idle", "checked", "read", "locked", "deleting", "deleted",
          "written", "unchanged", "done"}

TxType == [at : Steps, target : Payments \cup {None}, seen : SUBSET Events, version : Nat]

TypeOK ==
    /\ state \in [Events -> {"absent", "active", "reversed"}]
    /\ rows \in [Payments -> Nat]
    /\ accounted \in SUBSET Events
    /\ pending \in BOOLEAN
    /\ refused \in BOOLEAN
    /\ terminated \in BOOLEAN
    /\ version \in Nat
    /\ lock \in Terminations \cup {None}
    /\ tx \in [Processes -> TxType]

ActiveEvents == {e \in Events : state[e] = "active"}

NotStarted == [at |-> "idle", target |-> None, seen |-> {}, version |-> 0]

Init ==
    /\ state = [e \in Events |-> "absent"]
    /\ rows = [p \in Payments |-> 0]
    /\ accounted = {}
    /\ pending = FALSE
    /\ refused = FALSE
    /\ terminated = FALSE
    /\ version = 0
    /\ lock = None
    /\ tx = [q \in Processes |-> NotStarted]

-----------------------------------------------------------------------------

Goto(q, step) == tx' = [tx EXCEPT ![q] = [@ EXCEPT !.at = step]]

\* Mutant: the nightly job does not come back after a night.
FinishForGood(q) == tx' = [tx EXCEPT ![q] = [NotStarted EXCEPT !.at = "done"]]

\* The nightly job goes on to the next night, a request is answered once.
Finish(q) ==
    tx' = [tx EXCEPT ![q] = [NotStarted EXCEPT !.at = IF q = Nightly THEN "idle" ELSE "done"]]

\* A transaction that holds allocation rows of payment p: a reconciliation that
\* has deleted them, or a reversal that has.
HoldsRows(q, p) ==
    \/ tx[q].at = "written"
    \/ /\ q \in Reversals /\ tx[q].at = "deleted" /\ tx[q].target = p
       /\ rows[p] # 0 /\ rows[p] = tx[q].version

RowsFree(q, p) == \A other \in Processes \ {q} : ~HoldsRows(other, p)

\* createPayment reads the credit balance and the allocations ...
PayRead(p) ==
    /\ tx[p].at = "idle"
    /\ tx' = [tx EXCEPT ![p] = [@ EXCEPT !.at = "read", !.seen = accounted]]
    /\ UNCHANGED <<state, rows, accounted, pending, refused, terminated, version, lock>>

\* ... and writes an absolute credit balance computed from what it read, and
\* the flag, once it has the contract row.
PayCommit(p) ==
    /\ tx[p].at = "read" /\ lock = None
    /\ state' = [state EXCEPT ![p] = "active"]
    /\ rows' = [rows EXCEPT ![p] = version + 1]
    /\ accounted' = tx[p].seen \cup {p}
    /\ pending' = TRUE
    /\ refused' \in BOOLEAN
    /\ version' = version + 1
    /\ Finish(p)
    /\ UNCHANGED <<terminated, lock>>

RefundRead(r) ==
    /\ tx[r].at = "idle"
    /\ tx' = [tx EXCEPT ![r] = [@ EXCEPT !.at = "read", !.version = version]]
    /\ UNCHANGED <<state, rows, accounted, pending, refused, terminated, version, lock>>

\* The credit balance is decremented, if the row is the one of the snapshot.
RefundCommit(r) ==
    /\ tx[r].at = "read" /\ lock = None
    /\ tx[r].version = version
    /\ state' = [state EXCEPT ![r] = "active"]
    /\ accounted' = accounted \cup {r}
    /\ refused' \in BOOLEAN
    /\ version' = version + 1
    /\ Finish(r)
    /\ UNCHANGED <<rows, pending, terminated, lock>>

\* Mutant: a refund is reversed like a payment.
ReverseCheckAnyEvent(v) ==
    /\ tx[v].at = "idle"
    /\ \E e \in ActiveEvents :
          tx' = [tx EXCEPT ![v] = [@ EXCEPT !.at = "checked", !.target = e]]
    /\ UNCHANGED <<state, rows, accounted, pending, refused, terminated, version, lock>>

\* reversePayment looks at the payment before its transaction.
ReverseCheck(v) ==
    /\ tx[v].at = "idle"
    /\ \E p \in Payments :
          /\ state[p] = "active"
          /\ tx' = [tx EXCEPT ![v] = [@ EXCEPT !.at = "checked", !.target = p]]
    /\ UNCHANGED <<state, rows, accounted, pending, refused, terminated, version, lock>>

\* The DELETE of the allocations sees the rows committed when it starts.  If a
\* reconciliation holds them it waits ...
ReverseDelete(v) ==
    /\ tx[v].at = "checked"
    /\ LET p == tx[v].target
       IN  tx' = [tx EXCEPT ![v] = [@ EXCEPT !.at = IF RowsFree(v, p) THEN "deleted" ELSE "deleting",
                            !.version = rows[p]]]
    /\ UNCHANGED <<state, rows, accounted, pending, refused, terminated, version, lock>>

\* ... and then skips the rows that are gone, without seeing those that replaced
\* them.
ReverseDeleted(v) ==
    /\ tx[v].at = "deleting"
    /\ RowsFree(v, tx[v].target)
    /\ Goto(v, "deleted")
    /\ UNCHANGED <<state, rows, accounted, pending, refused, terminated, version, lock>>

ReverseCommit(v) ==
    /\ tx[v].at = "deleted" /\ lock = None
    /\ LET p == tx[v].target
       IN  /\ state' = [state EXCEPT ![p] = "reversed"]
           /\ rows' = [rows EXCEPT ![p] = IF @ = tx[v].version THEN 0 ELSE @]
    /\ pending' = TRUE
    /\ refused' \in BOOLEAN
    /\ version' = version + 1
    /\ Finish(v)
    /\ UNCHANGED <<accounted, terminated, lock>>

\* A push marks a payment as sent: what would change its allocation is refused from
\* now on.  With nothing pending a replay changes nothing.
PaymentSent ==
    /\ pending /\ \E p \in Payments : state[p] = "active"
    /\ refused' = TRUE
    /\ UNCHANGED <<state, rows, accounted, pending, terminated, version, lock, tx>>

Begins(q) == tx[q].at = "idle" /\ (q = Nightly => pending)

\* The reconciliation takes its snapshot: the nightly one of a flagged contract,
\* the other at a request.
RecalcRead(q) ==
    /\ Begins(q) /\ ~refused
    /\ tx' = [tx EXCEPT ![q] = [@ EXCEPT !.at = "read", !.seen = ActiveEvents, !.version = version]]
    /\ UNCHANGED <<state, rows, accounted, pending, refused, terminated, version, lock>>

\* The replay of the snapshot throws before anything is written.  The nightly job goes on
\* with the next contract, and the flag stays.
RecalcRefused(q) ==
    /\ Begins(q) /\ refused
    /\ Finish(q)
    /\ UNCHANGED <<state, rows, accounted, pending, refused, terminated, version, lock>>

\* It rewrites the allocation rows if the replay changes them: always when the events are
\* not those accounted for, and maybe when they are, since their order by date may differ.
RecalcWrite(q) ==
    /\ tx[q].at = "read" /\ tx[q].version = version
    /\ \/ accounted = tx[q].seen /\ Goto(q, "unchanged")
       \/ /\ \A p \in tx[q].seen \cap Payments : RowsFree(q, p)
          /\ Goto(q, "written")
    /\ UNCHANGED <<state, rows, accounted, pending, refused, terminated, version, lock>>

\* The allocation rows a reconciliation leaves.
RowsAfter(q) ==
    [p \in Payments |-> IF tx[q].at = "written" /\ p \in tx[q].seen THEN version + 1 ELSE rows[p]]

\* Mutant: the flag is cleared whatever has been flagged since the snapshot.
RecalcCommitUnchecked(q) ==
    /\ tx[q].at \in {"written", "unchanged"} /\ lock = None
    /\ rows' = RowsAfter(q)
    /\ accounted' = tx[q].seen
    /\ pending' = FALSE
    /\ refused' = FALSE
    /\ version' = version + 1
    /\ Finish(q)
    /\ UNCHANGED <<state, terminated, lock>>

RecalcCommit(q) ==
    /\ tx[q].at \in {"written", "unchanged"} /\ lock = None
    /\ tx[q].version = version
    /\ rows' = RowsAfter(q)
    /\ accounted' = tx[q].seen
    /\ pending' = FALSE
    /\ refused' = FALSE
    /\ version' = version + 1
    /\ Finish(q)
    /\ UNCHANGED <<state, terminated, lock>>

\* Mutant: a snapshot that is behind is never given up.
SerializationFailureAtWrite(q) ==
    /\ tx[q].at = "written" /\ lock = None
    /\ tx[q].version # version
    /\ Finish(q)
    /\ UNCHANGED <<state, rows, accounted, pending, refused, terminated, version, lock>>

\* A serializable transaction whose contract row was updated since its snapshot
\* fails, and so does one that meets allocation rows rewritten since.
SerializationFailure(q) ==
    /\ \/ tx[q].at = "read"
       \/ tx[q].at \in {"written", "unchanged"} /\ lock = None
    /\ tx[q].version # version
    /\ Finish(q)
    /\ UNCHANGED <<state, rows, accounted, pending, refused, terminated, version, lock>>

\* terminate updates the status first, and so holds the contract row.
TerminateLock(t) ==
    /\ tx[t].at = "idle" /\ lock = None
    /\ ~terminated
    /\ lock' = t
    /\ Goto(t, "locked")
    /\ UNCHANGED <<state, rows, accounted, pending, refused, terminated, version>>

TerminateWrite(t) ==
    /\ tx[t].at = "locked"
    /\ \/ /\ accounted = ActiveEvents
          /\ tx' = [tx EXCEPT ![t] = [@ EXCEPT !.at = "unchanged", !.seen = ActiveEvents]]
       \/ /\ \A p \in ActiveEvents \cap Payments : RowsFree(t, p)
          /\ tx' = [tx EXCEPT ![t] = [@ EXCEPT !.at = "written", !.seen = ActiveEvents]]
    /\ UNCHANGED <<state, rows, accounted, pending, refused, terminated, version, lock>>

TerminateCommit(t) ==
    /\ tx[t].at \in {"written", "unchanged"}
    /\ terminated' = TRUE
    /\ rows' = RowsAfter(t)
    /\ accounted' = tx[t].seen
    /\ pending' = FALSE
    /\ refused' = FALSE
    /\ version' = version + 1
    /\ lock' = None
    /\ Finish(t)
    /\ UNCHANGED state

\* A request fails or times out, or the replay of a termination is refused: its
\* transaction rolls back.
Rollback(q) ==
    /\ tx[q].at \notin {"idle", "done"}
    /\ lock' = IF lock = q THEN None ELSE lock
    /\ Finish(q)
    /\ UNCHANGED <<state, rows, accounted, pending, refused, terminated, version>>

\* A termination waits for allocation rows of a transaction that waits for the
\* contract row: the database rolls one of the two back.
DeadlockVictim(q) ==
    /\ \E t \in Terminations, other \in Reversals \cup Recalcs \cup {Nightly} :
          /\ q \in {t, other}
          /\ lock = t /\ tx[t].at = "locked"
          /\ \E p \in ActiveEvents \cap Payments : HoldsRows(other, p)
    /\ Rollback(q)

PayNext(p) == PayRead(p) \/ PayCommit(p)
RefundNext(r) == RefundRead(r) \/ RefundCommit(r) \/ SerializationFailure(r)
ReverseNext(v) == ReverseCheck(v) \/ ReverseDelete(v) \/ ReverseDeleted(v) \/ ReverseCommit(v)
RecalcNext(q) ==
    \/ RecalcRead(q) \/ RecalcRefused(q) \/ RecalcWrite(q) \/ RecalcCommit(q)
    \/ SerializationFailure(q)
TerminateNext(t) == TerminateLock(t) \/ TerminateWrite(t) \/ TerminateCommit(t)

Next ==
    \/ \E p \in Payments : PayNext(p)
    \/ PaymentSent
    \/ \E r \in Refunds : RefundNext(r)
    \/ \E v \in Reversals : ReverseNext(v)
    \/ \E q \in Recalcs \cup {Nightly} : RecalcNext(q)
    \/ \E t \in Terminations : TerminateNext(t)
    \/ \E q \in Requests : Rollback(q)
    \/ \E q \in Processes : DeadlockVictim(q)

Spec == Init /\ [][Next]_vars

\* A request that has begun runs to its end, the database breaks deadlocks and
\* grants the lock to the one that waited (hence SF for the termination), and the
\* nightly job comes every night.  Nobody has to send a request.
Fairness ==
    /\ \A p \in Payments : WF_vars(PayCommit(p))
    /\ \A r \in Refunds : WF_vars(RefundCommit(r) \/ SerializationFailure(r))
    /\ \A v \in Reversals : WF_vars(ReverseDelete(v) \/ ReverseDeleted(v) \/ ReverseCommit(v))
    /\ \A q \in Recalcs : WF_vars(RecalcWrite(q) \/ RecalcCommit(q) \/ SerializationFailure(q))
    /\ WF_vars(RecalcNext(Nightly))
    /\ \A t \in Terminations : SF_vars(TerminateWrite(t) \/ TerminateCommit(t))
    /\ WF_vars(\E q \in Processes : DeadlockVictim(q))

LiveSpec == Spec /\ Fairness

-----------------------------------------------------------------------------
(* Properties *)

\* When no reconciliation is pending the balances account for exactly the
\* payments and refunds in force, however the transactions interleaved: the
\* flag is set by the transaction that changes the history and cleared only by
\* one that saw it.
SettledUnlessPending == ~pending => accounted = ActiveEvents

\* A reversed payment keeps no allocation rows.
NoOrphanRows == \A p \in Payments : state[p] = "reversed" => rows[p] = 0

\* A pending reconciliation is eventually done, whatever requests compete with the
\* nightly job for the contract row, unless its replay is refused: such a contract stays
\* pending, night after night, until its history is another.
PendingIsReconciled == pending ~> ~pending \/ refused

\* A request that holds or waits for a lock is eventually answered.
EveryRequestEnds ==
    \A q \in Requests : tx[q].at \notin {"idle", "done"} ~> tx[q].at = "done"

=============================================================================
