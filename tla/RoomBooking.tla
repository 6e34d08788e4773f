---------------------------- MODULE RoomBooking ----------------------------
(***************************************************************************)
(* Who holds a bed: contracts are created, terminated and removed          *)
(* (contracts.controller.ts), the capacity of a room is changed            *)
(* (rooms.controller.ts), and a person entered by hand is merged into the  *)
(* person the registry delivers, and parted again                          *)
(* (individuals.controller.ts).  Creations and merges wait for row locks,  *)
(* so each of their waits is a step; a transaction that only writes is one *)
(* step.  A day stands for a date, the order of Residents for the order of *)
(* their uids.  Money, documents and roles of a contract are left out.     *)
(***************************************************************************)
EXTENDS Integers, FiniteSets

CONSTANTS
    Residents,   \* individuals, known by their uids
    Manual,      \* those entered by hand; the others come from the registry
    Rooms,
    Contracts,   \* identifiers of contracts, never used again
    Clerks,      \* requests that may be under way at once
    Periods,     \* the pairs <<first day, last day>> a contract may be asked for
    Capacities   \* the capacities a room may be given

ASSUME ResidentsAssumption == Residents \subseteq Nat \ {0} /\ Manual \subseteq Residents
ASSUME ContractsAssumption == IsFiniteSet(Contracts)
ASSUME PeriodsAssumption ==
    /\ Periods \subseteq Nat \X Nat
    /\ \A p \in Periods : p[1] <= p[2]
ASSUME CapacitiesAssumption == Capacities \subseteq Nat

VARIABLES
    contract,  \* contracts, each with its room assignment
    capacity,  \* the room's latest "number of places", 0 when it has none
    highest,   \* history: the highest capacity the room has had
    merged,    \* merged_into_uid, 0 for null
    moved,     \* merged_snapshot: the contracts the merge took
    clerk      \* the request each clerk has under way

vars == <<contract, capacity, highest, merged, moved, clerk>>

\* A stay lasts through its last day; "none" and "removed" rows do not exist.
NoStay(state) == [state |-> state, who |-> 0, room |-> 0, from |-> 0, through |-> 0]

Stays ==
    [state : {"live", "terminated"}, who : Residents, room : Rooms, from : Nat, through : Nat]

Idle == [at |-> "idle"]

Bookings == [at : {"book", "room", "write"}, who : Residents, room : Rooms, period : Periods]
Merges == [at : {"merge", "second", "move"}, who : Manual, into : Residents \ Manual]
Unmerges == [at : {"unmerge"}, who : Residents, ids : SUBSET Contracts]

TypeOK ==
    /\ contract \in [Contracts -> Stays \cup {NoStay("none"), NoStay("removed")}]
    /\ capacity \in [Rooms -> Nat]
    /\ highest \in [Rooms -> Nat]
    /\ merged \in [Residents -> Residents \cup {0}]
    /\ moved \in [Residents -> SUBSET Contracts]
    /\ clerk \in [Clerks -> {Idle} \cup Bookings \cup Merges \cup Unmerges]

Init ==
    /\ contract = [c \in Contracts |-> NoStay("none")]
    /\ capacity \in [Rooms -> Capacities]
    /\ highest = capacity
    /\ merged = [i \in Residents |-> 0]
    /\ moved = [i \in Residents |-> {}]
    /\ clerk = [k \in Clerks |-> Idle]

-----------------------------------------------------------------------------
(* What the transactions read *)

Exists(c) == contract[c].state \in {"live", "terminated"}

\* peakOccupancy counts a stay on its last day too.
Occupants(r, d) ==
    {c \in Contracts : /\ Exists(c)
                       /\ contract[c].room = r
                       /\ contract[c].from <= d
                       /\ d <= contract[c].through}

\* roomAvailability: at its fullest day the room has a bed left.
HasBed(r, first, last) ==
    \A d \in first .. last : Cardinality(Occupants(r, d)) < capacity[r]

\* The rows the query of conflictingRoomAssignment returns.
Fetched(i, r, first, last) ==
    {c \in Contracts : /\ Exists(c)
                       /\ contract[c].who = i
                       /\ contract[c].room # r
                       /\ contract[c].from < last
                       /\ contract[c].state = "live" \/ contract[c].through > first}

\* hasConflictingStay, for one of them.
Conflicts(c, first, last) ==
    LET stay == contract[c]
    IN  IF first = last
        THEN /\ stay.from <= first
             /\ stay.through >= first
             /\ stay.from = first \/ stay.through > first
        ELSE stay.from < last /\ stay.through > first

ConflictingRoomAssignment(i, r, first, last) ==
    \E c \in Fetched(i, r, first, last) : Conflicts(c, first, last)

-----------------------------------------------------------------------------
(* Row locks: SELECT ... FOR UPDATE, held to the end of the transaction *)

Lower(i, j) == IF i < j THEN i ELSE j
Upper(i, j) == IF i < j THEN j ELSE i

HeldResidents(k) ==
    {i \in Residents :
        \/ clerk[k].at \in {"room", "write", "move"} /\ i = clerk[k].who
        \/ clerk[k].at = "second" /\ i = Lower(clerk[k].who, clerk[k].into)
        \/ clerk[k].at = "move" /\ i = clerk[k].into}

HeldRooms(k) == {r \in Rooms : clerk[k].at = "write" /\ r = clerk[k].room}

ResidentFree(k, i) == \A other \in Clerks \ {k} : i \notin HeldResidents(other)
RoomFree(k, r) == \A other \in Clerks \ {k} : r \notin HeldRooms(other)

Goes(k, step) == clerk' = [clerk EXCEPT ![k].at = step]
Ends(k) == clerk' = [clerk EXCEPT ![k] = Idle]

\* An error, a lost connection or a crash rolls the transaction back.
Fails(k) ==
    /\ clerk[k].at # "idle"
    /\ Ends(k)
    /\ UNCHANGED <<contract, capacity, highest, merged, moved>>

-----------------------------------------------------------------------------
(* create *)

\* Bound: every creation under way has an identifier left.
Spare ==
    Cardinality({k \in Clerks : clerk[k].at \in {"book", "room", "write"}})
        < Cardinality({c \in Contracts : contract[c].state = "none"})

\* The checks before the transaction.
AskBooking(k) ==
    /\ clerk[k].at = "idle" /\ Spare
    /\ \E i \in Residents, r \in Rooms, p \in Periods :
           /\ merged[i] = 0
           /\ clerk' = [clerk EXCEPT ![k] =
                            [at |-> "book", who |-> i, room |-> r, period |-> p]]
    /\ UNCHANGED <<contract, capacity, highest, merged, moved>>

\* Mutant: the stays are read without a lock on the resident.
LockResidentUnlocked(k) ==
    /\ clerk[k].at = "book"
    /\ LET b == clerk[k]
       IN  IF \/ merged[b.who] # 0
              \/ ConflictingRoomAssignment(b.who, b.room, b.period[1], b.period[2])
           THEN Ends(k)
           ELSE Goes(k, "room")
    /\ UNCHANGED <<contract, capacity, highest, merged, moved>>

\* Mutant: the merge is not looked up again under the lock.
LockResidentTrusting(k) ==
    /\ clerk[k].at = "book"
    /\ ResidentFree(k, clerk[k].who)
    /\ LET b == clerk[k]
       IN  IF ConflictingRoomAssignment(b.who, b.room, b.period[1], b.period[2])
           THEN Ends(k)
           ELSE Goes(k, "room")
    /\ UNCHANGED <<contract, capacity, highest, merged, moved>>

\* The resident's row is locked; merged or double stay: refused.
LockResident(k) ==
    /\ clerk[k].at = "book"
    /\ ResidentFree(k, clerk[k].who)
    /\ LET b == clerk[k]
       IN  IF \/ merged[b.who] # 0
              \/ ConflictingRoomAssignment(b.who, b.room, b.period[1], b.period[2])
           THEN Ends(k)
           ELSE Goes(k, "room")
    /\ UNCHANGED <<contract, capacity, highest, merged, moved>>

\* Mutant: the beds are counted without a lock on the room.
LockRoomUnlocked(k) ==
    /\ clerk[k].at = "room"
    /\ IF HasBed(clerk[k].room, clerk[k].period[1], clerk[k].period[2])
       THEN Goes(k, "write")
       ELSE Ends(k)
    /\ UNCHANGED <<contract, capacity, highest, merged, moved>>

\* The room's row is locked; no bed: refused.
LockRoom(k) ==
    /\ clerk[k].at = "room"
    /\ RoomFree(k, clerk[k].room)
    /\ IF HasBed(clerk[k].room, clerk[k].period[1], clerk[k].period[2])
       THEN Goes(k, "write")
       ELSE Ends(k)
    /\ UNCHANGED <<contract, capacity, highest, merged, moved>>

CommitBooking(k) ==
    /\ clerk[k].at = "write"
    /\ \E c \in Contracts :
           /\ contract[c].state = "none"
           /\ contract' = [contract EXCEPT ![c] =
                  [state |-> "live", who |-> clerk[k].who, room |-> clerk[k].room,
                   from |-> clerk[k].period[1], through |-> clerk[k].period[2]]]
    /\ Ends(k)
    /\ UNCHANGED <<capacity, highest, merged, moved>>

-----------------------------------------------------------------------------
(* terminate, remove, and a change of the room's capacity *)

\* The assignment ends on the day the contract ends.
Terminate(c) ==
    /\ contract[c].state = "live"
    /\ \E d \in contract[c].from .. contract[c].through :
           contract' = [contract EXCEPT ![c].state = "terminated", ![c].through = d]
    /\ UNCHANGED <<capacity, highest, merged, moved, clerk>>

\* A contract without payments; its assignment goes with it.
Remove(c) ==
    /\ Exists(c)
    /\ contract' = [contract EXCEPT ![c] = NoStay("removed")]
    /\ UNCHANGED <<capacity, highest, merged, moved, clerk>>

\* A value is added, changed or removed: no check against the stays the room has.
ChangeCapacity(r) ==
    /\ \E n \in Capacities :
           /\ capacity' = [capacity EXCEPT ![r] = n]
           /\ highest' = [highest EXCEPT ![r] = IF n > @ THEN n ELSE @]
    /\ UNCHANGED <<contract, merged, moved, clerk>>

-----------------------------------------------------------------------------
(* merge and unmerge *)

AskMerge(k) ==
    /\ clerk[k].at = "idle"
    /\ \E i \in Manual, j \in Residents \ Manual :
           /\ merged[i] = 0 /\ merged[j] = 0
           /\ clerk' = [clerk EXCEPT ![k] = [at |-> "merge", who |-> i, into |-> j]]
    /\ UNCHANGED <<contract, capacity, highest, merged, moved>>

\* The rows are locked in the order of the uids.
LockFirst(k) ==
    /\ clerk[k].at = "merge"
    /\ ResidentFree(k, Lower(clerk[k].who, clerk[k].into))
    /\ Goes(k, "second")
    /\ UNCHANGED <<contract, capacity, highest, merged, moved>>

LockSecond(k) ==
    /\ clerk[k].at = "second"
    /\ ResidentFree(k, Upper(clerk[k].who, clerk[k].into))
    /\ IF merged[clerk[k].who] = 0 /\ merged[clerk[k].into] = 0
       THEN Goes(k, "move")
       ELSE Ends(k)
    /\ UNCHANGED <<contract, capacity, highest, merged, moved>>

\* Mutant: contracts removed since the merge come back.
HandOverAll(ids, i) ==
    contract' = [c \in Contracts |-> IF c \in ids THEN [contract[c] EXCEPT !.who = i]
                                     ELSE contract[c]]

HandOver(ids, i) ==
    contract' = [c \in Contracts |-> IF c \in ids /\ Exists(c)
                                     THEN [contract[c] EXCEPT !.who = i]
                                     ELSE contract[c]]

CommitMerge(k) ==
    /\ clerk[k].at = "move"
    /\ LET i == clerk[k].who
           ids == {c \in Contracts : Exists(c) /\ contract[c].who = i}
       IN  /\ HandOver(ids, clerk[k].into)
           /\ merged' = [merged EXCEPT ![i] = clerk[k].into]
           /\ moved' = [moved EXCEPT ![i] = ids]
    /\ Ends(k)
    /\ UNCHANGED <<capacity, highest>>

\* The merge and its snapshot are read before the transaction.
AskUnmerge(k) ==
    /\ clerk[k].at = "idle"
    /\ \E i \in Residents :
           /\ merged[i] # 0
           /\ clerk' = [clerk EXCEPT ![k] = [at |-> "unmerge", who |-> i, ids |-> moved[i]]]
    /\ UNCHANGED <<contract, capacity, highest, merged, moved>>

\* Nothing is locked or read again; the update of the individual waits for its lock.
CommitUnmerge(k) ==
    /\ clerk[k].at = "unmerge"
    /\ ResidentFree(k, clerk[k].who)
    /\ HandOver(clerk[k].ids, clerk[k].who)
    /\ merged' = [merged EXCEPT ![clerk[k].who] = 0]
    /\ moved' = [moved EXCEPT ![clerk[k].who] = {}]
    /\ Ends(k)
    /\ UNCHANGED <<capacity, highest>>

-----------------------------------------------------------------------------
Next ==
    \/ \E k \in Clerks :
           \/ AskBooking(k) \/ LockResident(k) \/ LockRoom(k) \/ CommitBooking(k)
           \/ AskMerge(k) \/ LockFirst(k) \/ LockSecond(k) \/ CommitMerge(k)
           \/ AskUnmerge(k) \/ CommitUnmerge(k) \/ Fails(k)
    \/ \E c \in Contracts : Terminate(c) \/ Remove(c)
    \/ \E r \in Rooms : ChangeCapacity(r)

Spec == Init /\ [][Next]_vars

-----------------------------------------------------------------------------
(* Properties *)

\* On no day does a room hold more people than it ever had beds: two creations
\* that count the same beds do not both take the last one (create, roomAvailability).
NoOverbooking ==
    \A r \in Rooms, c \in Contracts :
        Exists(c) => Cardinality(Occupants(r, contract[c].from)) <= highest[r]

\* A person merged into another one holds no contract: a creation that had found
\* the person unmerged does not commit behind the merge (create, merge, unmerge).
MergedHoldNothing ==
    \A c \in Contracts : Exists(c) => merged[contract[c].who] = 0

SharedNights(c, d) ==
    {n \in contract[c].from .. contract[c].through - 1 :
        contract[d].from <= n /\ n < contract[d].through}

\* The contract a creation commits shares no night with a stay its resident has in
\* another room, whoever moved contracts or ended stays meanwhile (create,
\* conflictingRoomAssignment).
BookedNightsAreFree ==
    [][\A c, d \in Contracts :
           (/\ ~Exists(c) /\ Exists(c)' /\ d # c /\ Exists(d)'
            /\ contract'[c].who = contract'[d].who
            /\ contract'[c].room # contract'[d].room)
           => SharedNights(c, d)' = {}]_vars

=============================================================================
