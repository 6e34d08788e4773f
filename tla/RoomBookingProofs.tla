------------------------- MODULE RoomBookingProofs -------------------------
(***************************************************************************)
(* The invariants of RoomBooking for any number of residents, rooms,       *)
(* contracts, clerks and days.  What a creation read has to stay true      *)
(* until it commits; the row locks are why it does, so the invariant says  *)
(* what a holder of a lock knows, and that a row has one holder.           *)
(***************************************************************************)
EXTENDS RoomBooking, FiniteSetTheorems, TLAPS

Beds(r, d) == Cardinality(Occupants(r, d))

\* One holder for a row.
LocksExclusive ==
    \A k, l \in Clerks : k # l =>
        /\ HeldResidents(k) \cap HeldResidents(l) = {}
        /\ HeldRooms(k) \cap HeldRooms(l) = {}

\* The bed a creation is about to write is still free.
Writing(k, r, d) ==
    /\ clerk[k].at = "write"
    /\ clerk[k].room = r
    /\ d \in clerk[k].period[1] .. clerk[k].period[2]

BedKept ==
    \A k \in Clerks, r \in Rooms, d \in Nat : Writing(k, r, d) => Beds(r, d) < highest[r]

NeverFuller == \A r \in Rooms, d \in Nat : Beds(r, d) <= highest[r]

CapacityBelowHighest == \A r \in Rooms : capacity[r] <= highest[r]

\* The persons a transaction holds are not merged into others.
HeldUnmerged ==
    \A k \in Clerks :
        /\ clerk[k].at \in {"room", "write", "move"} => merged[clerk[k].who] = 0
        /\ clerk[k].at = "move" => merged[clerk[k].into] = 0

IInv ==
    /\ TypeOK
    /\ LocksExclusive
    /\ CapacityBelowHighest /\ NeverFuller /\ BedKept
    /\ HeldUnmerged /\ MergedHoldNothing

-----------------------------------------------------------------------------
(* Types *)

LEMMA ClerkKinds ==
  ASSUME TypeOK, NEW k \in Clerks
  PROVE  /\ clerk[k].at = "idle" => clerk[k] = Idle
         /\ clerk[k].at \in {"book", "room", "write"} => clerk[k] \in Bookings
         /\ clerk[k].at \in {"merge", "second", "move"} => clerk[k] \in Merges
         /\ clerk[k].at = "unmerge" => clerk[k] \in Unmerges
  BY DEF TypeOK, Idle, Bookings, Merges, Unmerges

LEMMA RowKinds ==
  ASSUME TypeOK, NEW c \in Contracts
  PROVE  /\ Exists(c) => contract[c] \in Stays
         /\ ~Exists(c) => contract[c] \in {NoStay("none"), NoStay("removed")}
  BY DEF TypeOK, Exists, Stays, NoStay

\* The type of the state when only one clerk moves.
LEMMA ClerkStep ==
  ASSUME TypeOK, NEW k \in Clerks, NEW b \in {Idle} \cup Bookings \cup Merges \cup Unmerges,
         clerk' = [clerk EXCEPT ![k] = b]
  PROVE  /\ clerk' \in [Clerks -> {Idle} \cup Bookings \cup Merges \cup Unmerges]
         /\ clerk'[k] = b
         /\ \A l \in Clerks \ {k} : clerk'[l] = clerk[l]
  BY DEF TypeOK

LEMMA EndsStep ==
  ASSUME TypeOK, NEW k \in Clerks, Ends(k)
  PROVE  /\ clerk' \in [Clerks -> {Idle} \cup Bookings \cup Merges \cup Unmerges]
         /\ clerk'[k] = Idle
         /\ \A l \in Clerks \ {k} : clerk'[l] = clerk[l]
  BY ClerkStep DEF Ends

LEMMA GoesStep ==
  ASSUME TypeOK, NEW k \in Clerks, NEW step, Goes(k, step),
         \/ clerk[k] \in Bookings /\ step \in {"room", "write"}
         \/ clerk[k] \in Merges /\ step \in {"second", "move"}
  PROVE  /\ clerk' \in [Clerks -> {Idle} \cup Bookings \cup Merges \cup Unmerges]
         /\ clerk'[k] = [clerk[k] EXCEPT !.at = step]
         /\ \A l \in Clerks \ {k} : clerk'[l] = clerk[l]
<1>1. [clerk[k] EXCEPT !.at = step] \in Bookings \cup Merges
  BY DEF Bookings, Merges
<1>2. clerk' = [clerk EXCEPT ![k] = [clerk[k] EXCEPT !.at = step]]
  BY DEF Goes
<1> QED
  BY <1>1, <1>2, ClerkStep

LEMMA HandOverStep ==
  ASSUME TypeOK, NEW ids, NEW i \in Residents, HandOver(ids, i)
  PROVE  /\ contract' \in [Contracts -> Stays \cup {NoStay("none"), NoStay("removed")}]
         /\ \A c \in Contracts :
                /\ Exists(c)' = Exists(c)
                /\ Exists(c) => /\ contract'[c].room = contract[c].room
                                /\ contract'[c].from = contract[c].from
                                /\ contract'[c].through = contract[c].through
                                /\ contract'[c].who = IF c \in ids THEN i ELSE contract[c].who
<1>1. ASSUME NEW c \in Contracts, c \in ids, Exists(c)
      PROVE  /\ [contract[c] EXCEPT !.who = i] \in Stays
             /\ [contract[c] EXCEPT !.who = i].state = contract[c].state
             /\ [contract[c] EXCEPT !.who = i].room = contract[c].room
             /\ [contract[c] EXCEPT !.who = i].from = contract[c].from
             /\ [contract[c] EXCEPT !.who = i].through = contract[c].through
             /\ [contract[c] EXCEPT !.who = i].who = i
  BY <1>1, RowKinds DEF Stays
<1>2. \A c \in Contracts :
          contract'[c] = IF c \in ids /\ Exists(c) THEN [contract[c] EXCEPT !.who = i]
                                                   ELSE contract[c]
  BY DEF HandOver
<1>3. contract' \in [Contracts -> Stays \cup {NoStay("none"), NoStay("removed")}]
  BY <1>1, <1>2 DEF HandOver, TypeOK
<1>4. ASSUME NEW c \in Contracts
      PROVE  /\ Exists(c)' = Exists(c)
             /\ Exists(c) => /\ contract'[c].room = contract[c].room
                             /\ contract'[c].from = contract[c].from
                             /\ contract'[c].through = contract[c].through
                             /\ contract'[c].who = IF c \in ids THEN i ELSE contract[c].who
  <2>1. CASE c \in ids /\ Exists(c)
    BY <1>1, <1>2, <2>1 DEF Exists
  <2>2. CASE ~(c \in ids /\ Exists(c))
    BY <1>2, <2>2 DEF Exists
  <2> QED
    BY <2>1, <2>2
<1> QED
  BY <1>3, <1>4

LEMMA TypeInit == Init => TypeOK
<1> SUFFICES ASSUME Init PROVE TypeOK
  OBVIOUS
<1>1. capacity \in [Rooms -> Nat] /\ highest \in [Rooms -> Nat]
  BY CapacitiesAssumption DEF Init
<1> QED
  BY <1>1 DEF Init, TypeOK

LEMMA TypeStep == TypeOK /\ [Next]_vars => TypeOK'
<1> SUFFICES ASSUME TypeOK, [Next]_vars PROVE TypeOK'
  OBVIOUS
<1>1. ASSUME NEW k \in Clerks, AskBooking(k) PROVE TypeOK'
  <2>1. PICK i \in Residents, r \in Rooms, p \in Periods :
            clerk' = [clerk EXCEPT ![k] =
                         [at |-> "book", who |-> i, room |-> r, period |-> p]]
    BY <1>1 DEF AskBooking
  <2>2. [at |-> "book", who |-> i, room |-> r, period |-> p] \in Bookings
    BY DEF Bookings
  <2> QED
    BY <1>1, <2>1, <2>2, ClerkStep DEF AskBooking, TypeOK
<1>2. ASSUME NEW k \in Clerks, LockResident(k) PROVE TypeOK'
  <2>1. clerk[k] \in Bookings
    BY <1>2, ClerkKinds DEF LockResident
  <2>2. Ends(k) \/ Goes(k, "room")
    BY <1>2 DEF LockResident
  <2> QED
    BY <1>2, <2>1, <2>2, EndsStep, GoesStep DEF LockResident, TypeOK
<1>3. ASSUME NEW k \in Clerks, LockRoom(k) PROVE TypeOK'
  <2>1. clerk[k] \in Bookings
    BY <1>3, ClerkKinds DEF LockRoom
  <2>2. Ends(k) \/ Goes(k, "write")
    BY <1>3 DEF LockRoom
  <2> QED
    BY <1>3, <2>1, <2>2, EndsStep, GoesStep DEF LockRoom, TypeOK
<1>4. ASSUME NEW k \in Clerks, CommitBooking(k) PROVE TypeOK'
  <2>1. clerk[k] \in Bookings
    BY <1>4, ClerkKinds DEF CommitBooking
  <2>2. [state |-> "live", who |-> clerk[k].who, room |-> clerk[k].room,
         from |-> clerk[k].period[1], through |-> clerk[k].period[2]] \in Stays
    BY <2>1, PeriodsAssumption DEF Bookings, Stays
  <2>3. contract' \in [Contracts -> Stays \cup {NoStay("none"), NoStay("removed")}]
    BY <1>4, <2>2 DEF CommitBooking, TypeOK
  <2> QED
    BY <1>4, <2>3, EndsStep DEF CommitBooking, TypeOK
<1>5. ASSUME NEW k \in Clerks, AskMerge(k) PROVE TypeOK'
  <2>1. PICK i \in Manual, j \in Residents \ Manual :
            clerk' = [clerk EXCEPT ![k] = [at |-> "merge", who |-> i, into |-> j]]
    BY <1>5 DEF AskMerge
  <2>2. [at |-> "merge", who |-> i, into |-> j] \in Merges
    BY DEF Merges
  <2> QED
    BY <1>5, <2>1, <2>2, ClerkStep DEF AskMerge, TypeOK
<1>6. ASSUME NEW k \in Clerks, LockFirst(k) PROVE TypeOK'
  <2>1. clerk[k] \in Merges
    BY <1>6, ClerkKinds DEF LockFirst
  <2> QED
    BY <1>6, <2>1, GoesStep DEF LockFirst, TypeOK
<1>7. ASSUME NEW k \in Clerks, LockSecond(k) PROVE TypeOK'
  <2>1. clerk[k] \in Merges
    BY <1>7, ClerkKinds DEF LockSecond
  <2>2. Ends(k) \/ Goes(k, "move")
    BY <1>7 DEF LockSecond
  <2> QED
    BY <1>7, <2>1, <2>2, EndsStep, GoesStep DEF LockSecond, TypeOK
<1>8. ASSUME NEW k \in Clerks, CommitMerge(k) PROVE TypeOK'
  <2>1. clerk[k].who \in Residents /\ clerk[k].into \in Residents
    BY <1>8, ClerkKinds, ResidentsAssumption DEF CommitMerge, Merges
  <2>2. contract' \in [Contracts -> Stays \cup {NoStay("none"), NoStay("removed")}]
    BY <1>8, <2>1, HandOverStep DEF CommitMerge
  <2> QED
    BY <1>8, <2>1, <2>2, EndsStep DEF CommitMerge, TypeOK
<1>9. ASSUME NEW k \in Clerks, AskUnmerge(k) PROVE TypeOK'
  <2>1. PICK i \in Residents :
            clerk' = [clerk EXCEPT ![k] = [at |-> "unmerge", who |-> i, ids |-> moved[i]]]
    BY <1>9 DEF AskUnmerge
  <2>2. [at |-> "unmerge", who |-> i, ids |-> moved[i]] \in Unmerges
    BY DEF Unmerges, TypeOK
  <2> QED
    BY <1>9, <2>1, <2>2, ClerkStep DEF AskUnmerge, TypeOK
<1>10. ASSUME NEW k \in Clerks, CommitUnmerge(k) PROVE TypeOK'
  <2>1. clerk[k].who \in Residents
    BY <1>10, ClerkKinds DEF CommitUnmerge, Unmerges
  <2>2. contract' \in [Contracts -> Stays \cup {NoStay("none"), NoStay("removed")}]
    BY <1>10, <2>1, HandOverStep DEF CommitUnmerge
  <2> QED
    BY <1>10, <2>1, <2>2, EndsStep DEF CommitUnmerge, TypeOK
<1>11. ASSUME NEW k \in Clerks, Fails(k) PROVE TypeOK'
  BY <1>11, EndsStep DEF Fails, TypeOK
<1>12. ASSUME NEW c \in Contracts, Terminate(c) PROVE TypeOK'
  <2>1. contract[c] \in Stays
    BY <1>12, RowKinds DEF Terminate, Exists
  <2>2. PICK d \in contract[c].from .. contract[c].through :
            contract' = [contract EXCEPT ![c].state = "terminated", ![c].through = d]
    BY <1>12 DEF Terminate
  <2>3. [contract[c] EXCEPT !.state = "terminated", !.through = d] \in Stays
    <3>1. d \in Nat
      BY <2>1 DEF Stays
    <3>2. \A s \in Stays : [s EXCEPT !.state = "terminated", !.through = d] \in Stays
      BY <3>1 DEF Stays
    <3> QED
      BY <2>1, <3>2
  <2>4. contract' = [contract EXCEPT ![c] =
                        [contract[c] EXCEPT !.state = "terminated", !.through = d]]
    BY <2>2 DEF TypeOK
  <2> QED
    BY <1>12, <2>3, <2>4 DEF Terminate, TypeOK
<1>13. ASSUME NEW c \in Contracts, Remove(c) PROVE TypeOK'
  BY <1>13 DEF Remove, TypeOK
<1>14. ASSUME NEW r \in Rooms, ChangeCapacity(r) PROVE TypeOK'
  BY <1>14, CapacitiesAssumption DEF ChangeCapacity, TypeOK
<1>15. CASE UNCHANGED vars
  BY <1>15 DEF vars, TypeOK
<1> QED
  BY <1>1, <1>2, <1>3, <1>4, <1>5, <1>6, <1>7, <1>8, <1>9, <1>10, <1>11, <1>12, <1>13,
     <1>14, <1>15 DEF Next

-----------------------------------------------------------------------------
(* How many people a room holds *)

LEMMA BedsAreCounted ==
  ASSUME NEW r, NEW d
  PROVE  IsFiniteSet(Occupants(r, d)) /\ Beds(r, d) \in Nat
  BY ContractsAssumption, FS_Subset, FS_CardinalityType DEF Occupants, Beds

LEMMA FewerOccupants ==
  ASSUME NEW r, NEW d, Occupants(r, d)' \subseteq Occupants(r, d)
  PROVE  Beds(r, d)' \in Nat /\ Beds(r, d)' <= Beds(r, d)
<1>1. IsFiniteSet(Occupants(r, d))
  BY BedsAreCounted
<1>2. /\ IsFiniteSet(Occupants(r, d)')
      /\ Cardinality(Occupants(r, d)') <= Cardinality(Occupants(r, d))
  BY <1>1, FS_Subset
<1> QED
  BY <1>2, FS_CardinalityType DEF Beds

LEMMA OneMoreOccupant ==
  ASSUME NEW r, NEW d, NEW c, Occupants(r, d)' \subseteq Occupants(r, d) \cup {c}
  PROVE  Beds(r, d)' \in Nat /\ Beds(r, d)' <= Beds(r, d) + 1
<1>1. IsFiniteSet(Occupants(r, d)) /\ Cardinality(Occupants(r, d)) \in Nat
  BY BedsAreCounted DEF Beds
<1>2. /\ IsFiniteSet(Occupants(r, d) \cup {c})
      /\ Cardinality(Occupants(r, d) \cup {c}) <= Cardinality(Occupants(r, d)) + 1
  BY <1>1, FS_AddElement
<1>3. /\ IsFiniteSet(Occupants(r, d)')
      /\ Cardinality(Occupants(r, d)') <= Cardinality(Occupants(r, d) \cup {c})
  BY <1>2, FS_Subset
<1> QED
  BY <1>1, <1>2, <1>3, FS_CardinalityType DEF Beds

-----------------------------------------------------------------------------
(* A row has one holder: a clerk comes to hold only rows nobody else holds *)

LEMMA LocksStep ==
  ASSUME LocksExclusive, NEW k \in Clerks,
         \A l \in Clerks \ {k} : clerk'[l] = clerk[l],
         \A i \in HeldResidents(k)' : i \in HeldResidents(k) \/ ResidentFree(k, i),
         \A r \in HeldRooms(k)' : r \in HeldRooms(k) \/ RoomFree(k, r)
  PROVE  LocksExclusive'
<1>1. ASSUME NEW l \in Clerks \ {k}
      PROVE  HeldResidents(l)' = HeldResidents(l) /\ HeldRooms(l)' = HeldRooms(l)
  BY DEF HeldResidents, HeldRooms
<1>2. ASSUME NEW l \in Clerks \ {k}
      PROVE  /\ HeldResidents(k)' \cap HeldResidents(l)' = {}
             /\ HeldRooms(k)' \cap HeldRooms(l)' = {}
  BY <1>1 DEF LocksExclusive, ResidentFree, RoomFree
<1>3. ASSUME NEW l \in Clerks \ {k}, NEW m \in Clerks \ {k}, l # m
      PROVE  /\ HeldResidents(l)' \cap HeldResidents(m)' = {}
             /\ HeldRooms(l)' \cap HeldRooms(m)' = {}
  BY <1>1, <1>3 DEF LocksExclusive
<1>4. ASSUME NEW l \in Clerks, NEW m \in Clerks, l # m
      PROVE  /\ HeldResidents(l)' \cap HeldResidents(m)' = {}
             /\ HeldRooms(l)' \cap HeldRooms(m)' = {}
  BY <1>2, <1>3, <1>4
<1> QED
  BY <1>4 DEF LocksExclusive

LEMMA EndReleases ==
  ASSUME IInv, NEW k \in Clerks, Ends(k)
  PROVE  LocksExclusive'
<1>1. clerk'[k] = Idle /\ \A l \in Clerks \ {k} : clerk'[l] = clerk[l]
  BY EndsStep DEF IInv
<1>2. HeldResidents(k)' = {} /\ HeldRooms(k)' = {}
  BY <1>1 DEF HeldResidents, HeldRooms, Idle
<1> QED
  BY <1>1, <1>2, LocksStep DEF IInv

LEMMA AskHoldsNothing ==
  ASSUME IInv, NEW k \in Clerks, NEW b \in {Idle} \cup Bookings \cup Merges \cup Unmerges,
         clerk' = [clerk EXCEPT ![k] = b], b.at \in {"book", "merge", "unmerge"}
  PROVE  LocksExclusive'
<1>1. clerk'[k] = b /\ \A l \in Clerks \ {k} : clerk'[l] = clerk[l]
  BY ClerkStep DEF IInv
<1>2. HeldResidents(k)' = {} /\ HeldRooms(k)' = {}
  BY <1>1 DEF HeldResidents, HeldRooms
<1> QED
  BY <1>1, <1>2, LocksStep DEF IInv

LEMMA LocksPreserved == IInv /\ [Next]_vars => LocksExclusive'
<1> SUFFICES ASSUME IInv, [Next]_vars PROVE LocksExclusive'
  OBVIOUS
<1>0. TypeOK /\ LocksExclusive
  BY DEF IInv
<1>1. ASSUME NEW k \in Clerks, AskBooking(k) PROVE LocksExclusive'
  <2>1. PICK i \in Residents, r \in Rooms, p \in Periods :
            clerk' = [clerk EXCEPT ![k] =
                         [at |-> "book", who |-> i, room |-> r, period |-> p]]
    BY <1>1 DEF AskBooking
  <2>2. [at |-> "book", who |-> i, room |-> r, period |-> p] \in Bookings
    BY DEF Bookings
  <2> QED
    BY <2>1, <2>2, AskHoldsNothing
<1>2. ASSUME NEW k \in Clerks, LockResident(k) PROVE LocksExclusive'
  <2>1. CASE Ends(k)
    BY <2>1, EndReleases
  <2>2. CASE Goes(k, "room")
    <3>1. clerk[k] \in Bookings
      BY <1>0, <1>2, ClerkKinds DEF LockResident
    <3>2. /\ clerk'[k] = [clerk[k] EXCEPT !.at = "room"]
          /\ \A l \in Clerks \ {k} : clerk'[l] = clerk[l]
      BY <1>0, <2>2, <3>1, GoesStep
    <3>3. clerk'[k].at = "room" /\ clerk'[k].who = clerk[k].who
      BY <3>1, <3>2 DEF Bookings
    <3>4. HeldResidents(k)' \subseteq {clerk[k].who} /\ HeldRooms(k)' = {}
      BY <3>3 DEF HeldResidents, HeldRooms
    <3> QED
      BY <1>0, <1>2, <3>2, <3>4, LocksStep DEF LockResident
  <2> QED
    BY <1>2, <2>1, <2>2 DEF LockResident
<1>3. ASSUME NEW k \in Clerks, LockRoom(k) PROVE LocksExclusive'
  <2>1. CASE Ends(k)
    BY <2>1, EndReleases
  <2>2. CASE Goes(k, "write")
    <3>1. clerk[k] \in Bookings
      BY <1>0, <1>3, ClerkKinds DEF LockRoom
    <3>2. /\ clerk'[k] = [clerk[k] EXCEPT !.at = "write"]
          /\ \A l \in Clerks \ {k} : clerk'[l] = clerk[l]
      BY <1>0, <2>2, <3>1, GoesStep
    <3>3. /\ clerk'[k].at = "write" /\ clerk'[k].who = clerk[k].who
          /\ clerk'[k].room = clerk[k].room
      BY <3>1, <3>2 DEF Bookings
    <3>4. clerk[k].at = "room"
      BY <1>3 DEF LockRoom
    <3>5. /\ HeldResidents(k)' \subseteq HeldResidents(k)
          /\ HeldRooms(k)' \subseteq {clerk[k].room}
      BY <3>3, <3>4 DEF HeldResidents, HeldRooms
    <3> QED
      BY <1>0, <1>3, <3>2, <3>5, LocksStep DEF LockRoom
  <2> QED
    BY <1>3, <2>1, <2>2 DEF LockRoom
<1>4. ASSUME NEW k \in Clerks, AskMerge(k) PROVE LocksExclusive'
  <2>1. PICK i \in Manual, j \in Residents \ Manual :
            clerk' = [clerk EXCEPT ![k] = [at |-> "merge", who |-> i, into |-> j]]
    BY <1>4 DEF AskMerge
  <2>2. [at |-> "merge", who |-> i, into |-> j] \in Merges
    BY DEF Merges
  <2> QED
    BY <2>1, <2>2, AskHoldsNothing
<1>5. ASSUME NEW k \in Clerks, LockFirst(k) PROVE LocksExclusive'
  <2>1. clerk[k] \in Merges
    BY <1>0, <1>5, ClerkKinds DEF LockFirst
  <2>2. /\ clerk'[k] = [clerk[k] EXCEPT !.at = "second"]
        /\ \A l \in Clerks \ {k} : clerk'[l] = clerk[l]
    BY <1>0, <1>5, <2>1, GoesStep DEF LockFirst
  <2>3. /\ clerk'[k].at = "second" /\ clerk'[k].who = clerk[k].who
        /\ clerk'[k].into = clerk[k].into
    BY <2>1, <2>2 DEF Merges
  <2>4. /\ HeldResidents(k)' \subseteq {Lower(clerk[k].who, clerk[k].into)}
        /\ HeldRooms(k)' = {}
    BY <2>3 DEF HeldResidents, HeldRooms
  <2> QED
    BY <1>0, <1>5, <2>2, <2>4, LocksStep DEF LockFirst
<1>6. ASSUME NEW k \in Clerks, LockSecond(k) PROVE LocksExclusive'
  <2>1. CASE Ends(k)
    BY <2>1, EndReleases
  <2>2. CASE Goes(k, "move")
    <3>1. clerk[k] \in Merges
      BY <1>0, <1>6, ClerkKinds DEF LockSecond
    <3>2. /\ clerk'[k] = [clerk[k] EXCEPT !.at = "move"]
          /\ \A l \in Clerks \ {k} : clerk'[l] = clerk[l]
      BY <1>0, <2>2, <3>1, GoesStep
    <3>3. /\ clerk'[k].at = "move" /\ clerk'[k].who = clerk[k].who
          /\ clerk'[k].into = clerk[k].into
      BY <3>1, <3>2 DEF Merges
    <3>4. clerk[k].at = "second"
      BY <1>6 DEF LockSecond
    <3>5. {clerk[k].who, clerk[k].into} =
              {Lower(clerk[k].who, clerk[k].into), Upper(clerk[k].who, clerk[k].into)}
      BY DEF Lower, Upper
    <3>6. HeldResidents(k)' \subseteq {clerk[k].who, clerk[k].into} /\ HeldRooms(k)' = {}
      BY <3>3 DEF HeldResidents, HeldRooms
    <3>7. \A i \in Residents : i = Lower(clerk[k].who, clerk[k].into) => i \in HeldResidents(k)
      BY <3>4 DEF HeldResidents
    <3>8. HeldResidents(k)' \subseteq Residents
      BY DEF HeldResidents
    <3>9. \A i \in HeldResidents(k)' : i \in HeldResidents(k) \/ ResidentFree(k, i)
      BY <1>6, <3>5, <3>6, <3>7, <3>8 DEF LockSecond
    <3> QED
      BY <1>0, <3>2, <3>6, <3>9, LocksStep
  <2> QED
    BY <1>6, <2>1, <2>2 DEF LockSecond
<1>7. ASSUME NEW k \in Clerks, AskUnmerge(k) PROVE LocksExclusive'
  <2>1. PICK i \in Residents :
            clerk' = [clerk EXCEPT ![k] = [at |-> "unmerge", who |-> i, ids |-> moved[i]]]
    BY <1>7 DEF AskUnmerge
  <2>2. [at |-> "unmerge", who |-> i, ids |-> moved[i]] \in Unmerges
    BY <1>0 DEF Unmerges, TypeOK
  <2> QED
    BY <2>1, <2>2, AskHoldsNothing
<1>8. ASSUME NEW k \in Clerks,
             CommitBooking(k) \/ CommitMerge(k) \/ CommitUnmerge(k) \/ Fails(k)
      PROVE  LocksExclusive'
  BY <1>8, EndReleases DEF CommitBooking, CommitMerge, CommitUnmerge, Fails
<1>9. CASE UNCHANGED clerk
  BY <1>0, <1>9 DEF LocksExclusive, HeldResidents, HeldRooms
<1> QED
  BY <1>1, <1>2, <1>3, <1>4, <1>5, <1>6, <1>7, <1>8, <1>9
  DEF Next, vars, Terminate, Remove, ChangeCapacity

-----------------------------------------------------------------------------
(* No room holds more people than it ever had beds *)

RoomInv == CapacityBelowHighest /\ NeverFuller /\ BedKept

LEMMA PeriodDays ==
  ASSUME TypeOK, NEW k \in Clerks, clerk[k].at = "write"
  PROVE  /\ clerk[k].room \in Rooms
         /\ clerk[k].period[1] .. clerk[k].period[2] \subseteq Nat
  BY ClerkKinds, PeriodsAssumption DEF Bookings

\* Nobody moves in, and no room's history gets lower.
LEMMA NobodyMovesIn ==
  ASSUME IInv, TypeOK',
         \A r \in Rooms, d \in Nat : Occupants(r, d)' \subseteq Occupants(r, d),
         \A r \in Rooms : highest[r] <= highest'[r] /\ capacity'[r] <= highest'[r],
         \A k \in Clerks, r \in Rooms, d \in Nat :
             Writing(k, r, d)' => Beds(r, d) < highest[r]
  PROVE  RoomInv'
<1>1. \A r \in Rooms : highest[r] \in Nat /\ highest'[r] \in Nat
  BY DEF IInv, TypeOK
<1>2. \A r \in Rooms, d \in Nat :
          /\ Beds(r, d) \in Nat /\ Beds(r, d)' \in Nat
          /\ Beds(r, d)' <= Beds(r, d)
  BY FewerOccupants, BedsAreCounted
<1>3. NeverFuller'
  BY <1>1, <1>2 DEF NeverFuller, IInv
<1>4. BedKept'
  BY <1>1, <1>2 DEF BedKept
<1> QED
  BY <1>3, <1>4 DEF RoomInv, CapacityBelowHighest

\* The same rows: a step of a clerk that writes no contract.
LEMMA OnlyClerkMoves ==
  ASSUME IInv, TypeOK', NEW k \in Clerks, UNCHANGED <<contract, capacity, highest>>,
         \A l \in Clerks \ {k} : clerk'[l] = clerk[l],
         clerk'[k].at # "write"
  PROVE  RoomInv'
<1>1. \A r \in Rooms, d \in Nat : Occupants(r, d)' = Occupants(r, d)
  BY DEF Occupants, Exists
<1>2. \A r \in Rooms : highest[r] <= highest'[r] /\ capacity'[r] <= highest'[r]
  BY DEF IInv, TypeOK, CapacityBelowHighest
<1>3. ASSUME NEW l \in Clerks, NEW r \in Rooms, NEW d \in Nat, Writing(l, r, d)'
      PROVE  Beds(r, d) < highest[r]
  BY <1>3 DEF Writing, IInv, BedKept
<1> QED
  BY <1>1, <1>2, <1>3, NobodyMovesIn

\* A clerk ends its request and rows change hands without changing rooms.
LEMMA SameStays ==
  ASSUME IInv, TypeOK', NEW k \in Clerks, Ends(k), NEW ids, NEW i \in Residents,
         HandOver(ids, i), UNCHANGED <<capacity, highest>>
  PROVE  RoomInv'
<1>1. \A r \in Rooms, d \in Nat : Occupants(r, d)' \subseteq Occupants(r, d)
  <2>1. \A c \in Contracts :
            /\ Exists(c)' = Exists(c)
            /\ Exists(c) => /\ contract'[c].room = contract[c].room
                            /\ contract'[c].from = contract[c].from
                            /\ contract'[c].through = contract[c].through
    BY HandOverStep DEF IInv
  <2> QED
    BY <2>1 DEF Occupants
<1>2. \A r \in Rooms : highest[r] <= highest'[r] /\ capacity'[r] <= highest'[r]
  BY DEF IInv, TypeOK, CapacityBelowHighest
<1>3. clerk'[k] = Idle /\ \A l \in Clerks \ {k} : clerk'[l] = clerk[l]
  BY EndsStep DEF IInv
<1>4. ASSUME NEW l \in Clerks, NEW r \in Rooms, NEW d \in Nat, Writing(l, r, d)'
      PROVE  Beds(r, d) < highest[r]
  BY <1>3, <1>4 DEF Writing, IInv, BedKept, Idle
<1> QED
  BY <1>1, <1>2, <1>4, NobodyMovesIn

LEMMA BookingFills ==
  ASSUME IInv, TypeOK', NEW k \in Clerks, CommitBooking(k)
  PROVE  RoomInv'
<1> DEFINE room == clerk[k].room
           days == clerk[k].period[1] .. clerk[k].period[2]
<1>1. clerk[k].at = "write" /\ room \in Rooms /\ days \subseteq Nat
  BY PeriodDays DEF CommitBooking, IInv
<1>2. PICK c \in Contracts :
          /\ contract[c].state = "none"
          /\ contract' = [contract EXCEPT ![c] =
                 [state |-> "live", who |-> clerk[k].who, room |-> room,
                  from |-> clerk[k].period[1], through |-> clerk[k].period[2]]]
  BY DEF CommitBooking
<1>3. /\ \A o \in Contracts \ {c} : contract'[o] = contract[o]
      /\ contract'[c].room = room
      /\ contract'[c].from = clerk[k].period[1]
      /\ contract'[c].through = clerk[k].period[2]
  BY <1>2 DEF IInv, TypeOK
<1>4. \A r \in Rooms, d \in Nat : Occupants(r, d)' \subseteq Occupants(r, d) \cup {c}
  BY <1>3 DEF Occupants, Exists
<1>5. ASSUME NEW r \in Rooms, NEW d \in Nat, r # room \/ d \notin days
      PROVE  Occupants(r, d)' \subseteq Occupants(r, d)
  <2>1. clerk[k].period[1] \in Nat /\ clerk[k].period[2] \in Nat
    BY <1>1, ClerkKinds, PeriodsAssumption DEF IInv, Bookings
  <2>2. c \notin Occupants(r, d)'
    BY <1>3, <1>5, <2>1 DEF Occupants
  <2> QED
    BY <1>4, <2>2
<1>6. \A r \in Rooms, d \in Nat :
          /\ Beds(r, d) \in Nat /\ Beds(r, d)' \in Nat
          /\ Beds(r, d)' <= Beds(r, d) + 1
          /\ (r # room \/ d \notin days) => Beds(r, d)' <= Beds(r, d)
  BY <1>4, <1>5, OneMoreOccupant, FewerOccupants, BedsAreCounted
<1>7. /\ \A r \in Rooms : highest[r] \in Nat
      /\ UNCHANGED <<capacity, highest>>
  BY DEF IInv, TypeOK, CommitBooking
<1>8. \A d \in days : Beds(room, d) < highest[room]
  BY <1>1 DEF IInv, BedKept, Writing
<1>9. NeverFuller'
  <2>1. ASSUME NEW r \in Rooms, NEW d \in Nat
        PROVE  Beds(r, d)' <= highest[r]
    <3>1. CASE r = room /\ d \in days
      BY <1>1, <1>6, <1>7, <1>8, <3>1
    <3>2. CASE r # room \/ d \notin days
      BY <1>6, <1>7, <3>2 DEF IInv, NeverFuller
    <3> QED
      BY <3>1, <3>2
  <2> QED
    BY <1>7, <2>1 DEF NeverFuller
<1>10. BedKept'
  <2>1. clerk'[k] = Idle /\ \A l \in Clerks \ {k} : clerk'[l] = clerk[l]
    BY EndsStep DEF IInv, CommitBooking
  <2>2. ASSUME NEW l \in Clerks, NEW r \in Rooms, NEW d \in Nat, Writing(l, r, d)'
        PROVE  Beds(r, d)' < highest[r]
    <3>1. l # k /\ clerk'[l] = clerk[l]
      BY <2>1, <2>2 DEF Idle, Writing
    <3>2. Writing(l, r, d)
      BY <2>2, <3>1 DEF Writing
    <3>3. r # room
      BY <1>1, <3>1, <3>2 DEF IInv, LocksExclusive, HeldRooms, Writing
    <3>4. Beds(r, d) < highest[r]
      BY <3>2 DEF IInv, BedKept
    <3> QED
      BY <1>6, <1>7, <3>3, <3>4
  <2> QED
    BY <1>7, <2>2 DEF BedKept
<1>11. CapacityBelowHighest'
  BY <1>7 DEF IInv, CapacityBelowHighest
<1> QED
  BY <1>9, <1>10, <1>11 DEF RoomInv

LEMMA RoomsPreserved == IInv /\ [Next]_vars => RoomInv'
<1> SUFFICES ASSUME IInv, [Next]_vars PROVE RoomInv'
  OBVIOUS
<1>0. TypeOK /\ TypeOK'
  BY TypeStep DEF IInv
<1>1. ASSUME NEW k \in Clerks, NEW b, clerk' = [clerk EXCEPT ![k] = b],
             b.at \in {"book", "merge", "unmerge"},
             UNCHANGED <<contract, capacity, highest>>
      PROVE  RoomInv'
  <2>1. clerk'[k] = b /\ \A l \in Clerks \ {k} : clerk'[l] = clerk[l]
    BY <1>0, <1>1 DEF TypeOK
  <2> QED
    BY <1>0, <1>1, <2>1, OnlyClerkMoves
<1>2. ASSUME NEW k \in Clerks, AskBooking(k) PROVE RoomInv'
  <2>1. PICK i \in Residents, r \in Rooms, p \in Periods :
            clerk' = [clerk EXCEPT ![k] =
                         [at |-> "book", who |-> i, room |-> r, period |-> p]]
    BY <1>2 DEF AskBooking
  <2> QED
    BY <1>1, <1>2, <2>1 DEF AskBooking
<1>3. ASSUME NEW k \in Clerks, AskMerge(k) PROVE RoomInv'
  <2>1. PICK i \in Manual, j \in Residents \ Manual :
            clerk' = [clerk EXCEPT ![k] = [at |-> "merge", who |-> i, into |-> j]]
    BY <1>3 DEF AskMerge
  <2> QED
    BY <1>1, <1>3, <2>1 DEF AskMerge
<1>4. ASSUME NEW k \in Clerks, AskUnmerge(k) PROVE RoomInv'
  <2>1. PICK i \in Residents :
            clerk' = [clerk EXCEPT ![k] = [at |-> "unmerge", who |-> i, ids |-> moved[i]]]
    BY <1>4 DEF AskUnmerge
  <2> QED
    BY <1>1, <1>4, <2>1 DEF AskUnmerge
<1>5. ASSUME NEW k \in Clerks, Ends(k), UNCHANGED <<contract, capacity, highest>>
      PROVE  RoomInv'
  BY <1>0, <1>5, EndsStep, OnlyClerkMoves DEF Idle
<1>6. ASSUME NEW k \in Clerks, LockResident(k) PROVE RoomInv'
  <2>1. CASE Goes(k, "room")
    <3>1. clerk[k] \in Bookings
      BY <1>0, <1>6, ClerkKinds DEF LockResident
    <3>2. /\ clerk'[k] = [clerk[k] EXCEPT !.at = "room"]
          /\ \A l \in Clerks \ {k} : clerk'[l] = clerk[l]
      BY <1>0, <2>1, <3>1, GoesStep
    <3>3. clerk'[k].at = "room"
      BY <3>1, <3>2 DEF Bookings
    <3> QED
      BY <1>0, <1>6, <3>2, <3>3, OnlyClerkMoves DEF LockResident
  <2> QED
    BY <1>5, <1>6, <2>1 DEF LockResident
<1>7. ASSUME NEW k \in Clerks, LockRoom(k) PROVE RoomInv'
  <2>1. CASE HasBed(clerk[k].room, clerk[k].period[1], clerk[k].period[2]) /\ Goes(k, "write")
    <3>1. clerk[k] \in Bookings
      BY <1>0, <1>7, ClerkKinds DEF LockRoom
    <3>2. /\ clerk'[k] = [clerk[k] EXCEPT !.at = "write"]
          /\ \A l \in Clerks \ {k} : clerk'[l] = clerk[l]
      BY <1>0, <2>1, <3>1, GoesStep
    <3>3. clerk'[k].room = clerk[k].room /\ clerk'[k].period = clerk[k].period
      BY <3>1, <3>2 DEF Bookings
    <3>4. /\ UNCHANGED <<contract, capacity, highest>>
          /\ \A r \in Rooms : /\ capacity[r] \in Nat /\ highest[r] \in Nat
                              /\ capacity[r] <= highest[r]
      BY <1>7 DEF LockRoom, IInv, TypeOK, CapacityBelowHighest
    <3>5. ASSUME NEW l \in Clerks, NEW r \in Rooms, NEW d \in Nat, Writing(l, r, d)'
          PROVE  Beds(r, d) < highest[r]
      <4>1. CASE l = k
        <5>1. Beds(r, d) < capacity[r] /\ Beds(r, d) \in Nat
          BY <2>1, <3>3, <3>5, <4>1, BedsAreCounted DEF HasBed, Writing, Beds
        <5> QED
          BY <3>4, <5>1
      <4>2. CASE l # k
        BY <3>2, <3>5, <4>2 DEF Writing, IInv, BedKept
      <4> QED
        BY <4>1, <4>2
    <3>6. \A r \in Rooms, d \in Nat : Occupants(r, d)' \subseteq Occupants(r, d)
      BY <3>4 DEF Occupants, Exists
    <3> QED
      BY <1>0, <3>4, <3>5, <3>6, NobodyMovesIn
  <2> QED
    BY <1>5, <1>7, <2>1 DEF LockRoom
<1>8. ASSUME NEW k \in Clerks, CommitBooking(k) PROVE RoomInv'
  BY <1>0, <1>8, BookingFills
<1>9. ASSUME NEW k \in Clerks, LockFirst(k) \/ LockSecond(k) PROVE RoomInv'
  <2>1. CASE Goes(k, "second") \/ Goes(k, "move")
    <3>1. clerk[k] \in Merges
      BY <1>0, <1>9, ClerkKinds DEF LockFirst, LockSecond
    <3>2. PICK step \in {"second", "move"} : Goes(k, step)
      BY <2>1
    <3>3. /\ clerk'[k] = [clerk[k] EXCEPT !.at = step]
          /\ \A l \in Clerks \ {k} : clerk'[l] = clerk[l]
      BY <1>0, <3>1, <3>2, GoesStep
    <3>4. clerk'[k].at = step
      BY <3>1, <3>3 DEF Merges
    <3> QED
      BY <1>0, <1>9, <3>3, <3>4, OnlyClerkMoves DEF LockFirst, LockSecond
  <2> QED
    BY <1>5, <1>9, <2>1 DEF LockFirst, LockSecond
<1>10. ASSUME NEW k \in Clerks, CommitMerge(k) PROVE RoomInv'
  <2>1. clerk[k].into \in Residents
    BY <1>0, <1>10, ClerkKinds DEF CommitMerge, Merges
  <2> QED
    BY <1>0, <1>10, <2>1, SameStays DEF CommitMerge
<1>11. ASSUME NEW k \in Clerks, CommitUnmerge(k) PROVE RoomInv'
  <2>1. clerk[k].who \in Residents
    BY <1>0, <1>11, ClerkKinds DEF CommitUnmerge, Unmerges
  <2> QED
    BY <1>0, <1>11, <2>1, SameStays DEF CommitUnmerge
<1>12. ASSUME NEW k \in Clerks, Fails(k) PROVE RoomInv'
  BY <1>5, <1>12 DEF Fails
<1>13. ASSUME UNCHANGED clerk
       PROVE  \A l \in Clerks, r \in Rooms, d \in Nat :
                  Writing(l, r, d)' => Beds(r, d) < highest[r]
  BY <1>13 DEF Writing, IInv, BedKept
<1>14. ASSUME NEW c \in Contracts, Terminate(c) PROVE RoomInv'
  <2>1. contract[c] \in Stays
    BY <1>0, <1>14, RowKinds DEF Terminate, Exists
  <2>2. PICK day \in contract[c].from .. contract[c].through :
            contract' = [contract EXCEPT ![c].state = "terminated", ![c].through = day]
    BY <1>14 DEF Terminate
  <2>3. /\ \A o \in Contracts \ {c} : contract'[o] = contract[o]
        /\ contract'[c].room = contract[c].room
        /\ contract'[c].from = contract[c].from
        /\ contract'[c].through = day
    BY <1>0, <2>1, <2>2 DEF TypeOK, Stays
  <2>4. contract[c].from \in Nat /\ contract[c].through \in Nat /\ Exists(c)
    BY <2>1 DEF Stays, Exists
  <2>5. ASSUME NEW r \in Rooms, NEW d \in Nat, NEW o \in Occupants(r, d)'
        PROVE  o \in Occupants(r, d)
    <3>1. CASE o = c
      BY <2>3, <2>4, <2>5, <3>1 DEF Occupants
    <3>2. CASE o # c
      BY <2>3, <2>5, <3>2 DEF Occupants, Exists
    <3> QED
      BY <3>1, <3>2
  <2>6. \A r \in Rooms : highest[r] <= highest'[r] /\ capacity'[r] <= highest'[r]
    BY <1>14 DEF Terminate, IInv, TypeOK, CapacityBelowHighest
  <2> QED
    BY <1>0, <1>13, <1>14, <2>5, <2>6, NobodyMovesIn DEF Terminate
<1>15. ASSUME NEW c \in Contracts, Remove(c) PROVE RoomInv'
  <2>1. \A r \in Rooms, d \in Nat : Occupants(r, d)' \subseteq Occupants(r, d)
    BY <1>0, <1>15 DEF Remove, Occupants, Exists, NoStay, TypeOK
  <2>2. \A r \in Rooms : highest[r] <= highest'[r] /\ capacity'[r] <= highest'[r]
    BY <1>15 DEF Remove, IInv, TypeOK, CapacityBelowHighest
  <2> QED
    BY <1>0, <1>13, <1>15, <2>1, <2>2, NobodyMovesIn DEF Remove
<1>16. ASSUME NEW r \in Rooms, ChangeCapacity(r) PROVE RoomInv'
  <2>1. \A o \in Rooms, d \in Nat : Occupants(o, d)' \subseteq Occupants(o, d)
    BY <1>16 DEF ChangeCapacity, Occupants, Exists
  <2>2. \A o \in Rooms : highest[o] <= highest'[o] /\ capacity'[o] <= highest'[o]
    <3>1. PICK n \in Nat : /\ capacity' = [capacity EXCEPT ![r] = n]
                          /\ highest' = [highest EXCEPT ![r] =
                                             IF n > highest[r] THEN n ELSE highest[r]]
      BY <1>0, <1>16, CapacitiesAssumption DEF ChangeCapacity, TypeOK
    <3> QED
      BY <1>0, <3>1 DEF IInv, TypeOK, CapacityBelowHighest
  <2> QED
    BY <1>0, <1>13, <1>16, <2>1, <2>2, NobodyMovesIn DEF ChangeCapacity
<1>17. CASE UNCHANGED vars
  <2>1. \A r \in Rooms, d \in Nat : Occupants(r, d)' \subseteq Occupants(r, d)
    BY <1>17 DEF vars, Occupants, Exists
  <2>2. \A r \in Rooms : highest[r] <= highest'[r] /\ capacity'[r] <= highest'[r]
    BY <1>17 DEF vars, IInv, TypeOK, CapacityBelowHighest
  <2> QED
    BY <1>0, <1>13, <1>17, <2>1, <2>2, NobodyMovesIn DEF vars
<1> QED
  BY <1>2, <1>3, <1>4, <1>6, <1>7, <1>8, <1>9, <1>10, <1>11, <1>12, <1>14, <1>15, <1>16, <1>17
     DEF Next

-----------------------------------------------------------------------------
(* A merged person holds no contract *)

MergeInv == HeldUnmerged /\ MergedHoldNothing

\* A clerk moves on, the rows stay; what it holds is known to be unmerged.
LEMMA HolderKnows ==
  ASSUME IInv, NEW k \in Clerks, UNCHANGED <<contract, merged>>,
         \A l \in Clerks \ {k} : clerk'[l] = clerk[l],
         clerk'[k].at \in {"room", "write", "move"} => merged[clerk'[k].who] = 0,
         clerk'[k].at = "move" => merged[clerk'[k].into] = 0
  PROVE  MergeInv'
<1>1. HeldUnmerged'
  BY DEF IInv, HeldUnmerged
<1>2. MergedHoldNothing'
  BY DEF IInv, MergedHoldNothing, Exists
<1> QED
  BY <1>1, <1>2 DEF MergeInv

LEMMA MergesPreserved == IInv /\ [Next]_vars => MergeInv'
<1> SUFFICES ASSUME IInv, [Next]_vars PROVE MergeInv'
  OBVIOUS
<1>0. TypeOK /\ TypeOK'
  BY TypeStep DEF IInv
<1>1. ASSUME NEW k \in Clerks, Ends(k), UNCHANGED <<contract, merged>> PROVE MergeInv'
  BY <1>0, <1>1, EndsStep, HolderKnows DEF Idle
<1>2. ASSUME NEW k \in Clerks, NEW b, clerk' = [clerk EXCEPT ![k] = b],
             b.at \in {"book", "merge", "unmerge"}, UNCHANGED <<contract, merged>>
      PROVE  MergeInv'
  <2>1. clerk'[k] = b /\ \A l \in Clerks \ {k} : clerk'[l] = clerk[l]
    BY <1>0, <1>2 DEF TypeOK
  <2> QED
    BY <1>2, <2>1, HolderKnows
<1>3. ASSUME NEW k \in Clerks, AskBooking(k) PROVE MergeInv'
  <2>1. PICK i \in Residents, r \in Rooms, p \in Periods :
            clerk' = [clerk EXCEPT ![k] =
                         [at |-> "book", who |-> i, room |-> r, period |-> p]]
    BY <1>3 DEF AskBooking
  <2> QED
    BY <1>2, <1>3, <2>1 DEF AskBooking
<1>4. ASSUME NEW k \in Clerks, AskMerge(k) PROVE MergeInv'
  <2>1. PICK i \in Manual, j \in Residents \ Manual :
            clerk' = [clerk EXCEPT ![k] = [at |-> "merge", who |-> i, into |-> j]]
    BY <1>4 DEF AskMerge
  <2> QED
    BY <1>2, <1>4, <2>1 DEF AskMerge
<1>5. ASSUME NEW k \in Clerks, AskUnmerge(k) PROVE MergeInv'
  <2>1. PICK i \in Residents :
            clerk' = [clerk EXCEPT ![k] = [at |-> "unmerge", who |-> i, ids |-> moved[i]]]
    BY <1>5 DEF AskUnmerge
  <2> QED
    BY <1>2, <1>5, <2>1 DEF AskUnmerge
<1>6. ASSUME NEW k \in Clerks, LockResident(k) \/ LockRoom(k) PROVE MergeInv'
  <2>1. CASE ~Ends(k)
    <3>1. clerk[k] \in Bookings
      BY <1>0, <1>6, ClerkKinds DEF LockResident, LockRoom
    <3>2. PICK step \in {"room", "write"} : Goes(k, step)
      BY <1>6, <2>1 DEF LockResident, LockRoom
    <3>3. /\ clerk'[k] = [clerk[k] EXCEPT !.at = step]
          /\ \A l \in Clerks \ {k} : clerk'[l] = clerk[l]
      BY <1>0, <3>1, <3>2, GoesStep
    <3>4. clerk'[k].at = step /\ clerk'[k].who = clerk[k].who
      BY <3>1, <3>3 DEF Bookings
    <3>5. merged[clerk[k].who] = 0
      BY <1>6, <2>1 DEF LockResident, LockRoom, IInv, HeldUnmerged
    <3> QED
      BY <1>6, <3>3, <3>4, <3>5, HolderKnows DEF LockResident, LockRoom
  <2> QED
    BY <1>1, <1>6, <2>1 DEF LockResident, LockRoom
<1>7. ASSUME NEW k \in Clerks, LockFirst(k) \/ LockSecond(k) PROVE MergeInv'
  <2>1. CASE ~Ends(k)
    <3>1. clerk[k] \in Merges
      BY <1>0, <1>7, ClerkKinds DEF LockFirst, LockSecond
    <3>2. PICK step \in {"second", "move"} :
              /\ Goes(k, step)
              /\ step = "move" => merged[clerk[k].who] = 0 /\ merged[clerk[k].into] = 0
      BY <1>7, <2>1 DEF LockFirst, LockSecond
    <3>3. /\ clerk'[k] = [clerk[k] EXCEPT !.at = step]
          /\ \A l \in Clerks \ {k} : clerk'[l] = clerk[l]
      BY <1>0, <3>1, <3>2, GoesStep
    <3>4. /\ clerk'[k].at = step /\ clerk'[k].who = clerk[k].who
          /\ clerk'[k].into = clerk[k].into
      BY <3>1, <3>3 DEF Merges
    <3> QED
      BY <1>7, <3>2, <3>3, <3>4, HolderKnows DEF LockFirst, LockSecond
  <2> QED
    BY <1>1, <1>7, <2>1 DEF LockFirst, LockSecond
<1>8. ASSUME NEW k \in Clerks, CommitBooking(k) PROVE MergeInv'
  <2>1. clerk'[k] = Idle /\ \A l \in Clerks \ {k} : clerk'[l] = clerk[l]
    BY <1>0, <1>8, EndsStep DEF CommitBooking
  <2>2. HeldUnmerged'
    BY <1>8, <2>1 DEF IInv, HeldUnmerged, CommitBooking, Idle
  <2>3. PICK c \in Contracts :
            contract' = [contract EXCEPT ![c] =
                [state |-> "live", who |-> clerk[k].who, room |-> clerk[k].room,
                 from |-> clerk[k].period[1], through |-> clerk[k].period[2]]]
    BY <1>8 DEF CommitBooking
  <2>4. contract'[c].who = clerk[k].who /\ \A o \in Contracts \ {c} : contract'[o] = contract[o]
    BY <1>0, <2>3 DEF TypeOK
  <2>5. merged[clerk[k].who] = 0
    BY <1>8 DEF IInv, HeldUnmerged, CommitBooking
  <2>6. MergedHoldNothing'
    BY <1>8, <2>4, <2>5 DEF IInv, MergedHoldNothing, Exists, CommitBooking
  <2> QED
    BY <2>2, <2>6 DEF MergeInv
<1>9. ASSUME NEW k \in Clerks, CommitMerge(k) PROVE MergeInv'
  <2> DEFINE i == clerk[k].who
             j == clerk[k].into
             ids == {c \in Contracts : Exists(c) /\ contract[c].who = i}
  <2>1. clerk[k].at = "move" /\ i \in Manual /\ j \in Residents \ Manual /\ i \in Residents
    BY <1>0, <1>9, ClerkKinds, ResidentsAssumption DEF CommitMerge, Merges
  <2>2. clerk'[k] = Idle /\ \A l \in Clerks \ {k} : clerk'[l] = clerk[l]
    BY <1>0, <1>9, EndsStep DEF CommitMerge
  <2>3. \A o \in Residents \ {i} : merged'[o] = merged[o]
    BY <1>0, <1>9 DEF CommitMerge, TypeOK
  <2>4. i \in HeldResidents(k)
    BY <2>1 DEF HeldResidents
  <2>5. ASSUME NEW l \in Clerks
        PROVE  /\ clerk'[l].at \in {"room", "write", "move"} => merged'[clerk'[l].who] = 0
               /\ clerk'[l].at = "move" => merged'[clerk'[l].into] = 0
    <3>1. CASE l = k
      BY <2>2, <3>1 DEF Idle
    <3>2. CASE l # k
      <4>1. clerk'[l] = clerk[l] /\ i \notin HeldResidents(l)
        BY <2>2, <2>4, <3>2 DEF IInv, LocksExclusive
      <4>2. clerk[l].at \in {"room", "write", "move"} => clerk[l].who \in Residents \ {i}
        BY <1>0, <2>1, <4>1, ClerkKinds, ResidentsAssumption
        DEF HeldResidents, Bookings, Merges
      <4>3. clerk[l].at = "move" => clerk[l].into \in Residents \ {i}
        BY <1>0, <2>1, <4>1, ClerkKinds DEF HeldResidents, Merges
      <4> QED
        BY <2>3, <4>1, <4>2, <4>3 DEF IInv, HeldUnmerged
    <3> QED
      BY <3>1, <3>2
  <2>6. HandOver(ids, j) /\ merged[j] = 0
    BY <1>9, <2>1 DEF CommitMerge, IInv, HeldUnmerged
  <2>7. ASSUME NEW c \in Contracts, Exists(c)' PROVE merged'[contract'[c].who] = 0
    <3>1. Exists(c) /\ contract'[c].who = IF c \in ids THEN j ELSE contract[c].who
      BY <1>0, <2>1, <2>6, <2>7, HandOverStep
    <3>2. contract[c].who \in Residents /\ merged[contract[c].who] = 0
      BY <1>0, <3>1, RowKinds DEF Stays, IInv, MergedHoldNothing
    <3> QED
      BY <2>1, <2>3, <2>6, <3>1, <3>2
  <2>8. MergedHoldNothing'
    BY <2>7 DEF MergedHoldNothing
  <2>9. HeldUnmerged'
    BY <2>5 DEF HeldUnmerged
  <2> QED
    BY <2>8, <2>9 DEF MergeInv
<1>10. ASSUME NEW k \in Clerks, CommitUnmerge(k) PROVE MergeInv'
  <2> DEFINE i == clerk[k].who
  <2>1. i \in Residents
    BY <1>0, <1>10, ClerkKinds DEF CommitUnmerge, Unmerges
  <2>2. clerk'[k] = Idle /\ \A l \in Clerks \ {k} : clerk'[l] = clerk[l]
    BY <1>0, <1>10, EndsStep DEF CommitUnmerge
  <2>3. \A o \in Residents : merged[o] = 0 \/ o = i => merged'[o] = 0
    BY <1>0, <1>10 DEF CommitUnmerge, TypeOK
  <2>4. ASSUME NEW l \in Clerks
        PROVE  /\ clerk'[l].at \in {"room", "write", "move"} => merged'[clerk'[l].who] = 0
               /\ clerk'[l].at = "move" => merged'[clerk'[l].into] = 0
    <3>1. CASE l = k
      BY <2>2, <3>1 DEF Idle
    <3>2. CASE l # k
      <4>1. clerk'[l] = clerk[l]
        BY <2>2, <3>2
      <4>2. /\ clerk[l].at \in {"room", "write", "move"} => clerk[l].who \in Residents
            /\ clerk[l].at = "move" => clerk[l].into \in Residents
        BY <1>0, ClerkKinds, ResidentsAssumption DEF Bookings, Merges
      <4> QED
        BY <2>3, <4>1, <4>2 DEF IInv, HeldUnmerged
    <3> QED
      BY <3>1, <3>2
  <2>5. ASSUME NEW c \in Contracts, Exists(c)' PROVE merged'[contract'[c].who] = 0
    <3>1. /\ Exists(c)
          /\ contract'[c].who = IF c \in clerk[k].ids THEN i ELSE contract[c].who
      BY <1>0, <1>10, <2>1, <2>5, HandOverStep DEF CommitUnmerge
    <3>2. contract[c].who \in Residents /\ merged[contract[c].who] = 0
      BY <1>0, <3>1, RowKinds DEF Stays, IInv, MergedHoldNothing
    <3> QED
      BY <2>1, <2>3, <3>1, <3>2
  <2>6. MergedHoldNothing'
    BY <2>5 DEF MergedHoldNothing
  <2>7. HeldUnmerged'
    BY <2>4 DEF HeldUnmerged
  <2> QED
    BY <2>6, <2>7 DEF MergeInv
<1>11. ASSUME NEW k \in Clerks, Fails(k) PROVE MergeInv'
  BY <1>1, <1>11 DEF Fails
<1>12. ASSUME NEW c \in Contracts, Terminate(c) PROVE MergeInv'
  <2>1. contract[c] \in Stays
    BY <1>0, <1>12, RowKinds DEF Terminate, Exists
  <2>2. PICK day : contract' = [contract EXCEPT ![c].state = "terminated", ![c].through = day]
    BY <1>12 DEF Terminate
  <2>3. /\ \A o \in Contracts \ {c} : contract'[o] = contract[o]
        /\ contract'[c].who = contract[c].who
    BY <1>0, <2>1, <2>2 DEF TypeOK, Stays
  <2>4. Exists(c)
    BY <2>1 DEF Stays, Exists
  <2>5. MergedHoldNothing'
    BY <1>12, <2>3, <2>4 DEF Terminate, IInv, MergedHoldNothing, Exists
  <2> QED
    BY <1>12, <2>5 DEF Terminate, MergeInv, IInv, HeldUnmerged
<1>13. ASSUME NEW c \in Contracts, Remove(c) PROVE MergeInv'
  <2>1. MergedHoldNothing'
    BY <1>0, <1>13 DEF Remove, IInv, MergedHoldNothing, Exists, NoStay, TypeOK
  <2> QED
    BY <1>13, <2>1 DEF Remove, MergeInv, IInv, HeldUnmerged
<1>14. CASE UNCHANGED <<contract, merged, clerk>>
  BY <1>14 DEF MergeInv, IInv, HeldUnmerged, MergedHoldNothing, Exists
<1> QED
  BY <1>3, <1>4, <1>5, <1>6, <1>7, <1>8, <1>9, <1>10, <1>11, <1>12, <1>13, <1>14
  DEF Next, vars, ChangeCapacity

-----------------------------------------------------------------------------
(* What a creation has found free stays free until it commits *)

\* Contract c and the stay b somebody asks for share no night in two rooms.
Apart(c, b) ==
    (/\ Exists(c)
     /\ contract[c].who = b.who
     /\ contract[c].room # b.room)
    => \A n \in Nat : ~(/\ contract[c].from <= n /\ n < contract[c].through
                        /\ b.period[1] <= n /\ n < b.period[2])

Looked(k) == clerk[k].at \in {"room", "write"}

\* A creation past its look at the resident's stays is still right about them.
NightsKept == \A k \in Clerks, c \in Contracts : Looked(k) => Apart(c, clerk[k])

\* A clerk that has looked holds its resident's row.
LEMMA LookedHolds ==
  ASSUME TypeOK, NEW k \in Clerks, Looked(k)
  PROVE  /\ clerk[k] \in Bookings /\ clerk[k].who \in HeldResidents(k)
         /\ clerk[k].period[1] \in Nat /\ clerk[k].period[2] \in Nat
<1>1. clerk[k] \in Bookings
  BY ClerkKinds DEF Looked
<1>2. clerk[k].who \in Residents /\ clerk[k].period \in Periods
  BY <1>1 DEF Bookings
<1> QED
  BY <1>1, <1>2, PeriodsAssumption DEF Looked, HeldResidents

\* No stay of a resident somebody has looked at begins, grows or changes rooms.
LEMMA StaysApart ==
  ASSUME TypeOK, TypeOK',
         \A l \in Clerks, c \in Contracts : Looked(l)' => Apart(c, clerk'[l]),
         \A l \in Clerks, c \in Contracts :
             (Looked(l)' /\ Exists(c)' /\ contract'[c].who = clerk'[l].who)
             => /\ Exists(c) /\ contract[c].who = contract'[c].who
                /\ contract[c].room = contract'[c].room
                /\ contract[c].from = contract'[c].from
                /\ contract'[c].through <= contract[c].through
  PROVE  NightsKept'
<1> SUFFICES ASSUME NEW l \in Clerks, NEW c \in Contracts, Looked(l)', Exists(c)',
                    contract'[c].who = clerk'[l].who, contract'[c].room # clerk'[l].room,
                    NEW n \in Nat,
                    contract'[c].from <= n, n < contract'[c].through,
                    clerk'[l].period[1] <= n, n < clerk'[l].period[2]
             PROVE  FALSE
  BY DEF NightsKept, Apart
<1>1. /\ Exists(c) /\ contract[c].who = contract'[c].who
      /\ contract[c].room = contract'[c].room
      /\ contract[c].from = contract'[c].from
      /\ contract'[c].through <= contract[c].through
  OBVIOUS
<1>2. contract[c].through \in Nat /\ contract'[c].through \in Nat
  <2>1. contract[c] \in Stays
    BY <1>1, RowKinds
  <2>2. contract'[c] \in Stays
    BY DEF TypeOK, Exists, NoStay
  <2> QED
    BY <2>1, <2>2 DEF Stays
<1>3. Apart(c, clerk'[l])
  OBVIOUS
<1>4. n < contract[c].through
  BY <1>1, <1>2
<1> QED
  BY <1>1, <1>3, <1>4 DEF Apart

\* A step of one clerk that writes no contract.
LEMMA OnlyClerkLooks ==
  ASSUME TypeOK, TypeOK', NightsKept, NEW k \in Clerks, UNCHANGED contract,
         \A l \in Clerks \ {k} : clerk'[l] = clerk[l],
         \A c \in Contracts : Looked(k)' => Apart(c, clerk'[k])
  PROVE  NightsKept'
<1>1. ASSUME NEW l \in Clerks, NEW c \in Contracts, Looked(l)'
      PROVE  Apart(c, clerk'[l])
  <2>1. CASE l = k
    BY <1>1, <2>1
  <2>2. CASE l # k
    BY <1>1, <2>2 DEF NightsKept, Looked
  <2> QED
    BY <2>1, <2>2
<1>2. ASSUME NEW c \in Contracts, Exists(c)'
      PROVE  /\ Exists(c) /\ contract'[c] = contract[c]
             /\ contract'[c].through <= contract[c].through
  <2>1. Exists(c) /\ contract'[c] = contract[c]
    BY <1>2 DEF Exists
  <2>2. contract[c].through \in Nat
    BY <2>1, RowKinds DEF Stays
  <2> QED
    BY <2>1, <2>2
<1> QED
  BY <1>1, <1>2, StaysApart

\* conflictingRoomAssignment finds every stay that shares a night with the period.
LEMMA NoConflictIsApart ==
  ASSUME TypeOK, NEW b \in Bookings, NEW c \in Contracts,
         ~ConflictingRoomAssignment(b.who, b.room, b.period[1], b.period[2])
  PROVE  Apart(c, b)
<1> SUFFICES ASSUME Exists(c), contract[c].who = b.who, contract[c].room # b.room,
                    NEW n \in Nat, contract[c].from <= n, n < contract[c].through,
                    b.period[1] <= n, n < b.period[2]
             PROVE  FALSE
  BY DEF Apart
<1>1. /\ contract[c].from \in Nat /\ contract[c].through \in Nat
      /\ b.period[1] \in Nat /\ b.period[2] \in Nat
  BY RowKinds, PeriodsAssumption DEF Stays, Bookings
<1>2. contract[c].from < b.period[2] /\ contract[c].through > b.period[1]
  BY <1>1
<1>3. c \in Fetched(b.who, b.room, b.period[1], b.period[2])
  BY <1>2 DEF Fetched
<1>4. b.period[1] # b.period[2]
  BY <1>1
<1>5. Conflicts(c, b.period[1], b.period[2])
  BY <1>2, <1>4 DEF Conflicts
<1> QED
  BY <1>3, <1>5 DEF ConflictingRoomAssignment

\* A stay depends on who, where and when it is asked for, not on the step of the request.
LEMMA ApartGoes ==
  ASSUME NEW b \in Bookings, NEW step, NEW c, Apart(c, b)
  PROVE  Apart(c, [b EXCEPT !.at = step])
BY DEF Apart, Bookings

\* What a clerk writes for a resident whose row it holds or finds free is nothing to
\* the clerks that have looked.
LEMMA OthersElsewhere ==
  ASSUME TypeOK, LocksExclusive, NEW k \in Clerks, NEW l \in Clerks \ {k}, Looked(l),
         NEW i, i \in HeldResidents(k) \/ ResidentFree(k, i)
  PROVE  clerk[l].who # i
BY LookedHolds DEF LocksExclusive, ResidentFree

\* Rows that change hands go to a person nobody has looked at.
LEMMA HandOverApart ==
  ASSUME IInv, TypeOK', NightsKept, NEW k \in Clerks, Ends(k), NEW ids, NEW i \in Residents,
         HandOver(ids, i), i \in HeldResidents(k) \/ ResidentFree(k, i)
  PROVE  NightsKept'
<1>0. TypeOK /\ LocksExclusive
  BY DEF IInv
<1>1. clerk'[k] = Idle /\ \A l \in Clerks \ {k} : clerk'[l] = clerk[l]
  BY <1>0, EndsStep
<1>2. ASSUME NEW l \in Clerks, Looked(l)'
      PROVE  l \in Clerks \ {k} /\ clerk'[l] = clerk[l] /\ Looked(l)
  BY <1>1, <1>2 DEF Looked, Idle
<1>3. ASSUME NEW l \in Clerks, NEW c \in Contracts, Looked(l)', Exists(c)',
             contract'[c].who = clerk'[l].who
      PROVE  /\ Exists(c) /\ contract[c].who = contract'[c].who
             /\ contract[c].room = contract'[c].room
             /\ contract[c].from = contract'[c].from
             /\ contract'[c].through <= contract[c].through
  <2>1. clerk[l].who # i /\ clerk'[l] = clerk[l]
    BY <1>0, <1>2, <1>3, OthersElsewhere
  <2>2. /\ Exists(c) /\ contract'[c].room = contract[c].room
        /\ contract'[c].from = contract[c].from /\ contract'[c].through = contract[c].through
        /\ contract'[c].who = IF c \in ids THEN i ELSE contract[c].who
    BY <1>0, <1>3, HandOverStep
  <2>3. contract[c].through \in Nat
    BY <1>0, <2>2, RowKinds DEF Stays
  <2> QED
    BY <1>3, <2>1, <2>2, <2>3
<1>4. \A l \in Clerks, c \in Contracts : Looked(l)' => Apart(c, clerk'[l])
  BY <1>2 DEF NightsKept
<1> QED
  BY <1>0, <1>3, <1>4, StaysApart

\* The contract a creation commits is not one of a resident another has looked at.
LEMMA BookingApart ==
  ASSUME IInv, TypeOK', NightsKept, NEW k \in Clerks, CommitBooking(k)
  PROVE  NightsKept'
<1>0. TypeOK /\ LocksExclusive
  BY DEF IInv
<1>1. clerk'[k] = Idle /\ \A l \in Clerks \ {k} : clerk'[l] = clerk[l]
  BY <1>0, EndsStep DEF CommitBooking
<1>2. ASSUME NEW l \in Clerks, Looked(l)'
      PROVE  l \in Clerks \ {k} /\ clerk'[l] = clerk[l] /\ Looked(l)
  BY <1>1, <1>2 DEF Looked, Idle
<1>3. clerk[k].who \in HeldResidents(k)
  BY <1>0, LookedHolds DEF CommitBooking, Looked
<1>4. PICK new \in Contracts :
          contract' = [contract EXCEPT ![new] =
              [state |-> "live", who |-> clerk[k].who, room |-> clerk[k].room,
               from |-> clerk[k].period[1], through |-> clerk[k].period[2]]]
  BY DEF CommitBooking
<1>5. contract'[new].who = clerk[k].who /\ \A o \in Contracts \ {new} : contract'[o] = contract[o]
  BY <1>0, <1>4 DEF TypeOK
<1>6. ASSUME NEW l \in Clerks, NEW c \in Contracts, Looked(l)', Exists(c)',
             contract'[c].who = clerk'[l].who
      PROVE  /\ Exists(c) /\ contract[c] = contract'[c]
             /\ contract'[c].through <= contract[c].through
  <2>1. clerk[l].who # clerk[k].who /\ clerk'[l] = clerk[l]
    BY <1>0, <1>2, <1>3, <1>6, OthersElsewhere
  <2>2. c # new
    BY <1>5, <1>6, <2>1
  <2>3. contract'[c] = contract[c] /\ Exists(c)
    BY <1>5, <1>6, <2>2 DEF Exists
  <2>4. contract[c].through \in Nat
    BY <1>0, <2>3, RowKinds DEF Stays
  <2> QED
    BY <2>3, <2>4
<1>7. \A l \in Clerks, c \in Contracts : Looked(l)' => Apart(c, clerk'[l])
  BY <1>2 DEF NightsKept
<1> QED
  BY <1>0, <1>6, <1>7, StaysApart

\* Between its look and its commit a creation's period stays free of the resident's
\* other nights.
LEMMA NightsPreserved == IInv /\ NightsKept /\ [Next]_vars => NightsKept'
<1> SUFFICES ASSUME IInv, NightsKept, [Next]_vars PROVE NightsKept'
  OBVIOUS
<1>0. TypeOK /\ TypeOK' /\ LocksExclusive
  BY TypeStep DEF IInv
<1>1. ASSUME NEW k \in Clerks, Ends(k), UNCHANGED contract PROVE NightsKept'
  <2>1. clerk'[k] = Idle /\ \A l \in Clerks \ {k} : clerk'[l] = clerk[l]
    BY <1>0, <1>1, EndsStep
  <2> QED
    BY <1>0, <1>1, <2>1, OnlyClerkLooks DEF Looked, Idle
<1>2. ASSUME NEW k \in Clerks, NEW b, clerk' = [clerk EXCEPT ![k] = b],
             b.at \notin {"room", "write"}, UNCHANGED contract
      PROVE  NightsKept'
  <2>1. clerk'[k] = b /\ \A l \in Clerks \ {k} : clerk'[l] = clerk[l]
    BY <1>0, <1>2 DEF TypeOK
  <2> QED
    BY <1>0, <1>2, <2>1, OnlyClerkLooks DEF Looked
<1>3. ASSUME NEW k \in Clerks, AskBooking(k) PROVE NightsKept'
  <2>1. PICK i \in Residents, r \in Rooms, p \in Periods :
            clerk' = [clerk EXCEPT ![k] =
                         [at |-> "book", who |-> i, room |-> r, period |-> p]]
    BY <1>3 DEF AskBooking
  <2> QED
    BY <1>2, <1>3, <2>1 DEF AskBooking
<1>4. ASSUME NEW k \in Clerks, AskMerge(k) PROVE NightsKept'
  <2>1. PICK i \in Manual, j \in Residents \ Manual :
            clerk' = [clerk EXCEPT ![k] = [at |-> "merge", who |-> i, into |-> j]]
    BY <1>4 DEF AskMerge
  <2> QED
    BY <1>2, <1>4, <2>1 DEF AskMerge
<1>5. ASSUME NEW k \in Clerks, AskUnmerge(k) PROVE NightsKept'
  <2>1. PICK i \in Residents :
            clerk' = [clerk EXCEPT ![k] = [at |-> "unmerge", who |-> i, ids |-> moved[i]]]
    BY <1>5 DEF AskUnmerge
  <2> QED
    BY <1>2, <1>5, <2>1 DEF AskUnmerge
<1>6. ASSUME NEW k \in Clerks, LockResident(k) \/ LockRoom(k) PROVE NightsKept'
  <2>1. CASE ~Ends(k)
    <3>1. clerk[k] \in Bookings
      BY <1>0, <1>6, ClerkKinds DEF LockResident, LockRoom
    <3>2. PICK step \in {"room", "write"} : Goes(k, step)
      BY <1>6, <2>1 DEF LockResident, LockRoom
    <3>3. /\ clerk'[k] = [clerk[k] EXCEPT !.at = step]
          /\ \A l \in Clerks \ {k} : clerk'[l] = clerk[l]
      BY <1>0, <3>1, <3>2, GoesStep
    <3>4. \A c \in Contracts : Apart(c, clerk[k])
      <4>1. CASE LockResident(k)
        <5>1. ~ConflictingRoomAssignment(clerk[k].who, clerk[k].room,
                                         clerk[k].period[1], clerk[k].period[2])
          BY <2>1, <4>1 DEF LockResident
        <5> QED
          BY <1>0, <3>1, <5>1, NoConflictIsApart
      <4>2. CASE LockRoom(k)
        BY <4>2 DEF LockRoom, NightsKept, Looked
      <4> QED
        BY <1>6, <4>1, <4>2
    <3>5. \A c \in Contracts : Apart(c, clerk'[k])
      BY <3>1, <3>3, <3>4, ApartGoes
    <3>6. UNCHANGED contract
      BY <1>6 DEF LockResident, LockRoom
    <3> QED
      BY <1>0, <3>3, <3>5, <3>6, OnlyClerkLooks
  <2> QED
    BY <1>1, <1>6, <2>1 DEF LockResident, LockRoom
<1>7. ASSUME NEW k \in Clerks, LockFirst(k) \/ LockSecond(k) PROVE NightsKept'
  <2>1. CASE ~Ends(k)
    <3>1. PICK step \in {"second", "move"} : Goes(k, step)
      BY <1>7, <2>1 DEF LockFirst, LockSecond
    <3>2. clerk[k] \in Merges
      BY <1>0, <1>7, ClerkKinds DEF LockFirst, LockSecond
    <3>3. /\ clerk'[k] = [clerk[k] EXCEPT !.at = step]
          /\ \A l \in Clerks \ {k} : clerk'[l] = clerk[l]
      BY <1>0, <3>1, <3>2, GoesStep
    <3>4. clerk'[k].at = step
      BY <3>2, <3>3 DEF Merges
    <3> QED
      BY <1>0, <1>7, <3>3, <3>4, OnlyClerkLooks DEF LockFirst, LockSecond, Looked
  <2> QED
    BY <1>1, <1>7, <2>1 DEF LockFirst, LockSecond
<1>8. ASSUME NEW k \in Clerks, CommitBooking(k) PROVE NightsKept'
  BY <1>0, <1>8, BookingApart
<1>9. ASSUME NEW k \in Clerks, CommitMerge(k) PROVE NightsKept'
  <2>1. clerk[k].into \in Residents /\ clerk[k].into \in HeldResidents(k)
    BY <1>0, <1>9, ClerkKinds DEF CommitMerge, Merges, HeldResidents
  <2> QED
    BY <1>0, <1>9, <2>1, HandOverApart DEF CommitMerge
<1>10. ASSUME NEW k \in Clerks, CommitUnmerge(k) PROVE NightsKept'
  <2>1. clerk[k].who \in Residents
    BY <1>0, <1>10, ClerkKinds DEF CommitUnmerge, Unmerges
  <2> QED
    BY <1>0, <1>10, <2>1, HandOverApart DEF CommitUnmerge
<1>11. ASSUME NEW k \in Clerks, Fails(k) PROVE NightsKept'
  BY <1>1, <1>11 DEF Fails
<1>12. ASSUME UNCHANGED clerk,
              \A c \in Contracts : Exists(c)' =>
                  /\ Exists(c) /\ contract'[c].who = contract[c].who
                  /\ contract'[c].room = contract[c].room /\ contract'[c].from = contract[c].from
                  /\ contract'[c].through <= contract[c].through
       PROVE  NightsKept'
  <2>1. \A l \in Clerks, c \in Contracts : Looked(l)' => Apart(c, clerk'[l])
    BY <1>12 DEF NightsKept, Looked
  <2> QED
    BY <1>0, <1>12, <2>1, StaysApart
<1>13. ASSUME NEW c \in Contracts, Terminate(c) PROVE NightsKept'
  <2>1. contract[c] \in Stays /\ \A o \in Contracts : Exists(o) => contract[o].through \in Nat
    BY <1>0, <1>13, RowKinds DEF Terminate, Exists, Stays
  <2>2. PICK day \in contract[c].from .. contract[c].through :
            contract' = [contract EXCEPT ![c].state = "terminated", ![c].through = day]
    BY <1>13 DEF Terminate
  <2>3. /\ \A o \in Contracts \ {c} : contract'[o] = contract[o]
        /\ contract'[c].who = contract[c].who /\ contract'[c].room = contract[c].room
        /\ contract'[c].from = contract[c].from /\ contract'[c].through = day
    BY <1>0, <2>1, <2>2 DEF TypeOK, Stays
  <2>4. day <= contract[c].through /\ Exists(c)
    BY <2>1, <2>2 DEF Stays, Exists
  <2>5. \A o \in Contracts : Exists(o)' =>
            /\ Exists(o) /\ contract'[o].who = contract[o].who
            /\ contract'[o].room = contract[o].room /\ contract'[o].from = contract[o].from
            /\ contract'[o].through <= contract[o].through
    BY <2>1, <2>3, <2>4 DEF Exists
  <2> QED
    BY <1>12, <1>13, <2>5 DEF Terminate
<1>14. ASSUME NEW c \in Contracts, Remove(c) PROVE NightsKept'
  <2>1. /\ \A o \in Contracts \ {c} : contract'[o] = contract[o]
        /\ ~Exists(c)'
    BY <1>0, <1>14 DEF Remove, TypeOK, Exists, NoStay
  <2>2. \A o \in Contracts : Exists(o) => contract[o].through \in Nat
    BY <1>0, RowKinds DEF Stays
  <2>3. \A o \in Contracts : Exists(o)' =>
            /\ Exists(o) /\ contract'[o] = contract[o]
            /\ contract'[o].through <= contract[o].through
    BY <2>1, <2>2 DEF Exists
  <2> QED
    BY <1>12, <1>14, <2>3 DEF Remove
<1>15. CASE UNCHANGED <<contract, clerk>>
  <2>1. \A o \in Contracts : Exists(o) => contract[o].through \in Nat
    BY <1>0, RowKinds DEF Stays
  <2> QED
    BY <1>12, <1>15, <2>1 DEF Exists
<1> QED
  BY <1>3, <1>4, <1>5, <1>6, <1>7, <1>8, <1>9, <1>10, <1>11, <1>13, <1>14, <1>15
  DEF Next, vars, ChangeCapacity

-----------------------------------------------------------------------------
LEMMA InitInvariant == Init => IInv
<1> SUFFICES ASSUME Init PROVE IInv
  OBVIOUS
<1>1. TypeOK
  BY TypeInit
<1>2. \A k \in Clerks : clerk[k] = Idle
  BY DEF Init
<1>3. LocksExclusive /\ BedKept /\ HeldUnmerged
  BY <1>2 DEF LocksExclusive, HeldResidents, HeldRooms, BedKept, Writing, HeldUnmerged, Idle
<1>4. \A c \in Contracts : ~Exists(c)
  BY DEF Init, Exists, NoStay
<1>5. \A r \in Rooms : highest[r] \in Nat /\ capacity[r] = highest[r]
  BY <1>1 DEF Init, TypeOK
<1>6. \A r \in Rooms, d \in Nat : Beds(r, d) = 0
  BY <1>4, FS_EmptySet DEF Beds, Occupants
<1> QED
  BY <1>1, <1>3, <1>4, <1>5, <1>6
  DEF IInv, CapacityBelowHighest, NeverFuller, MergedHoldNothing

LEMMA Invariant == Spec => []IInv
<1>1. IInv /\ [Next]_vars => IInv'
  BY TypeStep, LocksPreserved, RoomsPreserved, MergesPreserved
  DEF IInv, RoomInv, MergeInv
<1> QED
  BY InitInvariant, <1>1, PTL DEF Spec

\* Every row, every lock holder and every snapshot is one the handlers can write.
THEOREM TypeCorrect == Spec => []TypeOK
  BY Invariant, PTL DEF IInv

\* However many creations, merges, terminations and changes of capacity run at
\* once, no room holds more people on a day than it ever had beds.
THEOREM NeverOverbooked == Spec => []NoOverbooking
<1>1. IInv => NoOverbooking
  <2> SUFFICES ASSUME IInv, NEW r \in Rooms, NEW c \in Contracts, Exists(c)
               PROVE  Cardinality(Occupants(r, contract[c].from)) <= highest[r]
    BY DEF NoOverbooking
  <2>1. contract[c].from \in Nat
    BY RowKinds DEF IInv, Stays
  <2> QED
    BY <2>1 DEF IInv, NeverFuller, Beds
<1> QED
  BY Invariant, <1>1, PTL

\* Whenever a person is merged into another, the person's contracts are all gone
\* with the merge, and none is created behind it.
THEOREM MergedPersonsHoldNothing == Spec => []MergedHoldNothing
  BY Invariant, PTL DEF IInv

\* Only a creation makes a contract, and the one it makes has the stay it asked for.
LEMMA OnlyBookingCreates ==
  ASSUME TypeOK, [Next]_vars, NEW c \in Contracts, ~Exists(c), Exists(c)'
  PROVE  \E k \in Clerks :
             /\ clerk[k].at = "write"
             /\ contract'[c] = [state |-> "live", who |-> clerk[k].who, room |-> clerk[k].room,
                                from |-> clerk[k].period[1], through |-> clerk[k].period[2]]
             /\ \A o \in Contracts \ {c} : contract'[o] = contract[o]
<1>1. ASSUME NEW k \in Clerks, CommitMerge(k) PROVE FALSE
  <2>1. clerk[k].into \in Residents
    BY <1>1, ClerkKinds DEF CommitMerge, Merges
  <2> QED
    BY <1>1, <2>1, HandOverStep DEF CommitMerge
<1>2. ASSUME NEW k \in Clerks, CommitUnmerge(k) PROVE FALSE
  <2>1. clerk[k].who \in Residents
    BY <1>2, ClerkKinds DEF CommitUnmerge, Unmerges
  <2> QED
    BY <1>2, <2>1, HandOverStep DEF CommitUnmerge
<1>3. ASSUME NEW o \in Contracts, Terminate(o) PROVE FALSE
  <2>1. o # c
    BY <1>3 DEF Terminate, Exists
  <2>2. contract'[c] = contract[c]
    BY <1>3, <2>1 DEF Terminate, TypeOK
  <2> QED
    BY <2>2 DEF Exists
<1>4. ASSUME NEW o \in Contracts, Remove(o) PROVE FALSE
  BY <1>4 DEF Remove, TypeOK, Exists, NoStay
<1>5. contract' # contract
  BY DEF Exists
<1>6. PICK k \in Clerks : CommitBooking(k)
  BY <1>1, <1>2, <1>3, <1>4, <1>5
  DEF Next, vars, AskBooking, LockResident, LockRoom, AskMerge, LockFirst, LockSecond,
      AskUnmerge, Fails, ChangeCapacity
<1>7. PICK new \in Contracts :
          contract' = [contract EXCEPT ![new] =
              [state |-> "live", who |-> clerk[k].who, room |-> clerk[k].room,
               from |-> clerk[k].period[1], through |-> clerk[k].period[2]]]
  BY <1>6 DEF CommitBooking
<1>8. new = c
  BY <1>7 DEF TypeOK, Exists
<1> QED
  BY <1>6, <1>7, <1>8 DEF TypeOK, CommitBooking

\* Whatever merges, terminations and other creations commit between a creation's look
\* at its resident's stays and its own commit, the new contract shares no night with
\* a stay the resident has in another room.
THEOREM NightsAreFree == Spec => BookedNightsAreFree
<1>1. Init => NightsKept
  BY DEF Init, NightsKept, Looked, Idle
<1>2. ASSUME IInv, NightsKept, [Next]_vars, NEW c \in Contracts, NEW d \in Contracts,
             ~Exists(c), Exists(c)', d # c, Exists(d)',
             contract'[c].who = contract'[d].who, contract'[c].room # contract'[d].room
      PROVE  SharedNights(c, d)' = {}
  <2>1. PICK k \in Clerks :
             /\ clerk[k].at = "write"
             /\ contract'[c] = [state |-> "live", who |-> clerk[k].who, room |-> clerk[k].room,
                                from |-> clerk[k].period[1], through |-> clerk[k].period[2]]
             /\ \A o \in Contracts \ {c} : contract'[o] = contract[o]
    BY <1>2, OnlyBookingCreates DEF IInv
  <2>2. /\ contract'[c].who = clerk[k].who /\ contract'[c].room = clerk[k].room
        /\ contract'[c].from = clerk[k].period[1] /\ contract'[c].through = clerk[k].period[2]
        /\ contract'[d] = contract[d]
    BY <1>2, <2>1
  <2>3. Looked(k) /\ Exists(d)
    BY <1>2, <2>1, <2>2 DEF Looked, Exists
  <2>4. /\ clerk[k].period[1] \in Nat /\ clerk[k].period[2] \in Nat
    BY <1>2, <2>3, LookedHolds DEF IInv
  <2>5. Apart(d, clerk[k])
    BY <1>2, <2>3 DEF NightsKept
  <2>6. \A n \in clerk[k].period[1] .. clerk[k].period[2] - 1 :
            ~(contract[d].from <= n /\ n < contract[d].through)
    <3>1. \A n \in clerk[k].period[1] .. clerk[k].period[2] - 1 :
              n \in Nat /\ clerk[k].period[1] <= n /\ n < clerk[k].period[2]
      BY <2>4
    <3>2. contract[d].who = clerk[k].who /\ contract[d].room # clerk[k].room
      BY <1>2, <2>2
    <3> QED
      BY <2>3, <2>5, <3>1, <3>2 DEF Apart
  <2> QED
    BY <2>2, <2>6 DEF SharedNights
<1>3. IInv /\ NightsKept /\ [Next]_vars =>
          (\A c, d \in Contracts :
               (/\ ~Exists(c) /\ Exists(c)' /\ d # c /\ Exists(d)'
                /\ contract'[c].who = contract'[d].who
                /\ contract'[c].room # contract'[d].room)
               => SharedNights(c, d)' = {})
  BY <1>2
<1> QED
  BY <1>1, <1>3, Invariant, NightsPreserved, PTL DEF Spec, BookedNightsAreFree

=============================================================================
