--------------------------- MODULE MCRoomBooking ---------------------------
(* The person entered by hand has the greater uid, so a merge locks the    *)
(* target first.  The periods overlap, touch, and last one day.            *)
EXTENDS RoomBooking, TLC

MCPeriods == {<<1, 2>>, <<1, 3>>, <<2, 3>>, <<2, 2>>}

Alike == Permutations(Rooms) \cup Permutations(Contracts) \cup Permutations(Clerks)
=============================================================================
