--------------------------- MODULE MCReservation ---------------------------
(* Requests racing for two standard rooms; room 2 is another property's.   *)
(* One window overlaps the other two, which touch; there is no suite, so   *)
(* the booking of one succeeds only in a standard room asked for by name.  *)
EXTENDS Reservation, TLC

RoomRow(id, property, type) == [room_id |-> id, property_id |-> property, room_type |-> type]
Window(type, from, to) == [room_type |-> type, check_in |-> from, check_out |-> to]

MCInventory == {RoomRow(1, "hilton", "std"), RoomRow(2, "other", "std"),
                RoomRow(3, "hilton", "std")}
MCBooking == {Window("std", 1, 3), Window("std", 2, 4), Window("suite", 3, 5)}

LiveInventory == {RoomRow(1, "hilton", "std"), RoomRow(2, "hilton", "std")}
LiveBooking == {Window("std", 1, 3), Window("std", 3, 5)}

IdSymmetry == Permutations(Thread) \cup Permutations(StayId)
=============================================================================
