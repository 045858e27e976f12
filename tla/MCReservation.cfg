SPECIFICATION Spec
CONSTANTS
  Thread = {t1, t2}
  NoThread = NoThread
  StayId = {s1, s2, s3}
  RoomId = {1, 2, 3}
  Inventory <- MCInventory
  Booking <- MCBooking
  NoBooking = NoBooking
  Property = "hilton"
INVARIANTS TypeOK RequestDiscipline NoDoubleBooking ChoiceIsCurrent StayHoldsOneRoom
PROPERTY RoomKeptUnlessFreed
SYMMETRY IdSymmetry
