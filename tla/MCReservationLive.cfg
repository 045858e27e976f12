SPECIFICATION Spec
CONSTANTS
  Thread = {t1, t2}
  NoThread = NoThread
  StayId = {s1, s2}
  RoomId = {1, 2}
  Inventory <- LiveInventory
  Booking <- LiveBooking
  NoBooking = NoBooking
  Property = "hilton"
PROPERTIES RequestsFinish ImplementsLedger
