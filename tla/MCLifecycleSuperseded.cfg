SPECIFICATION Spec
CONSTANTS
  Thread = {t1}
  StayId = {"s1"}
  RoomId = {1, 2}
  Window <- OneWindow
  Reserved <- OneRoom
  KeyId = {k1, k2}
  NoKey = NoKey
  KeyTTL = 2
  Override = {}
  Mortal = {}
  MaxTime = 3
INVARIANT CheckoutRevokesKeys
CHECK_DEADLOCK FALSE
