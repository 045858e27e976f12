SPECIFICATION Spec
CONSTANTS
  Thread = {t1, t2}
  StayId = {"s1"}
  RoomId = {1, 2}
  Window <- OneWindow
  Reserved <- OneRoom
  KeyId = {k1, k2}
  NoKey = NoKey
  KeyTTL = 2
  Override = {}
  Mortal = {}
  MaxTime = 2
PROPERTY CheckedOutGetsNothing
CHECK_DEADLOCK FALSE
