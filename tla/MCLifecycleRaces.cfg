SPECIFICATION Spec
CONSTANTS
  Thread = {t1, t2}
  StayId = {"s1"}
  RoomId = {1, 2}
  Window <- OneWindow
  Reserved <- OneRoom
  KeyId = {k1, k2}
  NoKey = NoKey
  KeyTTL = 1
  Override = {}
  Mortal = {t2}
  MaxTime = 1
INVARIANTS TypeOK RevokedNotActive
PROPERTIES CheckoutCompletes SelectedKeysRevoked
CHECK_DEADLOCK FALSE
