SPECIFICATION StayKeySpec
CONSTANTS
  Thread = {t1}
  StayId = {"s1", "s2"}
  RoomId = {1, 2}
  Window <- Touching
  Reserved <- SameRoom
  KeyId = {k1, k2}
  NoKey = NoKey
  KeyTTL = 1
  Override = {}
  Mortal = {}
  MaxTime = 1
  PropertyPub = pk
  AppProperty = hilton
  Command = {"tv", "safe"}
  AllowedDevices = {"tv"}
  Device = {k1, k2}
  Nonce = {n1}
  NonceTTL = 0
  NoLock = NoLock
INVARIANT OccupantMayControl
CHECK_DEADLOCK FALSE
