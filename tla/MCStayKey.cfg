SPECIFICATION StayKeySpec
CONSTANTS
  Thread = {t1}
  StayId = {"s1", "s2"}
  RoomId = {1, 2}
  Window <- Touching
  Reserved <- SameRoom
  KeyId = {k1, k2}
  NoKey = NoKey
  KeyTTL = 1
  Override = {0}
  Mortal = {}
  MaxTime = 1
  PropertyPub = pk
  AppProperty = hilton
  Command = {"tv", "safe"}
  AllowedDevices = {"tv"}
  Device = {k1, k2}
  Nonce = {n1}
  NonceTTL = 0
  NoLock = NoLock
INVARIANTS StayKeyTypeOK RevocationsSynced NeighboursOnlyTouch ControlByOccupant
INVARIANTS KeylessOnlyAfterRefusal KeysWithinStay NoKeyForgotten ActiveKeyMatchesRoom
INVARIANTS CheckedOutIsOut
PROPERTY ImplementsCommandPass
SYMMETRY KeySymmetry
CHECK_DEADLOCK FALSE
