SPECIFICATION Spec
CONSTANTS
  Thread = {t1, t2}
  RoomId = {1, 2}
  RoomRow <- MCRoomRow
  NoRow = "none"
  AppProperty = "hilton"
  LockId = {l1, l2, l3}
  NoLock = NoLock
  KeyId = {"k1"}
  KeyRoom <- MCKeyRoom
  Challenge = {c1}
  ChallengeTTL = 0
  PropertyKey = {p1, p2}
  NoSK = NoSK
  BrokenPEM = BrokenPEM
  Device = {"k1", "noise"}
  Unsent = Unsent
  Lost = Lost
  Override = {0}
  MaxTime = 1
INVARIANTS TypeOK ReplayRefused OpensOwnChallenge RevocationsHonoured RestartsKeepKey
SYMMETRY IdSymmetry
