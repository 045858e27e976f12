SPECIFICATION Spec
CONSTANTS
  Challenge = {c1, c2}
  ChallengeTTL = 1
  KeyId = {"k1"}
  Device = {"d1", "d2"}
  Token <- MCToken
  PropertyPub = "P"
  LockProperty = "hilton"
  LockRoom = 101
  Override = {2}
  MaxTime = 6
SYMMETRY NonceSymmetry
INVARIANTS TypeOK ChallengeHistory SingleUse ReplayDistinguished PendingIsRecent
PROPERTIES RetryPossible OpeningsAuthorised ImplementsPass
CHECK_DEADLOCK FALSE
