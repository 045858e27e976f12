--------------------------- MODULE MCLockVerifier ---------------------------
(* A lock of room 101 and one token for every way a key can be presented.  *)
EXTENDS LockVerifier, TLC

Good == CredentialOf("P", "k1", "s1", "hilton", {101}, 1, 3, "d1")
Late == CredentialOf("P", "k2", "s2", "hilton", {101}, 4, 9, "d2")

MCToken ==
  {Good, Late,
   CredentialOf("P", "k1", "s1", "hilton", {102}, 1, 3, "d1"),
   CredentialOf("P", "k1", "s1", "other", {101}, 1, 3, "d1"),
   CredentialOf("mallory", "k1", "s1", "hilton", {101}, 1, 3, "d2"),
   [Good EXCEPT !.parses = FALSE], [Good EXCEPT !.complete = FALSE]}

NonceSymmetry == Permutations(Challenge)
=============================================================================
