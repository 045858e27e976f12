----------------------------- MODULE MCAppState -----------------------------
(* Two doors, one of which has no row in the rooms table.                  *)
EXTENDS AppState, TLC

MCRoomRow == [r \in RoomId |-> IF r = 1 THEN "hilton" ELSE NoRow]
MCKeyRoom == [k \in KeyId |-> 1]

IdSymmetry == Permutations(Thread) \cup Permutations(LockId) \cup Permutations(PropertyKey)
=============================================================================
