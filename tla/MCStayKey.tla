----------------------------- MODULE MCStayKey -----------------------------
(* Two stays that follow each other in room 1: the second begins when the  *)
(* first ends.  Room 2 is free for a change.                               *)
EXTENDS StayKey, TLC

Span(from, to) == [check_in |-> from, check_out |-> to]
Touching == [s \in StayId |-> IF s = "s1" THEN Span(0, 1) ELSE Span(1, 2)]
SameRoom == [s \in StayId |-> 1]

(* Keys are their own devices' names, so both are permuted together. *)
KeySymmetry == Permutations(KeyId)
=============================================================================
