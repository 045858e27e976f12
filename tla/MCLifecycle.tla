---------------------------- MODULE MCLifecycle ----------------------------
(* One stay with two rooms, whose handlers race or follow each other.      *)
EXTENDS Lifecycle

OneWindow == [s \in StayId |-> [check_in |-> 1, check_out |-> 4]]
OneRoom == [s \in StayId |-> 1]
=============================================================================
