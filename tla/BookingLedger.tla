--------------------------- MODULE BookingLedger ---------------------------
(***************************************************************************)
(* What room assignment promises to the rest of the system, with its       *)
(* threads, transactions, timeouts and crashes out of sight: each stay     *)
(* asks for a window once; a stay is given a room in one indivisible step, *)
(* when no other stay holds that room in its window; it keeps the room     *)
(* until it is given another or leaves.  Module Reservation implements it. *)
(***************************************************************************)
EXTENDS Integers

CONSTANTS Stay, Room, NoRoom,
          Span,     \* what a stay may ask for
          NoSpan

VARIABLES wanted,   \* [Stay -> what it has asked for]
          held      \* [Stay -> the room it holds]

(* Half-open windows. *)
Clash(a, b) == a.check_in < b.check_out /\ b.check_in < a.check_out

Init == /\ wanted = [s \in Stay |-> NoSpan]
        /\ held = [s \in Stay |-> NoRoom]

Ask(s, b) ==
  /\ wanted[s] = NoSpan
  /\ wanted' = [wanted EXCEPT ![s] = b]
  /\ UNCHANGED held

Take(s, room) ==
  /\ wanted[s] # NoSpan
  /\ \A x \in Stay \ {s} : held[x] = room => ~Clash(wanted[x], wanted[s])
  /\ held' = [held EXCEPT ![s] = room]
  /\ UNCHANGED wanted

Release(s) ==
  /\ held' = [held EXCEPT ![s] = NoRoom]
  /\ UNCHANGED wanted

Next == \E s \in Stay : \/ \E b \in Span : Ask(s, b)
                        \/ \E room \in Room : Take(s, room)
                        \/ Release(s)

Spec == Init /\ [][Next]_<<wanted, held>>
=============================================================================
