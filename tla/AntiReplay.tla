----------------------------- MODULE AntiReplay -----------------------------
(***************************************************************************)
(* The single-use challenge store shared by the door lock and the          *)
(* connected-room authorizer (staykey/antireplay.py).  A store is a value, *)
(* and every method of the Python class is an operator from the old store  *)
(* to its result, so that a component that owns a store decides how many   *)
(* of its steps one call takes.                                            *)
(*                                                                         *)
(* The two dicts, challenge -> time, are total functions in which Absent   *)
(* stands for a missing key.                                               *)
(***************************************************************************)
EXTENDS Integers

CONSTANTS Challenge,     \* the nonces os.urandom can return
          ChallengeTTL   \* config.CHALLENGE_TTL_SECONDS

ASSUME ChallengeTTLAssumption == ChallengeTTL \in Nat

Absent == -1
Stamp == Nat \cup {Absent}

ChallengeStore == [pending: [Challenge -> Stamp], consumed: [Challenge -> Stamp]]

NewStore == [pending  |-> [c \in Challenge |-> Absent],
             consumed |-> [c \in Challenge |-> Absent]]

(* Entries of a dict that are no more than age old at time now. *)
NoOlderThan(entries, age, now) ==
  [c \in Challenge |-> IF now - entries[c] > age THEN Absent ELSE entries[c]]

(* Mutated forms of Gc: pending challenges are never dropped; consumed     *)
(* ones are forgotten as early as pending ones.                            *)
GcConsumedOnly(s, now) ==
  [s EXCEPT !.consumed = NoOlderThan(s.consumed, 4 * ChallengeTTL, now)]
GcConsumedEarly(s, now) ==
  [pending  |-> NoOlderThan(s.pending, ChallengeTTL, now),
   consumed |-> NoOlderThan(s.consumed, ChallengeTTL, now)]

Gc(s, now) ==
  [pending  |-> NoOlderThan(s.pending, ChallengeTTL, now),
   consumed |-> NoOlderThan(s.consumed, 4 * ChallengeTTL, now)]

(* issue: garbage-collect, then remember the fresh nonce c. *)
Issue(s, c, now) == [Gc(s, now) EXCEPT !.pending[c] = now]

(* check: the non-consuming status of a challenge. *)
Check(s, c, now) ==
  IF s.consumed[c] # Absent THEN "replayed"
  ELSE IF s.pending[c] = Absent \/ now - s.pending[c] > ChallengeTTL THEN "unknown"
  ELSE "ok"

(* consume: out of the pending dict, into the consumed one. *)
Consume(s, c, now) == [s EXCEPT !.pending[c] = Absent, !.consumed[c] = now]
=============================================================================
