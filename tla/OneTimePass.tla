----------------------------- MODULE OneTimePass -----------------------------
(***************************************************************************)
(* What the challenge store (staykey/antireplay.py) promises to whoever    *)
(* owns one, with its dicts, times and collector out of sight: a challenge *)
(* is sent once, is good for one use from then on, and may lapse unused    *)
(* when another one is sent.  No memory of used challenges is needed for   *)
(* that.  The door lock (module LockVerifier) and the connected-room       *)
(* authorizer (module StayKey) implement it when they serve one call at a  *)
(* time.                                                                   *)
(***************************************************************************)
EXTENDS Naturals

CONSTANT Challenge

VARIABLES sent,  \* the challenges that have been sent
          live,  \* those of them that are good for a use
          uses   \* [Challenge -> how often it has been used]

Init == sent = {} /\ live = {} /\ uses = [c \in Challenge |-> 0]

Send(c) ==
  /\ c \notin sent
  /\ sent' = sent \cup {c}
  /\ \E kept \in SUBSET live : live' = kept \cup {c}
  /\ UNCHANGED uses

Use(c) ==
  /\ c \in live
  /\ live' = live \ {c}
  /\ uses' = [uses EXCEPT ![c] = @ + 1]
  /\ UNCHANGED sent

Next == \E c \in Challenge : Send(c) \/ Use(c)

Spec == Init /\ [][Next]_<<sent, live, uses>>
=============================================================================
