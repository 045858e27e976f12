----------------------------- MODULE Lifecycle -----------------------------
(***************************************************************************)
(* Check-in, refresh, checkout and room change (staykey/lifecycle.py,      *)
(* keys.py and their handlers in api.py) on the tables stays, assignments, *)
(* keys and revocations.  No transaction spans a handler: every SQL        *)
(* statement commits by itself, so each one is a step of its thread, and   *)
(* the only transaction, the reassignment of a room, is one step too       *)
(* (module Reservation shows what it does from the inside).                *)
(*                                                                         *)
(* The stays have been reserved: each has a room and holds it.             *)
(***************************************************************************)
EXTENDS Integers

CONSTANTS Thread, StayId, RoomId,
          Window,      \* [StayId -> the stay's check_in and check_out]
          Reserved,    \* [StayId -> the room each stay was first assigned]
          KeyId,       \* what uuid4 returns, never the same twice
          NoKey,       \* no row for a key id
          KeyTTL,      \* config.KEY_TTL_SECONDS
          Override,    \* values of the optional now of a room change
          Mortal,      \* the threads that may die between two statements
          MaxTime      \* bound of the clock

NoRoom == 0

MaybeRoom == RoomId \cup {NoRoom}
KeyRow == [stay: StayId, room: RoomId, issued_at: Nat, valid_from: Nat, valid_until: Nat]

ASSUME LifecycleAssumption ==
  /\ RoomId \subseteq Nat \ {NoRoom}
  /\ NoKey \notin KeyRow
  /\ Window \in [StayId -> [check_in: Nat, check_out: Nat]]
  /\ \A s \in StayId : Window[s].check_in < Window[s].check_out
  /\ Reserved \in [StayId -> RoomId]
  /\ KeyTTL \in Nat /\ Override \subseteq Nat /\ MaxTime \in Nat
  /\ Mortal \subseteq Thread

VARIABLES clock,
          status, stay_room,  \* table stays
          assigned,           \* table assignments: the active row's room
          issued, active,     \* table keys: the rows by key_id, and active = 1
          revoked,            \* table revocations
          lapsing,            \* history: keys a refresh has superseded
          pc, job             \* where each thread is, and its local variables

vars == <<clock, status, stay_room, assigned, issued, active, revoked, lapsing, pc, job>>

Job == [op: {"checkin", "refresh", "checkout", "change"}, stay: StayId, now: Nat,
        keys: SUBSET KeyId, room: MaybeRoom]
NoJob == [op |-> "none", keys |-> {}]

TypeOK ==
  /\ clock \in Nat
  /\ status \in [StayId -> {"reserved", "checked_in", "checked_out"}]
  /\ stay_room \in [StayId -> RoomId]
  /\ assigned \in [StayId -> MaybeRoom]
  /\ issued \in [KeyId -> KeyRow \cup {NoKey}]
  /\ active \subseteq KeyId /\ revoked \subseteq KeyId /\ lapsing \subseteq KeyId
  /\ pc \in [Thread -> {"idle", "supersede", "select", "deactivate", "revoke",
                        "free", "leave", "move", "issue", "add"}]
  /\ job \in [Thread -> Job \cup {NoJob}]

Init ==
  /\ clock = 0
  /\ status = [s \in StayId |-> "reserved"]
  /\ stay_room = Reserved
  /\ assigned = Reserved
  /\ issued = [k \in KeyId |-> NoKey]
  /\ active = {} /\ revoked = {} /\ lapsing = {}
  /\ pc = [t \in Thread |-> "idle"]
  /\ job = [t \in Thread |-> NoJob]

-----------------------------------------------------------------------------
Min(a, b) == IF a <= b THEN a ELSE b

(* Mutated form of EffectiveWindow: the TTL alone bounds the key. *)
WindowByTTL(s, now) ==
  [valid_from |-> Window[s].check_in, valid_until |-> now + KeyTTL]

(* effective_window: bounded by the stay and by the rolling TTL. *)
EffectiveWindow(s, now) ==
  [valid_from |-> Window[s].check_in,
   valid_until |-> Min(Window[s].check_out, now + KeyTTL)]

KeysOf(s) == {k \in KeyId : issued[k] # NoKey /\ issued[k].stay = s}
ActiveKeysOf(s) == active \cap KeysOf(s)

Overlap(a, b) == Window[a].check_in < Window[b].check_out
                 /\ Window[b].check_in < Window[a].check_out
FreeFor(room, s) == \A x \in StayId \ {s} : assigned[x] = room => ~Overlap(x, s)

Start(t, op, s, now, at) ==
  /\ pc[t] = "idle"
  /\ pc' = [pc EXCEPT ![t] = at]
  /\ job' = [job EXCEPT ![t] = [op |-> op, stay |-> s, now |-> now,
                                keys |-> {}, room |-> NoRoom]]
Goto(t, at) == pc' = [pc EXCEPT ![t] = at] /\ UNCHANGED job
Done(t) == pc' = [pc EXCEPT ![t] = "idle"] /\ job' = [job EXCEPT ![t] = NoJob]

-----------------------------------------------------------------------------
Tick == /\ clock < MaxTime
        /\ clock' = clock + 1
        /\ UNCHANGED <<status, stay_room, assigned, issued, active, revoked, lapsing, pc, job>>

(* checkin: the status is set whatever it was, and before a key is issued. *)
Checkin(t, s) ==
  /\ Start(t, "checkin", s, clock, "issue")
  /\ status' = [status EXCEPT ![s] = "checked_in"]
  /\ UNCHANGED <<clock, stay_room, assigned, issued, active, revoked, lapsing>>

(* Mutated form of Refresh: the status is not looked at. *)
RefreshAnyStay(t, s) ==
  /\ Start(t, "refresh", s, clock, "supersede")
  /\ UNCHANGED <<clock, status, stay_room, assigned, issued, active, revoked, lapsing>>

(* refresh_key up to its status check; a checked-out stay is refused. *)
Refresh(t, s) ==
  /\ status[s] # "checked_out"
  /\ Start(t, "refresh", s, clock, "supersede")
  /\ UNCHANGED <<clock, status, stay_room, assigned, issued, active, revoked, lapsing>>

(* refresh_key's UPDATE keys: superseded, deliberately not revoked. *)
Supersede(t) ==
  /\ pc[t] = "supersede"
  /\ active' = active \ ActiveKeysOf(job[t].stay)
  /\ lapsing' = lapsing \cup ActiveKeysOf(job[t].stay)
  /\ Goto(t, "issue")
  /\ UNCHANGED <<clock, status, stay_room, assigned, issued, revoked>>

(* checkout asks for nothing but that the stay exists; its now is only     *)
(* recorded as revoked_at, which nothing reads.                            *)
Checkout(t, s) ==
  /\ Start(t, "checkout", s, 0, "select")
  /\ UNCHANGED <<clock, status, stay_room, assigned, issued, active, revoked, lapsing>>

(* change_room up to its status check. *)
ChangeRoom(t, s, now) ==
  /\ status[s] # "checked_out"
  /\ Start(t, "change", s, now, "select")
  /\ UNCHANGED <<clock, status, stay_room, assigned, issued, active, revoked, lapsing>>

(* deactivate_keys_for_stay, its SELECT and its UPDATE. *)
SelectKeys(t) ==
  /\ pc[t] = "select"
  /\ pc' = [pc EXCEPT ![t] = "deactivate"]
  /\ job' = [job EXCEPT ![t].keys = ActiveKeysOf(job[t].stay)]
  /\ UNCHANGED <<clock, status, stay_room, assigned, issued, active, revoked, lapsing>>

(* Mutated forms of DeactivateKeys: nothing is deactivated; the keys to    *)
(* revoke are looked up only after they have been deactivated.             *)
DeactivateNothing(t) ==
  /\ pc[t] = "deactivate"
  /\ Goto(t, "revoke")
  /\ UNCHANGED <<clock, status, stay_room, assigned, issued, active, revoked, lapsing>>
DeactivateFirst(t) ==
  /\ pc[t] = "deactivate"
  /\ active' = active \ ActiveKeysOf(job[t].stay)
  /\ pc' = [pc EXCEPT ![t] = "revoke"]
  /\ job' = [job EXCEPT ![t].keys = {}]
  /\ UNCHANGED <<clock, status, stay_room, assigned, issued, revoked, lapsing>>

DeactivateKeys(t) ==
  /\ pc[t] = "deactivate"
  /\ active' = active \ ActiveKeysOf(job[t].stay)
  /\ Goto(t, "revoke")
  /\ UNCHANGED <<clock, status, stay_room, assigned, issued, revoked, lapsing>>

(* revoke_key, once for every key selected: INSERT OR IGNORE. *)
RevokeKey(t, k) ==
  /\ pc[t] = "revoke" /\ k \in job[t].keys
  /\ revoked' = revoked \cup {k}
  /\ job' = [job EXCEPT ![t].keys = @ \ {k}]
  /\ UNCHANGED <<clock, status, stay_room, assigned, issued, active, lapsing, pc>>

(* Mutated form of AllRevoked: the loop may end early. *)
SomeRevoked(t) ==
  /\ pc[t] = "revoke"
  /\ pc' = [pc EXCEPT ![t] = IF job[t].op = "checkout" THEN "free" ELSE "move"]
  /\ job' = [job EXCEPT ![t].keys = {}]
  /\ UNCHANGED <<clock, status, stay_room, assigned, issued, active, revoked, lapsing>>

AllRevoked(t) ==
  /\ pc[t] = "revoke" /\ job[t].keys = {}
  /\ Goto(t, IF job[t].op = "checkout" THEN "free" ELSE "move")
  /\ UNCHANGED <<clock, status, stay_room, assigned, issued, active, revoked, lapsing>>

(* checkout's UPDATE assignments. *)
FreeRoom(t) ==
  /\ pc[t] = "free"
  /\ assigned' = [assigned EXCEPT ![job[t].stay] = NoRoom]
  /\ Goto(t, "leave")
  /\ UNCHANGED <<clock, status, stay_room, issued, active, revoked, lapsing>>

(* Mutated form of Leave: the stay is never marked as checked out. *)
LeaveUnmarked(t) ==
  /\ pc[t] = "leave"
  /\ Done(t)
  /\ UNCHANGED <<clock, status, stay_room, assigned, issued, active, revoked, lapsing>>

(* checkout's set_stay_status; the row keeps its room_id. *)
Leave(t) ==
  /\ pc[t] = "leave"
  /\ status' = [status EXCEPT ![job[t].stay] = "checked_out"]
  /\ Done(t)
  /\ UNCHANGED <<clock, stay_room, assigned, issued, active, revoked, lapsing>>

(* reservation.change_room, committed: any room free for the stay's window *)
(* with its own assignment out of the way.                                 *)
Move(t, room) ==
  /\ pc[t] = "move"
  /\ FreeFor(room, job[t].stay)
  /\ assigned' = [assigned EXCEPT ![job[t].stay] = room]
  /\ stay_room' = [stay_room EXCEPT ![job[t].stay] = room]
  /\ Goto(t, "issue")
  /\ UNCHANGED <<clock, status, issued, active, revoked, lapsing>>

(* reservation.change_room, rolled back: no such room, or none free. *)
MoveFails(t) ==
  /\ pc[t] = "move"
  /\ Done(t)
  /\ UNCHANGED <<clock, status, stay_room, assigned, issued, active, revoked, lapsing>>

(* Mutated form of Issue: the room of the stay is not looked up. *)
IssueNoRoom(t) ==
  /\ pc[t] = "issue"
  /\ Goto(t, "add")
  /\ UNCHANGED <<clock, status, stay_room, assigned, issued, active, revoked, lapsing>>

(* issue_for_stay: the stay is read here, for a row inserted later. *)
Issue(t) ==
  LET w == EffectiveWindow(job[t].stay, job[t].now)
      refused == w.valid_until <= w.valid_from
  IN  /\ pc[t] = "issue"
      /\ pc' = [pc EXCEPT ![t] = IF refused THEN "idle" ELSE "add"]
      /\ job' = [job EXCEPT ![t] = IF refused THEN NoJob
                                   ELSE [@ EXCEPT !.room = stay_room[job[t].stay]]]
      /\ UNCHANGED <<clock, status, stay_room, assigned, issued, active, revoked, lapsing>>

(* Mutated form of AddKey: the row is inserted without active = 1. *)
AddInactiveKey(t, k) ==
  LET w == EffectiveWindow(job[t].stay, job[t].now)
  IN  /\ pc[t] = "add" /\ issued[k] = NoKey
      /\ issued' = [issued EXCEPT ![k] =
           [stay |-> job[t].stay, room |-> job[t].room, issued_at |-> job[t].now,
            valid_from |-> w.valid_from, valid_until |-> w.valid_until]]
      /\ Done(t)
      /\ UNCHANGED <<clock, status, stay_room, assigned, active, revoked, lapsing>>

(* add_key. *)
AddKey(t, k) ==
  LET w == EffectiveWindow(job[t].stay, job[t].now)
  IN  /\ pc[t] = "add" /\ issued[k] = NoKey
      /\ issued' = [issued EXCEPT ![k] =
           [stay |-> job[t].stay, room |-> job[t].room, issued_at |-> job[t].now,
            valid_from |-> w.valid_from, valid_until |-> w.valid_until]]
      /\ active' = active \cup {k}
      /\ Done(t)
      /\ UNCHANGED <<clock, status, stay_room, assigned, revoked, lapsing>>

(* A handler dies between two statements: the process is killed, or a      *)
(* statement gives up waiting for the write lock.                          *)
Abort(t) ==
  /\ t \in Mortal /\ pc[t] # "idle"
  /\ Done(t)
  /\ UNCHANGED <<clock, status, stay_room, assigned, issued, active, revoked, lapsing>>

Step(t) ==
  \/ Supersede(t) \/ SelectKeys(t) \/ DeactivateKeys(t)
  \/ \E k \in KeyId : RevokeKey(t, k)
  \/ AllRevoked(t) \/ FreeRoom(t) \/ Leave(t)
  \/ \E room \in RoomId : Move(t, room)
  \/ MoveFails(t) \/ Issue(t)
  \/ \E k \in KeyId : AddKey(t, k)

Request(t, s) == \/ Checkin(t, s) \/ Refresh(t, s) \/ Checkout(t, s)
                 \/ \E now \in {clock} \cup Override : ChangeRoom(t, s, now)

Next == \/ Tick
        \/ \E t \in Thread : Step(t) \/ Abort(t) \/ \E s \in StayId : Request(t, s)

(* Fairness: a handler at work goes on to its next statement. *)
Spec == Init /\ [][Next]_vars /\ \A t \in Thread : WF_vars(Step(t))

-----------------------------------------------------------------------------
(* A revoked key is never active: keys are deactivated before they are     *)
(* revoked and none comes back, whatever runs in between                   *)
(* (deactivate_keys_for_stay before revoke_key).                           *)
RevokedNotActive == revoked \cap active = {}

(* A key opens doors only within its stay: from check-in, not past         *)
(* check-out, nor past the TTL after its issue (effective_window).         *)
KeysWithinStay ==
  \A k \in KeyId : issued[k] # NoKey =>
    LET row == issued[k]
    IN  /\ row.valid_from = Window[row.stay].check_in
        /\ row.valid_from < row.valid_until
        /\ row.valid_until <= Window[row.stay].check_out
        /\ row.valid_until <= row.issued_at + KeyTTL

(* A key goes out of use in one of two ways: a refresh supersedes it, or   *)
(* it is revoked by the checkout or room change that deactivated it        *)
(* (lifecycle.py, "revoke every active key for the stay").                 *)
NoKeyForgotten ==
  \A k \in KeyId : issued[k] # NoKey /\ k \notin active =>
    \/ k \in revoked \cup lapsing
    \/ \E t \in Thread : k \in job[t].keys

(* An active key is for the room its stay has now: a room change leaves no *)
(* active key of the old room behind (change_room revokes before it moves).*)
ActiveKeyMatchesRoom == \A k \in active : issued[k].room = stay_room[issued[k].stay]

(* A stay that has checked out has no active key and holds no room         *)
(* (lifecycle.py, checkout: "revoke every active key for the stay and free *)
(* the room").                                                             *)
CheckedOutIsOut ==
  \A s \in StayId : status[s] = "checked_out" =>
    ActiveKeysOf(s) = {} /\ assigned[s] = NoRoom

(* A checkout that has begun and does not die ends with the stay checked   *)
(* out, however many keys it has to revoke, whatever else is going on and  *)
(* whichever other handlers die on the way (checkout).                     *)
CheckoutCompletes ==
  \A t \in Thread \ Mortal, s \in StayId :
    pc[t] # "idle" /\ job[t].op = "checkout" /\ job[t].stay = s
      ~> status[s] = "checked_out"

(* Every key that a checkout or a room change has found active ends on the *)
(* revocation list unless that handler dies, whatever happens to the key   *)
(* meanwhile (the loops over deactivate_keys_for_stay's result).           *)
SelectedKeysRevoked ==
  \A t \in Thread \ Mortal, k \in KeyId : k \in job[t].keys ~> k \in revoked

(* No key of a checked-out stay opens a door any more (README.md,          *)
(* POST /checkout: "revoke the stay's key(s)").                            *)
CheckoutRevokesKeys ==
  \A s \in StayId : status[s] = "checked_out" =>
    \A k \in KeysOf(s) : k \in revoked \/ clock > issued[k].valid_until

IssuesAssigned(t) ==
  Issue(t) /\ pc'[t] = "add" => assigned[job[t].stay] = job'[t].room

(* A key is issued "for a stay's currently assigned room" (keys.py,        *)
(* issue_for_stay).                                                        *)
IssuesForAssignedRoom == [][\A t \in Thread : IssuesAssigned(t)]_vars

GivesToPresent(t) ==
  /\ (\E k \in KeyId : AddKey(t, k)) \/ (\E room \in RoomId : Move(t, room))
  /\ job[t].op \in {"refresh", "change"}
  => status[job[t].stay] # "checked_out"

(* A refresh or a room change gives no key and no room to a stay that has  *)
(* checked out: both raise "stay already checked out" (lifecycle.py,       *)
(* refresh_key and change_room).                                           *)
CheckedOutGetsNothing == [][\A t \in Thread : GivesToPresent(t)]_vars
=============================================================================
