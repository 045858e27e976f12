------------------------------- MODULE StayKey -------------------------------
(***************************************************************************)
(* The service as its clients meet it, one request at a time: the          *)
(* lifecycle handlers of module Lifecycle, the lock syncs they end with    *)
(* (api.py, app_state.py), and the connected-room authorizer               *)
(* (staykey/connectedroom.py), over the same tables.                       *)
(*                                                                         *)
(* Of the assignments table this adds which row is newer, for that is what *)
(* the authorizer goes by.  Of a door lock it keeps the revocation         *)
(* snapshot; modules LockVerifier and AppState have the rest.              *)
(***************************************************************************)
EXTENDS Lifecycle, Credential, Sequences

CONSTANTS PropertyPub, AppProperty,
          Command,         \* commands a request may name
          AllowedDevices,  \* config.ALLOWED_DEVICES
          Device,          \* who may sign a response; a key's device has the key's name
          Nonce, NonceTTL, \* what os.urandom returns, config.CHALLENGE_TTL_SECONDS
          NoLock           \* no lock has been built for a room

Nonces == INSTANCE AntiReplay WITH Challenge <- Nonce, ChallengeTTL <- NonceTTL

ASSUME StayKeyAssumption ==
  /\ AllowedDevices \subseteq Command /\ NonceTTL \in Nat
  /\ \A x, y \in StayId : x # y /\ Reserved[x] = Reserved[y] => ~Overlap(x, y)

VARIABLES newer,     \* [StayId -> the stays whose assignment row is newer]
          snapshot,  \* [RoomId -> the lock's revocation snapshot]
          due,       \* the rooms a handler has still to sync when it is through
          controls,  \* the authorizer's challenge store
          asked,     \* history: the nonces begin_command has returned
          applied,   \* history: commands applied on each nonce
          refused,   \* history: stays, checked in, whose last request for a key was refused
          skipped    \* history: rooms a failed handler left with an old snapshot

lifecycle == vars
front == <<newer, snapshot, due, controls, asked, applied, refused, skipped>>
all == <<lifecycle, front>>

StayKeyTypeOK ==
  /\ TypeOK
  /\ newer \in [StayId -> SUBSET StayId]
  /\ snapshot \in [RoomId -> (SUBSET KeyId) \cup {NoLock}]
  /\ due \in [Thread -> Seq(RoomId)]
  /\ controls \in Nonces!ChallengeStore
  /\ asked \subseteq Nonce
  /\ applied \in [Nonce -> Nat]
  /\ refused \subseteq StayId /\ skipped \subseteq RoomId

(* The rooms were booked in some order. *)
StayKeyInit ==
  /\ Init
  /\ newer \in {f \in [StayId -> SUBSET StayId] :
                  \A x, y \in StayId : x \in f[y] <=> x # y /\ y \notin f[x]}
  /\ snapshot = [r \in RoomId |-> NoLock]
  /\ due = [t \in Thread |-> <<>>]
  /\ controls = Nonces!NewStore
  /\ asked = {} /\ applied = [n \in Nonce |-> 0]
  /\ refused = {} /\ skipped = {}

-----------------------------------------------------------------------------
(* A credential as the phone of its guest presents it. *)
TokenOf(k) ==
  CredentialOf(PropertyPub, k, issued[k].stay, AppProperty, {issued[k].room},
               issued[k].valid_from, issued[k].valid_until, k)

Known == {k \in KeyId : issued[k] # NoKey}
StaticCheck(k, room, now) ==
  EvaluateStatic(TokenOf(k), PropertyPub, AppProperty, room, now, revoked)

(* active_assignment_for_room: ORDER BY id DESC LIMIT 1. *)
ActiveAssignment(room) ==
  {s \in StayId : assigned[s] = room /\ \A x \in newer[s] : assigned[x] # room}

(* Mutated form of ActiveStay: the stay is not looked up. *)
AnyStay(k, room) == TRUE

(* authorize, step 2: the credential's stay is the room's active one. *)
ActiveStay(k, room) ==
  LET s == issued[k].stay
  IN  ActiveAssignment(room) = {s} /\ status[s] = "checked_in" /\ stay_room[s] = room

(* authorize up to the challenge: what key k may do in a room at time now. *)
MayControl(k, room, now) ==
  ActiveStay(k, room) /\ StaticCheck(k, room, now) = "pass"

-----------------------------------------------------------------------------
(* No request is under way. *)
Quiet == \A t \in Thread : pc[t] = "idle" /\ due[t] = <<>>
Rooms(seq) == {seq[i] : i \in DOMAIN seq}

(* The handlers begin: checkout and room_change note the room they will    *)
(* sync first.                                                             *)
HandleRequest(t, s) ==
  /\ Quiet
  /\ \/ (Checkin(t, s) \/ Refresh(t, s)) /\ UNCHANGED due
     \/ /\ Checkout(t, s) \/ \E now \in {clock} \cup Override : ChangeRoom(t, s, now)
        /\ due' = [due EXCEPT ![t] = <<stay_room[s]>>]
  /\ UNCHANGED <<newer, snapshot, controls, asked, applied, refused, skipped>>

(* Statements that touch nothing else here. *)
HandlerStep(t) ==
  /\ \/ Supersede(t) \/ SelectKeys(t) \/ DeactivateKeys(t) \/ AllRevoked(t)
     \/ FreeRoom(t) \/ Leave(t) \/ \E k \in KeyId : RevokeKey(t, k)
  /\ UNCHANGED front

(* change_room inserts a row, the newest, and has two locks to sync. *)
HandlerMoves(t, room) ==
  LET s == job[t].stay
  IN  /\ Move(t, room)
      /\ newer' = [x \in StayId |-> IF x = s THEN {} ELSE newer[x] \cup {s}]
      /\ due' = [due EXCEPT ![t] = Append(@, room)]
      /\ UNCHANGED <<snapshot, controls, asked, applied, refused, skipped>>

(* An exception leaves a handler before its syncs. *)
Raise(t) ==
  /\ due' = [due EXCEPT ![t] = <<>>]
  /\ refused' = refused \cup {s \in {job[t].stay} : status[s] = "checked_in"}
  /\ skipped' = skipped \cup {room \in Rooms(due[t]) : snapshot[room] \notin {NoLock, revoked}}
  /\ UNCHANGED <<newer, snapshot, controls, asked, applied>>

(* Mutated form of HandlerCannotMove: the handler goes on without a room. *)
SyncsNoRoom(t) ==
  /\ MoveFails(t)
  /\ due' = [due EXCEPT ![t] = Append(@, NoRoom)]
  /\ UNCHANGED <<newer, snapshot, controls, asked, applied, refused, skipped>>

HandlerCannotMove(t) == MoveFails(t) /\ Raise(t)

HandlerIssues(t) ==
  /\ Issue(t)
  /\ IF pc'[t] = "idle" THEN Raise(t) ELSE UNCHANGED front

HandlerAddsKey(t, k) ==
  /\ AddKey(t, k)
  /\ refused' = refused \ {job[t].stay}
  /\ UNCHANGED <<newer, snapshot, due, controls, asked, applied, skipped>>

(* Mutated form of SyncLock: only the last room is synced. *)
SyncLast(t) ==
  /\ pc[t] = "idle" /\ due[t] # <<>>
  /\ snapshot' = [snapshot EXCEPT ![due[t][Len(due[t])]] = revoked]
  /\ due' = [due EXCEPT ![t] = <<>>]
  /\ skipped' = skipped \ {due[t][Len(due[t])]}
  /\ UNCHANGED <<lifecycle, newer, controls, asked, applied, refused>>

(* sync_lock at the end of checkout and room_change: the lock is built if  *)
(* need be, and has the list of this moment.                               *)
SyncLock(t) ==
  /\ pc[t] = "idle" /\ due[t] # <<>>
  /\ snapshot' = [snapshot EXCEPT ![Head(due[t])] = revoked]
  /\ due' = [due EXCEPT ![t] = Tail(@)]
  /\ skipped' = skipped \ {Head(due[t])}
  /\ UNCHANGED <<lifecycle, newer, controls, asked, applied, refused>>

(* POST /lock/{room}/challenge builds the lock of a room that has none;    *)
(* POST /lock/{room}/unlock syncs it first, whatever comes of the unlock.  *)
LockChallenge(room) ==
  /\ Quiet /\ snapshot[room] = NoLock
  /\ snapshot' = [snapshot EXCEPT ![room] = revoked]
  /\ UNCHANGED <<lifecycle, newer, due, controls, asked, applied, refused, skipped>>

LockUnlock(room) ==
  /\ Quiet
  /\ snapshot' = [snapshot EXCEPT ![room] = revoked]
  /\ skipped' = skipped \ {room}
  /\ UNCHANGED <<lifecycle, newer, due, controls, asked, applied, refused>>

(* begin_command. *)
BeginCommand(n) ==
  /\ Quiet /\ n \notin asked
  /\ controls' = Nonces!Issue(controls, n, clock)
  /\ asked' = asked \cup {n}
  /\ UNCHANGED <<lifecycle, newer, snapshot, due, applied, refused, skipped>>

(* Mutated form of Authorize: the challenge is not consumed. *)
AuthorizeUnconsumed(command, k, room, n, device, now) ==
  /\ Quiet /\ k \in Known
  /\ command \in AllowedDevices
  /\ MayControl(k, room, now)
  /\ Nonces!Check(controls, n, now) = "ok"
  /\ VerifyDeviceResponse(TokenOf(k).device_pub, n, DeviceSign(device, n))
  /\ applied' = [applied EXCEPT ![n] = @ + 1]
  /\ UNCHANGED <<lifecycle, newer, snapshot, due, controls, asked, refused, skipped>>

(* authorize, every check passed; each of its denials changes nothing.  A  *)
(* phone answers only a challenge it has been sent.                        *)
Authorize(command, k, room, n, device, now) ==
  /\ Quiet /\ k \in Known
  /\ command \in AllowedDevices
  /\ MayControl(k, room, now)
  /\ Nonces!Check(controls, n, now) = "ok"
  /\ VerifyDeviceResponse(TokenOf(k).device_pub, n, DeviceSign(device, n))
  /\ controls' = Nonces!Consume(controls, n, now)
  /\ applied' = [applied EXCEPT ![n] = @ + 1]
  /\ UNCHANGED <<lifecycle, newer, snapshot, due, asked, refused, skipped>>

(* Time passes between requests; within one, only its start counts. *)
Wait == Quiet /\ Tick /\ UNCHANGED front

StayKeyNext ==
  \/ Wait
  \/ \E t \in Thread :
       \/ \E s \in StayId : HandleRequest(t, s)
       \/ HandlerStep(t) \/ HandlerCannotMove(t) \/ HandlerIssues(t) \/ SyncLock(t)
       \/ \E room \in RoomId : HandlerMoves(t, room)
       \/ \E k \in KeyId : HandlerAddsKey(t, k)
  \/ \E room \in RoomId : LockChallenge(room) \/ LockUnlock(room)
  \/ \E n \in Nonce : BeginCommand(n)
  \/ \E command \in Command, k \in KeyId, room \in RoomId, n \in Nonce, device \in Device,
        now \in {clock} \cup Override : Authorize(command, k, room, n, device, now)

StayKeySpec == StayKeyInit /\ [][StayKeyNext]_all

-----------------------------------------------------------------------------
Times == 0..(MaxTime + KeyTTL)

(* Between requests every lock that has been built knows the revocations   *)
(* of its room's keys, unless the handler that revoked them failed before  *)
(* its sync (checkout "-> sync to lock", README.md; room_change syncs the  *)
(* old and the new room).                                                  *)
RevocationsSynced ==
  Quiet => \A k \in revoked : LET room == issued[k].room
                              IN  \/ snapshot[room] = NoLock \/ room \in skipped
                                  \/ k \in snapshot[room]

(* Two guests who hold the same room never both have a key to its door, a  *)
(* superseded one included, but for the one moment at which one stay ends  *)
(* and the other begins: stays are half-open, keys are valid through       *)
(* valid_until (reservation.py, keys.py and credential.py together).       *)
NeighboursOnlyTouch ==
  \A j, k \in Known :
    LET x == issued[j].stay
        y == issued[k].stay
        room == assigned[x]
    IN  x # y /\ room # NoRoom /\ assigned[y] = room =>
          \A now \in Times :
            StaticCheck(j, room, now) = "pass" /\ StaticCheck(k, room, now) = "pass" =>
              \/ now = Window[x].check_out /\ now = Window[y].check_in
              \/ now = Window[y].check_out /\ now = Window[x].check_in

(* Whoever may control a room's devices holds that room, and nobody else's *)
(* stay in it covers that moment, except at the very end of their own:     *)
(* a key of a stay that does not hold the room is no way in, active,       *)
(* superseded or left over ("0 cross-scope command acceptance",            *)
(* connectedroom.py).                                                      *)
ControlByOccupant ==
  \A k \in Known, room \in RoomId, now \in Times :
    MayControl(k, room, now) =>
      LET s == issued[k].stay
      IN  /\ assigned[s] = room
          /\ \A x \in StayId \ {s} : assigned[x] = room =>
               \/ now < Window[x].check_in \/ now >= Window[x].check_out
               \/ now = Window[s].check_out

(* A guest who has checked in has an active key, unless the last request   *)
(* for one was refused: no successful request, however it is followed,     *)
(* leaves a guest without (change_room revokes before it knows that there  *)
(* is a room to move to).                                                  *)
KeylessOnlyAfterRefusal ==
  Quiet => \A s \in StayId :
    status[s] = "checked_in" /\ ActiveKeysOf(s) = {} => s \in refused

(* The guest who has checked in, holds the room and has a valid key is     *)
(* recognised: the authorizer "consults the DB for the room's current      *)
(* active assignment" (connectedroom.py).                                  *)
OccupantMayControl ==
  Quiet => \A k \in active : LET s == issued[k].stay IN
    /\ status[s] = "checked_in" /\ assigned[s] = issued[k].room
    /\ issued[k].valid_from <= clock /\ clock < issued[k].valid_until
    => MayControl(k, assigned[s], clock)

CommandPass == INSTANCE OneTimePass
  WITH Challenge <- Nonce, sent <- asked,
       live <- {n \in Nonce : controls.pending[n] # Nonces!Absent}, uses <- applied

(* To guests who send one request at a time the authorizer's challenges    *)
(* are one-time passes: whatever happens to rooms, stays and keys in       *)
(* between, each is good for one command at most and none that was used or *)
(* dropped becomes good again (begin_command and authorize on one          *)
(* challenge store).  Two answers at the same moment may both get through: *)
(* authorize checks and consumes in two calls, like the lock's             *)
(* finish_unlock (AppState, UsableOnce).                                   *)
ImplementsCommandPass == CommandPass!Spec
=============================================================================
