---------------------------- MODULE StayKeyProofs ----------------------------
(***************************************************************************)
(* What the service promises its guests, one request at a time, for every  *)
(* set of stays, rooms, keys and nonces: the lifecycle's own invariants    *)
(* carry over, and with them the locks' snapshots, the sharing of rooms    *)
(* over time and the connected-room authorizer.                            *)
(***************************************************************************)
EXTENDS StayKey, LifecycleAloneProofs, SequenceTheorems

(* Stays that hold the same room do not overlap. *)
RoomsShared ==
  \A x, y \in StayId : x # y /\ assigned[x] # NoRoom /\ assigned[x] = assigned[y] =>
    ~Overlap(x, y)

(* A guest without a key has been refused one, or a request is seeing to   *)
(* it.                                                                     *)
Keyed ==
  \A s \in StayId : status[s] = "checked_in" /\ ActiveKeysOf(s) = {} =>
    s \in refused \/ \E t \in Thread : pc[t] # "idle" /\ job[t].stay = s

(* A handler that revokes keys will sync the lock of the room they open.   *)
WillSync(t) ==
  /\ pc[t] \in {"select", "deactivate", "revoke", "free", "leave", "move"} =>
       stay_room[job[t].stay] \in Rooms(due[t])
  /\ \A k \in job[t].keys : issued[k].room \in Rooms(due[t])

(* A lock misses a revocation only while a sync is still due, or after it  *)
(* has been skipped.                                                       *)
Informed ==
  \A k \in revoked :
    LET room == issued[k].room
    IN  \/ snapshot[room] = NoLock \/ room \in skipped
        \/ k \in snapshot[room]
        \/ \E t \in Thread : room \in Rooms(due[t])

SInv == /\ StayKeyTypeOK /\ IInv /\ AInv
        /\ RoomsShared
        /\ Keyed
        /\ \A t \in Thread : WillSync(t)
        /\ Informed

-----------------------------------------------------------------------------
(* The rooms in a queue of syncs. *)
LEMMA RoomsFacts ==
  /\ Rooms(<<>>) = {}
  /\ \A room \in RoomId : <<room>> \in Seq(RoomId) /\ Rooms(<<room>>) = {room}
  /\ \A seq \in Seq(RoomId), room \in RoomId :
       Append(seq, room) \in Seq(RoomId) /\ Rooms(Append(seq, room)) = Rooms(seq) \cup {room}
  /\ \A seq \in Seq(RoomId) : seq # <<>> =>
       /\ Head(seq) \in RoomId /\ Tail(seq) \in Seq(RoomId)
       /\ Rooms(seq) = {Head(seq)} \cup Rooms(Tail(seq))
<1>1. Rooms(<<>>) = {}
  BY DEF Rooms
<1>2. ASSUME NEW room \in RoomId PROVE <<room>> \in Seq(RoomId) /\ Rooms(<<room>>) = {room}
  BY <1>2 DEF Rooms
<1>3. ASSUME NEW seq \in Seq(RoomId), NEW room \in RoomId
      PROVE  /\ Append(seq, room) \in Seq(RoomId)
             /\ Rooms(Append(seq, room)) = Rooms(seq) \cup {room}
  <2>1. /\ Append(seq, room) \in Seq(RoomId) /\ Len(Append(seq, room)) = Len(seq) + 1
        /\ \A i \in 1..Len(seq) : Append(seq, room)[i] = seq[i]
        /\ Append(seq, room)[Len(seq) + 1] = room
    BY <1>3, AppendProperties
  <2>2. /\ DOMAIN seq = 1..Len(seq) /\ Len(seq) \in Nat
        /\ DOMAIN Append(seq, room) = 1..(Len(seq) + 1)
    BY <2>1, LenProperties
  <2> QED  BY <2>1, <2>2 DEF Rooms
<1>4. ASSUME NEW seq \in Seq(RoomId), seq # <<>>
      PROVE  /\ Head(seq) \in RoomId /\ Tail(seq) \in Seq(RoomId)
             /\ Rooms(seq) = {Head(seq)} \cup Rooms(Tail(seq))
  <2>1. /\ Head(seq) \in RoomId /\ Tail(seq) \in Seq(RoomId) /\ Len(Tail(seq)) = Len(seq) - 1
        /\ \A i \in 1..Len(Tail(seq)) : Tail(seq)[i] = seq[i + 1]
    BY <1>4, HeadTailProperties
  <2>2. /\ DOMAIN seq = 1..Len(seq) /\ Len(seq) \in Nat \ {0} /\ Head(seq) = seq[1]
        /\ DOMAIN Tail(seq) = 1..(Len(seq) - 1)
    BY <1>4, <2>1, LenProperties, EmptySeq
  <2>3. ASSUME NEW room \in Rooms(seq) PROVE room \in {Head(seq)} \cup Rooms(Tail(seq))
    <3>1. PICK i \in 1..Len(seq) : seq[i] = room
      BY <2>2, <2>3 DEF Rooms
    <3>2. CASE i = 1
      BY <2>2, <3>1, <3>2
    <3>3. CASE i # 1
      <4>1. i - 1 \in 1..(Len(seq) - 1) /\ Tail(seq)[i - 1] = room
        BY <2>1, <2>2, <3>1, <3>3
      <4> QED  BY <2>2, <4>1 DEF Rooms
    <3> QED  BY <3>2, <3>3
  <2>4. ASSUME NEW room \in {Head(seq)} \cup Rooms(Tail(seq)) PROVE room \in Rooms(seq)
    <3>1. CASE room = Head(seq)
      BY <2>2, <3>1 DEF Rooms
    <3>2. CASE room \in Rooms(Tail(seq))
      <4>1. PICK i \in 1..(Len(seq) - 1) : Tail(seq)[i] = room
        BY <2>2, <3>2 DEF Rooms
      <4>2. i + 1 \in 1..Len(seq) /\ seq[i + 1] = room
        BY <2>1, <2>2, <4>1
      <4> QED  BY <2>2, <4>2 DEF Rooms
    <3> QED  BY <2>4, <3>1, <3>2
  <2> QED  BY <2>1, <2>3, <2>4
<1> QED  BY <1>1, <1>2, <1>3, <1>4

(* What the methods of the authorizer's challenge store do to its entries. *)
LEMMA NonceEntries ==
  ASSUME NEW store \in Nonces!ChallengeStore, NEW n \in Nonce, NEW now \in Nat
  PROVE  /\ Nonces!Issue(store, n, now) \in Nonces!ChallengeStore
         /\ Nonces!Issue(store, n, now).pending[n] # Nonces!Absent
         /\ \A m \in Nonce \ {n} :
              Nonces!Issue(store, n, now).pending[m] \in {store.pending[m], Nonces!Absent}
         /\ Nonces!Consume(store, n, now) \in Nonces!ChallengeStore
         /\ Nonces!Consume(store, n, now).pending[n] = Nonces!Absent
         /\ \A m \in Nonce \ {n} :
              Nonces!Consume(store, n, now).pending[m] = store.pending[m]
<1>1. Nonces!Issue(store, n, now).pending[n] = now
  BY DEF Nonces!Issue, Nonces!Gc, Nonces!NoOlderThan
<1>2. /\ Nonces!Issue(store, n, now) \in Nonces!ChallengeStore
      /\ \A m \in Nonce \ {n} :
           Nonces!Issue(store, n, now).pending[m] \in {store.pending[m], Nonces!Absent}
  BY DEF Nonces!Issue, Nonces!Gc, Nonces!NoOlderThan, Nonces!ChallengeStore, Nonces!Stamp,
         Nonces!Absent
<1>3. /\ Nonces!Consume(store, n, now) \in Nonces!ChallengeStore
      /\ Nonces!Consume(store, n, now).pending[n] = Nonces!Absent
      /\ \A m \in Nonce \ {n} : Nonces!Consume(store, n, now).pending[m] = store.pending[m]
  BY DEF Nonces!Consume, Nonces!ChallengeStore, Nonces!Stamp, Nonces!Absent
<1>4. now # Nonces!Absent
  BY DEF Nonces!Absent
<1> QED  BY <1>1, <1>2, <1>3, <1>4

(* The service's steps are steps of handlers that come one by one. *)
LEMMA StepsServe == StayKeyNext => [Serving]_vars
<1> SUFFICES ASSUME StayKeyNext PROVE Serving \/ UNCHANGED vars
  OBVIOUS
<1>1. ASSUME NEW t \in Thread, NEW s \in StayId, HandleRequest(t, s) PROVE Serving
  BY <1>1 DEF HandleRequest, Quiet, Serving, Request
<1>2. CASE Wait
  BY <1>2 DEF Wait, Serving
<1>3. ASSUME NEW t \in Thread, HandlerStep(t) \/ HandlerCannotMove(t) \/ HandlerIssues(t)
      PROVE  Serving
  BY <1>3 DEF HandlerStep, HandlerCannotMove, HandlerIssues, Serving, Step
<1>4. ASSUME NEW t \in Thread, NEW room \in RoomId, HandlerMoves(t, room) PROVE Serving
  BY <1>4 DEF HandlerMoves, Serving, Step
<1>5. ASSUME NEW t \in Thread, NEW k \in KeyId, HandlerAddsKey(t, k) PROVE Serving
  BY <1>5 DEF HandlerAddsKey, Serving, Step
<1>6. CASE UNCHANGED lifecycle
  BY <1>6 DEF lifecycle
<1> QED  BY <1>1, <1>2, <1>3, <1>4, <1>5, <1>6
         DEF StayKeyNext, SyncLock, LockChallenge, LockUnlock, BeginCommand, Authorize

LEMMA InitSInv == StayKeyInit => SInv
<1> SUFFICES ASSUME StayKeyInit PROVE SInv
  OBVIOUS
<1>1. Init /\ IInv /\ AInv
  BY InitIInv, InitAInv DEF StayKeyInit
<1>2. StayKeyTypeOK
  <2>1. TypeOK
    BY <1>1 DEF IInv
  <2>2. controls \in Nonces!ChallengeStore
    BY DEF StayKeyInit, Nonces!NewStore, Nonces!ChallengeStore, Nonces!Stamp, Nonces!Absent
  <2>3. due \in [Thread -> Seq(RoomId)]
    BY EmptySeq DEF StayKeyInit
  <2> QED  BY <2>1, <2>2, <2>3 DEF StayKeyInit, StayKeyTypeOK
<1>3. RoomsShared
  BY <1>1, StayKeyAssumption DEF Init, RoomsShared
<1>4. Keyed /\ Informed
  BY <1>1 DEF Init, Keyed, Informed
<1>5. \A t \in Thread : WillSync(t)
  BY <1>1 DEF Init, WillSync, NoJob
<1> QED  BY <1>1, <1>2, <1>3, <1>4, <1>5 DEF SInv

(* The lifecycle's invariants carry over. *)
LEMMA LifecycleKept == SInv /\ [StayKeyNext]_all => IInv' /\ AInv'
<1> SUFFICES ASSUME SInv, [StayKeyNext]_all PROVE IInv' /\ AInv'
  OBVIOUS
<1>1. [Serving]_vars
  BY StepsServe DEF all, lifecycle
<1> QED  BY <1>1, ServingIsNext, IInvInductive, AInvInductive DEF SInv

LEMMA FrontTypeInductive == SInv /\ [StayKeyNext]_all => StayKeyTypeOK'
<1> SUFFICES ASSUME SInv, [StayKeyNext]_all PROVE StayKeyTypeOK'
  OBVIOUS
<1>0. StayKeyTypeOK /\ TypeOK
  BY DEF SInv, StayKeyTypeOK
<1>1. TypeOK'
  BY LifecycleKept DEF IInv
<1>2. due' \in [Thread -> Seq(RoomId)]
  <2>0. due \in [Thread -> Seq(RoomId)] /\ stay_room \in [StayId -> RoomId]
    BY <1>0 DEF StayKeyTypeOK, TypeOK
  <2>1. ASSUME NEW t \in Thread, NEW seq \in Seq(RoomId), due' = [due EXCEPT ![t] = seq]
        PROVE  due' \in [Thread -> Seq(RoomId)]
    BY <2>0, <2>1
  <2>2. ASSUME NEW t \in Thread, NEW s \in StayId, HandleRequest(t, s)
        PROVE  due' \in [Thread -> Seq(RoomId)]
    <3>1. <<stay_room[s]>> \in Seq(RoomId)
      BY <2>0, RoomsFacts
    <3> QED  BY <2>0, <2>1, <2>2, <3>1 DEF HandleRequest
  <2>3. ASSUME NEW t \in Thread, NEW room \in RoomId, HandlerMoves(t, room)
        PROVE  due' \in [Thread -> Seq(RoomId)]
    <3>1. Append(due[t], room) \in Seq(RoomId)
      BY <2>0, RoomsFacts
    <3> QED  BY <2>1, <2>3, <3>1 DEF HandlerMoves
  <2>4. ASSUME NEW t \in Thread, Raise(t) PROVE due' \in [Thread -> Seq(RoomId)]
    <3>1. <<>> \in Seq(RoomId)
      BY EmptySeq
    <3> QED  BY <2>1, <2>4, <3>1 DEF Raise
  <2>5. ASSUME NEW t \in Thread, SyncLock(t) PROVE due' \in [Thread -> Seq(RoomId)]
    <3>1. Tail(due[t]) \in Seq(RoomId)
      BY <2>0, <2>5, RoomsFacts DEF SyncLock
    <3> QED  BY <2>1, <2>5, <3>1 DEF SyncLock
  <2>6. CASE UNCHANGED due
    BY <2>0, <2>6
  <2> QED  BY <2>2, <2>3, <2>4, <2>5, <2>6
           DEF StayKeyNext, Wait, HandlerStep, HandlerCannotMove, HandlerIssues, HandlerAddsKey,
               LockChallenge, LockUnlock, BeginCommand, Authorize, all, front
<1>3. newer' \in [StayId -> SUBSET StayId]
  <2>0. newer \in [StayId -> SUBSET StayId]
    BY <1>0 DEF StayKeyTypeOK
  <2>1. ASSUME NEW t \in Thread, NEW room \in RoomId, HandlerMoves(t, room)
        PROVE  newer' \in [StayId -> SUBSET StayId]
    <3>1. job[t].stay \in StayId
      BY <2>1 DEF SInv, IInv, AtWork, HandlerMoves, Move, Job
    <3> QED  BY <2>0, <2>1, <3>1 DEF HandlerMoves
  <2>2. CASE UNCHANGED newer
    BY <2>0, <2>2
  <2> QED  BY <2>1, <2>2
           DEF StayKeyNext, Wait, HandleRequest, HandlerStep, HandlerCannotMove, HandlerIssues,
               HandlerAddsKey, SyncLock, LockChallenge, LockUnlock, BeginCommand, Authorize,
               Raise, all, front
<1>4. /\ snapshot' \in [RoomId -> (SUBSET KeyId) \cup {NoLock}] /\ skipped' \subseteq RoomId
  <2>0. /\ snapshot \in [RoomId -> (SUBSET KeyId) \cup {NoLock}] /\ skipped \subseteq RoomId
        /\ revoked \in SUBSET KeyId /\ due \in [Thread -> Seq(RoomId)]
    BY <1>0 DEF StayKeyTypeOK, TypeOK
  <2>1. ASSUME NEW t \in Thread, SyncLock(t)
        PROVE  snapshot' \in [RoomId -> (SUBSET KeyId) \cup {NoLock}] /\ skipped' \subseteq RoomId
    <3>1. Head(due[t]) \in RoomId
      BY <2>0, <2>1, RoomsFacts DEF SyncLock
    <3> QED  BY <2>0, <2>1, <3>1 DEF SyncLock
  <2>2. ASSUME NEW t \in Thread, Raise(t)
        PROVE  snapshot' = snapshot /\ skipped' \subseteq RoomId
    <3>1. Rooms(due[t]) \subseteq RoomId
      BY <2>0, LenProperties DEF Rooms
    <3> QED  BY <2>0, <2>2, <3>1 DEF Raise
  <2>3. ASSUME NEW room \in RoomId, LockChallenge(room) \/ LockUnlock(room)
        PROVE  snapshot' \in [RoomId -> (SUBSET KeyId) \cup {NoLock}] /\ skipped' \subseteq RoomId
    BY <2>0, <2>3 DEF LockChallenge, LockUnlock
  <2>4. CASE UNCHANGED <<snapshot, skipped>>
    BY <2>0, <2>4
  <2> QED  BY <2>0, <2>1, <2>2, <2>3, <2>4
           DEF StayKeyNext, Wait, HandleRequest, HandlerStep, HandlerMoves, HandlerCannotMove,
               HandlerIssues, HandlerAddsKey, BeginCommand, Authorize, all, front
<1>5. controls' \in Nonces!ChallengeStore /\ asked' \subseteq Nonce /\ applied' \in [Nonce -> Nat]
  <2>0. /\ controls \in Nonces!ChallengeStore /\ asked \subseteq Nonce /\ applied \in [Nonce -> Nat]
        /\ clock \in Nat /\ \A now \in {clock} \cup Override : now \in Nat
    BY <1>0, LifecycleAssumption DEF StayKeyTypeOK, TypeOK
  <2>1. ASSUME NEW n \in Nonce, BeginCommand(n)
        PROVE  /\ controls' \in Nonces!ChallengeStore /\ asked' \subseteq Nonce
               /\ applied' \in [Nonce -> Nat]
    BY <2>0, <2>1, NonceEntries DEF BeginCommand
  <2>2. ASSUME NEW command \in Command, NEW k \in KeyId, NEW room \in RoomId, NEW n \in Nonce,
               NEW device \in Device, NEW now \in {clock} \cup Override,
               Authorize(command, k, room, n, device, now)
        PROVE  /\ controls' \in Nonces!ChallengeStore /\ asked' \subseteq Nonce
               /\ applied' \in [Nonce -> Nat]
    <3>1. now \in Nat
      BY <2>0
    <3>2. controls' = Nonces!Consume(controls, n, now)
      BY <2>2 DEF Authorize
    <3>3. controls' \in Nonces!ChallengeStore
      BY <2>0, <3>1, <3>2, NonceEntries
    <3> QED  BY <2>0, <2>2, <3>3 DEF Authorize
  <2>3. CASE UNCHANGED <<controls, asked, applied>>
    BY <2>0, <2>3
  <2> QED  BY <2>1, <2>2, <2>3
           DEF StayKeyNext, Wait, HandleRequest, HandlerStep, HandlerMoves, HandlerCannotMove,
               HandlerIssues, HandlerAddsKey, SyncLock, LockChallenge, LockUnlock, Raise, all,
               front
<1>6. refused' \subseteq StayId
  <2>1. ASSUME NEW t \in Thread, Raise(t), pc[t] # "idle" PROVE refused' \subseteq StayId
    <3>1. job[t].stay \in StayId
      BY <2>1 DEF SInv, IInv, AtWork, Job
    <3> QED  BY <1>0, <2>1, <3>1 DEF Raise, StayKeyTypeOK
  <2>2. CASE refused' \subseteq refused
    BY <1>0, <2>2 DEF StayKeyTypeOK
  <2> QED  BY <2>1, <2>2
           DEF StayKeyNext, Wait, HandleRequest, HandlerStep, HandlerMoves, HandlerCannotMove,
               HandlerIssues, HandlerAddsKey, SyncLock, LockChallenge, LockUnlock, BeginCommand,
               Authorize, MoveFails, Issue, all, front
<1> QED  BY <1>1, <1>2, <1>3, <1>4, <1>5, <1>6 DEF StayKeyTypeOK

(* A stay moves only to a room that is free for its window. *)
LEMMA SharedInductive == SInv /\ [StayKeyNext]_all => RoomsShared'
<1> SUFFICES ASSUME SInv, [StayKeyNext]_all PROVE RoomsShared'
  OBVIOUS
<1>0. RoomsShared /\ assigned \in [StayId -> MaybeRoom]
  BY DEF SInv, IInv, TypeOK
<1>1. ASSUME NEW t \in Thread, NEW room \in RoomId, Move(t, room) PROVE RoomsShared'
  <2>1. \A x, y \in StayId : Overlap(x, y) = Overlap(y, x)
    BY DEF Overlap
  <2>2. /\ assigned' = [assigned EXCEPT ![job[t].stay] = room]
        /\ \A x \in StayId \ {job[t].stay} : assigned[x] = room => ~Overlap(x, job[t].stay)
    BY <1>1 DEF Move, FreeFor
  <2> QED  BY <1>0, <2>1, <2>2 DEF RoomsShared, Overlap
<1>2. ASSUME NEW t \in Thread, FreeRoom(t) PROVE RoomsShared'
  BY <1>0, <1>2 DEF FreeRoom, RoomsShared, Overlap
<1>3. CASE UNCHANGED assigned
  BY <1>0, <1>3 DEF RoomsShared, Overlap
<1> QED  BY <1>1, <1>2, <1>3, StepsServe
         DEF all, lifecycle, vars, Serving, Step, Request, Tick, Checkin, Refresh, Checkout,
             ChangeRoom, Supersede, SelectKeys, DeactivateKeys, RevokeKey, AllRevoked, Leave,
             MoveFails, Issue, AddKey

(* A handler deactivates only keys of its own stay. *)
LEMMA OthersKeyless ==
  ASSUME SInv, NEW t \in Thread, Step(t), NEW s \in StayId, s # job[t].stay,
         ActiveKeysOf(s)' = {}
  PROVE  ActiveKeysOf(s) = {} /\ status'[s] = status[s]
<1>0. IInv /\ AInv /\ TypeOK
  BY DEF SInv, IInv
<1>1. ASSUME NEW k \in ActiveKeysOf(s) PROVE FALSE
  <2>1. k \in KeyId /\ k \in active /\ issued[k] # NoKey /\ issued[k].stay = s
    BY <1>1 DEF ActiveKeysOf, KeysOf
  <2>2. issued'[k] = issued[k]
    BY <1>0, <2>1, RowsStay DEF Next
  <2>3. k \in active'
    BY <1>1, <2>1
       DEF Step, Supersede, SelectKeys, DeactivateKeys, RevokeKey, AllRevoked, FreeRoom, Leave,
           Move, MoveFails, Issue, AddKey, ActiveKeysOf, KeysOf
  <2> QED  BY <2>1, <2>2, <2>3 DEF ActiveKeysOf, KeysOf
<1>2. status'[s] = status[s]
  BY <1>0 DEF TypeOK, Step, Supersede, SelectKeys, DeactivateKeys, RevokeKey, AllRevoked,
              FreeRoom, Leave, Move, MoveFails, Issue, AddKey
<1> QED  BY <1>1, <1>2

(* A request for a key ends with the key, or is counted as refused. *)
LEMMA KeyedInductive == SInv /\ [StayKeyNext]_all => Keyed'
<1> SUFFICES ASSUME SInv, [StayKeyNext]_all, NEW s \in StayId,
                    status'[s] = "checked_in", ActiveKeysOf(s)' = {}
             PROVE  s \in refused' \/ \E u \in Thread : pc'[u] # "idle" /\ job'[u].stay = s
  BY DEF Keyed
<1>0. IInv /\ AInv /\ TypeOK /\ Keyed
  BY DEF SInv, IInv
<1>1. ASSUME NEW t \in Thread, Step(t), s # job[t].stay PROVE s \in refused
  <2>1. status[s] = "checked_in" /\ ActiveKeysOf(s) = {}
    BY <1>1, OthersKeyless
  <2>2. pc[t] # "idle" /\ \A u \in Thread : pc[u] # "idle" => u = t
    BY <1>0, <1>1, AtWorkFacts DEF AInv, Alone
  <2> QED  BY <1>0, <1>1, <2>1, <2>2 DEF Keyed
<1>2. ASSUME NEW t \in Thread, NEW r \in StayId, HandleRequest(t, r)
      PROVE  s \in refused' \/ \E u \in Thread : pc'[u] # "idle" /\ job'[u].stay = s
  <2>1. /\ UNCHANGED <<issued, active, refused>>
        /\ pc'[t] # "idle" /\ job'[t].stay = r
        /\ s # r => status'[s] = status[s]
    BY <1>0, <1>2 DEF HandleRequest, Checkin, Refresh, Checkout, ChangeRoom, Start, TypeOK
  <2>2. CASE s # r
    <3>1. ActiveKeysOf(s) = {}
      BY <2>1 DEF ActiveKeysOf, KeysOf
    <3> QED  BY <1>0, <1>2, <2>1, <2>2, <3>1 DEF Keyed, HandleRequest, Quiet
  <2> QED  BY <2>1, <2>2
<1>3. ASSUME NEW t \in Thread, HandlerStep(t)
      PROVE  s \in refused' \/ \E u \in Thread : pc'[u] # "idle" /\ job'[u].stay = s
  <2>1. Step(t) /\ UNCHANGED refused
    BY <1>3 DEF HandlerStep, Step, front
  <2>2. /\ job[t] \in Job /\ job[t].stay \in StayId
    BY <1>0, <2>1, AtWorkFacts
  <2>3. ~Leave(t) => pc'[t] # "idle" /\ job'[t].stay = job[t].stay
    BY <1>0, <1>3, <2>2 DEF HandlerStep, Supersede, SelectKeys, DeactivateKeys, RevokeKey,
                            AllRevoked, FreeRoom, Goto, TypeOK, Job
  <2>4. Leave(t) => s # job[t].stay
    BY <1>0, <2>2 DEF Leave, TypeOK
  <2> QED  BY <1>1, <2>1, <2>3, <2>4
<1>4. ASSUME NEW t \in Thread, NEW room \in RoomId, HandlerMoves(t, room)
      PROVE  s \in refused' \/ \E u \in Thread : pc'[u] # "idle" /\ job'[u].stay = s
  <2>1. Step(t) /\ UNCHANGED refused /\ pc'[t] = "issue" /\ job'[t].stay = job[t].stay
    BY <1>0, <1>4 DEF HandlerMoves, Move, Goto, Step, TypeOK
  <2> QED  BY <1>1, <2>1
<1>5. ASSUME NEW t \in Thread, HandlerCannotMove(t) \/ HandlerIssues(t)
      PROVE  s \in refused' \/ \E u \in Thread : pc'[u] # "idle" /\ job'[u].stay = s
  <2>1. Step(t) /\ status' = status
    BY <1>5 DEF HandlerCannotMove, HandlerIssues, Step, MoveFails, Issue
  <2>2. CASE Raise(t)
    BY <1>1, <2>1, <2>2 DEF Raise
  <2>3. CASE ~Raise(t)
    <3>1. Issue(t) /\ pc'[t] # "idle" /\ UNCHANGED refused
      BY <1>5, <2>3 DEF HandlerCannotMove, HandlerIssues, front
    <3>2. job[t] \in Job /\ job'[t] = [job[t] EXCEPT !.room = stay_room[job[t].stay]]
      BY <1>0, <2>1, <3>1, AtWorkFacts DEF Issue, TypeOK
    <3>3. job'[t].stay = job[t].stay
      BY <3>2 DEF Job
    <3> QED  BY <1>1, <2>1, <3>1, <3>3
  <2> QED  BY <2>2, <2>3
<1>6. ASSUME NEW t \in Thread, NEW k \in KeyId, HandlerAddsKey(t, k)
      PROVE  s \in refused'
  <2>1. Step(t) /\ AddKey(t, k) /\ refused' = refused \ {job[t].stay} /\ k \in active'
    BY <1>6 DEF HandlerAddsKey, Step, AddKey
  <2>2. issued'[k] = NewKey(t) /\ NewKey(t) \in KeyRow /\ NewKey(t).stay = job[t].stay
    BY <1>0, <2>1, NewKeyFacts DEF NewKey, TypeOK
  <2>3. s # job[t].stay
    BY <2>1, <2>2, LifecycleAssumption DEF ActiveKeysOf, KeysOf
  <2> QED  BY <1>1, <2>1, <2>3
<1>7. CASE UNCHANGED <<status, issued, active, pc, job, refused>>
  BY <1>0, <1>7 DEF Keyed, ActiveKeysOf, KeysOf
<1> QED  BY <1>2, <1>3, <1>4, <1>5, <1>6, <1>7
         DEF StayKeyNext, Wait, Tick, SyncLock, LockChallenge, LockUnlock, BeginCommand,
             Authorize, all, lifecycle, vars, front

(* The room whose keys a handler revokes is the first it will sync. *)
LEMMA WillSyncInductive ==
  ASSUME SInv, [StayKeyNext]_all, NEW t \in Thread
  PROVE  WillSync(t)'
<1>0. /\ IInv /\ AInv /\ TypeOK /\ WillSync(t) /\ due \in [Thread -> Seq(RoomId)]
      /\ stay_room \in [StayId -> RoomId]
  BY DEF SInv, IInv, StayKeyTypeOK, TypeOK
<1>1. ASSUME pc'[t] \notin {"select", "deactivate", "revoke", "free", "leave", "move"}
      PROVE  WillSync(t)'
  <2>1. Selection(t)'
    BY LifecycleKept DEF IInv
  <2> QED  BY <1>1, <2>1 DEF WillSync, Selection
<1>2. ASSUME NEW s \in StayId, HandleRequest(t, s) PROVE WillSync(t)'
  <2>1. CASE pc'[t] = "select"
    <3>1. /\ due'[t] = <<stay_room[s]>> /\ UNCHANGED stay_room
          /\ job'[t].stay = s /\ job'[t].keys = {}
      BY <1>0, <1>2, <2>1 DEF HandleRequest, Checkin, Refresh, Checkout, ChangeRoom, Start, TypeOK
    <3>2. stay_room[s] \in Rooms(due'[t])
      BY <1>0, <3>1, RoomsFacts
    <3> QED  BY <3>1, <3>2 DEF WillSync, Rooms
  <2>2. CASE pc'[t] # "select"
    BY <1>0, <1>1, <1>2, <2>2
       DEF HandleRequest, Checkin, Refresh, Checkout, ChangeRoom, Start, TypeOK
  <2> QED  BY <2>1, <2>2
<1>3. CASE HandlerStep(t)
  <2>1. Step(t) /\ UNCHANGED <<due, stay_room, issued>>
    BY <1>3 DEF HandlerStep, Step, front, Supersede, SelectKeys, DeactivateKeys, RevokeKey,
                AllRevoked, FreeRoom, Leave
  <2>2. job[t] \in Job /\ job[t].stay \in StayId
    BY <1>0, <2>1, AtWorkFacts
  <2>3. CASE SelectKeys(t)
    <3>1. /\ pc[t] = "select" /\ job'[t] = [job[t] EXCEPT !.keys = ActiveKeysOf(job[t].stay)]
      BY <1>0, <2>3 DEF SelectKeys, TypeOK
    <3>2. /\ job'[t].stay = job[t].stay /\ job'[t].keys = ActiveKeysOf(job[t].stay)
      BY <2>2, <3>1 DEF Job
    <3>3. \A k \in ActiveKeysOf(job[t].stay) : issued[k].room = stay_room[job[t].stay]
      BY <1>0 DEF AInv, ActiveKeyMatchesRoom, ActiveKeysOf, KeysOf
    <3> QED  BY <1>0, <2>1, <3>1, <3>2, <3>3 DEF WillSync, Rooms
  <2>4. CASE DeactivateKeys(t) \/ AllRevoked(t) \/ FreeRoom(t)
    <3>1. pc[t] \in {"deactivate", "revoke", "free"} /\ UNCHANGED job
      BY <2>4 DEF DeactivateKeys, AllRevoked, FreeRoom, Goto
    <3> QED  BY <1>0, <2>1, <3>1 DEF WillSync, Rooms
  <2>5. ASSUME NEW k \in KeyId, RevokeKey(t, k) PROVE WillSync(t)'
    <3>1. /\ pc[t] = "revoke" /\ job'[t] = [job[t] EXCEPT !.keys = @ \ {k}]
      BY <1>0, <2>5 DEF RevokeKey, TypeOK
    <3>2. /\ job'[t].stay = job[t].stay /\ job'[t].keys \subseteq job[t].keys
      BY <2>2, <3>1 DEF Job
    <3> QED  BY <1>0, <2>1, <3>1, <3>2 DEF WillSync, Rooms
  <2>6. CASE Supersede(t) \/ Leave(t)
    BY <1>0, <1>1, <2>6 DEF Supersede, Leave, Goto, Done, TypeOK
  <2> QED  BY <1>3, <2>3, <2>4, <2>5, <2>6 DEF HandlerStep
<1>4. CASE \/ HandlerCannotMove(t) \/ HandlerIssues(t)
           \/ \E room \in RoomId : HandlerMoves(t, room)
           \/ \E k \in KeyId : HandlerAddsKey(t, k)
  <2>1. pc'[t] \in {"idle", "issue", "add"}
    BY <1>0, <1>4 DEF HandlerCannotMove, HandlerIssues, HandlerMoves, HandlerAddsKey, MoveFails,
                      Issue, Move, AddKey, Goto, Done, TypeOK
  <2> QED  BY <1>1, <2>1
<1>5. ASSUME NEW u \in Thread \ {t}, Step(u) PROVE WillSync(t)'
  BY <1>0, <1>1, <1>5, OthersIdle
<1>6. ASSUME NEW u \in Thread \ {t}, NEW s \in StayId, HandleRequest(u, s) PROVE WillSync(t)'
  <2>1. pc'[t] = "idle"
    BY <1>0, <1>6 DEF HandleRequest, Quiet, Checkin, Refresh, Checkout, ChangeRoom, Start, TypeOK
  <2> QED  BY <1>1, <2>1
<1>7. ASSUME NEW u \in Thread, SyncLock(u) PROVE WillSync(t)'
  <2>1. CASE t = u
    BY <1>1, <1>7, <2>1 DEF SyncLock, lifecycle, vars
  <2>2. CASE t # u
    <3>1. due'[t] = due[t] /\ UNCHANGED <<pc, job, stay_room, issued>>
      BY <1>0, <1>7, <2>2 DEF SyncLock, lifecycle, vars
    <3> QED  BY <1>0, <3>1 DEF WillSync, Rooms
  <2> QED  BY <2>1, <2>2
<1>8. CASE UNCHANGED <<pc, job, stay_room, issued, due>>
  BY <1>0, <1>8 DEF WillSync, Rooms
<1>9. ASSUME NEW u \in Thread,
             \/ HandlerStep(u) \/ HandlerCannotMove(u) \/ HandlerIssues(u)
             \/ \E room \in RoomId : HandlerMoves(u, room)
             \/ \E k \in KeyId : HandlerAddsKey(u, k)
      PROVE  Step(u)
  BY <1>9 DEF HandlerStep, HandlerCannotMove, HandlerIssues, HandlerMoves, HandlerAddsKey, Step
<1> QED  BY <1>2, <1>3, <1>4, <1>5, <1>6, <1>7, <1>8, <1>9
         DEF StayKeyNext, Wait, Tick, LockChallenge, LockUnlock, BeginCommand, Authorize, all,
             lifecycle, vars, front

(* A revocation is followed by a sync of its room, or the failure of the   *)
(* handler that should have made it is on record.                          *)
LEMMA InformedInductive == SInv /\ [StayKeyNext]_all => Informed'
<1> SUFFICES ASSUME SInv, [StayKeyNext]_all, NEW k \in revoked'
             PROVE  \/ snapshot'[issued'[k].room] = NoLock \/ issued'[k].room \in skipped'
                    \/ k \in snapshot'[issued'[k].room]
                    \/ \E t \in Thread : issued'[k].room \in Rooms(due'[t])
  BY DEF Informed, Rooms
<1>0. /\ IInv /\ AInv /\ TypeOK /\ Informed /\ due \in [Thread -> Seq(RoomId)]
      /\ snapshot \in [RoomId -> (SUBSET KeyId) \cup {NoLock}]
  BY DEF SInv, IInv, StayKeyTypeOK
<1>1. [Next]_vars
  BY StepsServe, ServingIsNext DEF all, lifecycle
<1>2. CASE k \notin revoked
  <2>1. PICK t \in Thread : RevokeKey(t, k) /\ UNCHANGED due
    BY <1>2
       DEF StayKeyNext, Wait, Tick, HandleRequest, HandlerStep, HandlerMoves, HandlerCannotMove,
           HandlerIssues, HandlerAddsKey, SyncLock, LockChallenge, LockUnlock, BeginCommand,
           Authorize, Checkin, Refresh, Checkout, ChangeRoom, Supersede, SelectKeys,
           DeactivateKeys, RevokeKey, AllRevoked, FreeRoom, Leave, Move, MoveFails, Issue,
           AddKey, all, lifecycle, vars, front
  <2>2. issued[k].room \in Rooms(due[t]) /\ issued' = issued
    BY <2>1 DEF SInv, WillSync, RevokeKey
  <2> QED  BY <2>1, <2>2
<1>3. CASE k \in revoked
  <2>1. k \in KeyId /\ issued[k] # NoKey
    BY <1>0, <1>3 DEF TypeOK, IInv, RowsExist
  <2>2. issued'[k] = issued[k]
    BY <1>0, <1>1, <2>1, RowsStay
  <2>3. PICK r \in RoomId : issued[k].room = r /\ issued'[k].room = r
    BY <1>0, <2>1, <2>2 DEF TypeOK, KeyRow
  <2>4. \/ snapshot[r] = NoLock \/ r \in skipped \/ k \in snapshot[r]
        \/ \E t \in Thread : r \in Rooms(due[t])
    BY <1>0, <1>3, <2>3 DEF Informed
  <2> SUFFICES \/ snapshot'[r] = NoLock \/ r \in skipped' \/ k \in snapshot'[r]
               \/ \E t \in Thread : r \in Rooms(due'[t])
    BY <2>3
  <2> DEFINE Told == \/ snapshot'[r] = NoLock \/ r \in skipped' \/ k \in snapshot'[r]
                     \/ \E t \in Thread : r \in Rooms(due'[t])
  <2>5. ASSUME NEW t \in Thread, NEW s \in StayId, HandleRequest(t, s) PROVE Told
    BY <2>4, <2>5, RoomsFacts DEF HandleRequest, Quiet
  <2>6. ASSUME NEW t \in Thread, NEW room \in RoomId, HandlerMoves(t, room) PROVE Told
    <3>1. /\ UNCHANGED <<snapshot, skipped>> /\ due' = [due EXCEPT ![t] = Append(@, room)]
      BY <2>6 DEF HandlerMoves
    <3>2. Rooms(Append(due[t], room)) = Rooms(due[t]) \cup {room}
      BY <1>0, RoomsFacts
    <3>3. \A u \in Thread : r \in Rooms(due[u]) => r \in Rooms(due'[u])
      BY <1>0, <3>1, <3>2
    <3> QED  BY <2>4, <3>1, <3>3
  <2>7. ASSUME NEW t \in Thread, Raise(t) PROVE Told
    <3>1. /\ snapshot' = snapshot /\ due' = [due EXCEPT ![t] = <<>>]
          /\ skipped' = skipped \cup {room \in Rooms(due[t]) :
                                         snapshot[room] \notin {NoLock, revoked}}
      BY <2>7 DEF Raise
    <3>2. \A u \in Thread \ {t} : due'[u] = due[u]
      BY <1>0, <3>1
    <3>3. r \in Rooms(due[t]) => snapshot[r] = NoLock \/ k \in snapshot[r] \/ r \in skipped'
      BY <1>3, <3>1
    <3> QED  BY <2>4, <3>1, <3>2, <3>3
  <2>8. ASSUME NEW t \in Thread, SyncLock(t) PROVE Told
    <3>1. /\ due[t] # <<>> /\ snapshot' = [snapshot EXCEPT ![Head(due[t])] = revoked]
          /\ due' = [due EXCEPT ![t] = Tail(@)] /\ skipped' = skipped \ {Head(due[t])}
      BY <2>8 DEF SyncLock
    <3>2. Rooms(due[t]) = {Head(due[t])} \cup Rooms(Tail(due[t]))
      BY <1>0, <3>1, RoomsFacts
    <3>3. r = Head(due[t]) => k \in snapshot'[r]
      BY <1>0, <1>3, <3>1
    <3>4. r # Head(due[t]) => /\ snapshot'[r] = snapshot[r]
                              /\ r \in skipped => r \in skipped'
                              /\ \A u \in Thread : r \in Rooms(due[u]) => r \in Rooms(due'[u])
      BY <1>0, <3>1, <3>2
    <3> QED  BY <2>4, <3>3, <3>4
  <2>9. ASSUME NEW room \in RoomId, LockChallenge(room) \/ LockUnlock(room) PROVE Told
    <3>1. UNCHANGED due /\ snapshot' = [snapshot EXCEPT ![room] = revoked]
          /\ skipped \subseteq skipped' \cup {room}
      BY <2>9 DEF LockChallenge, LockUnlock
    <3>2. r = room => k \in snapshot'[r]
      BY <1>0, <1>3, <3>1
    <3>3. r # room => snapshot'[r] = snapshot[r]
      BY <1>0, <3>1
    <3> QED  BY <2>4, <3>1, <3>2, <3>3
  <2>10. CASE UNCHANGED <<snapshot, skipped, due>>
    BY <2>4, <2>10
  <2>11. ASSUME NEW t \in Thread, HandlerCannotMove(t) \/ HandlerIssues(t)
         PROVE  Raise(t) \/ UNCHANGED <<snapshot, skipped, due>>
    BY <2>11 DEF HandlerCannotMove, HandlerIssues, front
  <2> QED  BY <2>5, <2>6, <2>7, <2>8, <2>9, <2>10, <2>11
           DEF StayKeyNext, Wait, HandlerStep, HandlerAddsKey, BeginCommand, Authorize, all,
               front
<1> QED  BY <1>2, <1>3

(* The inductive invariant holds in every state of the service. *)
THEOREM SInvHolds == StayKeySpec => []SInv
<1>1. SInv /\ [StayKeyNext]_all => SInv'
  BY LifecycleKept, FrontTypeInductive, SharedInductive, KeyedInductive,
     WillSyncInductive, InformedInductive DEF SInv
<1> QED  BY <1>1, InitSInv, PTL DEF StayKeySpec

-----------------------------------------------------------------------------
(* The tables, the queues of syncs, the snapshots and the authorizer's     *)
(* challenges stay well typed: a handler syncs only rooms there are.       *)
THEOREM ServiceTypeCorrect == StayKeySpec => []StayKeyTypeOK
BY SInvHolds, PTL DEF SInv

(* What lifecycle.py promises of keys holds of the service with its other  *)
(* parts, one request at a time: no key is active and revoked, or valid    *)
(* outside its stay, or forgotten, or for a room its stay has left, and    *)
(* who has checked out has neither key nor room.                           *)
THEOREM LifecycleCarriesOver ==
  StayKeySpec => [](/\ RevokedNotActive /\ KeysWithinStay /\ NoKeyForgotten
                    /\ ActiveKeyMatchesRoom /\ CheckedOutIsOut)
BY SInvHolds, PTL DEF SInv, IInv, AInv

(* Between requests no lock that has been built lacks a revocation of a    *)
(* key to its room, unless the handler that revoked it raised before its   *)
(* sync (sync_lock at the end of checkout and room_change).                *)
THEOREM LocksInformed == StayKeySpec => []RevocationsSynced
<1>1. SInv => RevocationsSynced
  BY RoomsFacts DEF SInv, Informed, RevocationsSynced, Quiet
<1> QED  BY <1>1, SInvHolds, PTL

(* The moments at which a key passes the static checks lie within its      *)
(* stay, both ends included (effective_window and evaluate_static).        *)
LEMMA PassWithinStay ==
  ASSUME SInv, NEW k \in Known, NEW room \in RoomId, NEW now \in Nat,
         StaticCheck(k, room, now) = "pass"
  PROVE  /\ issued[k].stay \in StayId
         /\ Window[issued[k].stay].check_in <= now
         /\ now <= Window[issued[k].stay].check_out
<1>1. /\ k \in KeyId /\ issued[k] # NoKey /\ issued[k] \in KeyRow
  BY DEF Known, SInv, IInv, TypeOK
<1>2. ~(now < issued[k].valid_from) /\ ~(now > issued[k].valid_until)
  BY DEF StaticCheck, EvaluateStatic, TokenOf, CredentialOf
<1>3. /\ issued[k].stay \in StayId
      /\ issued[k].valid_from \in Nat /\ issued[k].valid_until \in Nat
  BY <1>1 DEF KeyRow
<1>4. /\ issued[k].valid_from = Window[issued[k].stay].check_in
      /\ issued[k].valid_until <= Window[issued[k].stay].check_out
  BY <1>1 DEF SInv, IInv, KeysWithinStay
<1>5. Window[issued[k].stay].check_in \in Nat /\ Window[issued[k].stay].check_out \in Nat
  BY <1>3, LifecycleAssumption
<1> QED  BY <1>2, <1>3, <1>4, <1>5

(* Two guests who hold the same room are never both let in at its door,    *)
(* but for the moment at which one stay ends and the other begins.         *)
THEOREM NeighboursApart == StayKeySpec => []NeighboursOnlyTouch
<1>1. SInv => NeighboursOnlyTouch
  <2> SUFFICES ASSUME SInv, NEW j \in Known, NEW k \in Known,
                      issued[j].stay # issued[k].stay,
                      assigned[issued[j].stay] # NoRoom,
                      assigned[issued[k].stay] = assigned[issued[j].stay],
                      NEW now \in Times,
                      StaticCheck(j, assigned[issued[j].stay], now) = "pass",
                      StaticCheck(k, assigned[issued[j].stay], now) = "pass"
               PROVE  \/ /\ now = Window[issued[j].stay].check_out
                         /\ now = Window[issued[k].stay].check_in
                      \/ /\ now = Window[issued[k].stay].check_out
                         /\ now = Window[issued[j].stay].check_in
    BY DEF NeighboursOnlyTouch
  <2>1. now \in Nat
    BY LifecycleAssumption DEF Times
  <2>2. issued[j].stay \in StayId /\ issued[k].stay \in StayId
    BY DEF Known, SInv, IInv, TypeOK, KeyRow
  <2>3. assigned[issued[j].stay] \in RoomId
    BY <2>2 DEF SInv, IInv, TypeOK, MaybeRoom
  <2>4. /\ Window[issued[j].stay].check_in <= now /\ now <= Window[issued[j].stay].check_out
        /\ Window[issued[k].stay].check_in <= now /\ now <= Window[issued[k].stay].check_out
    BY <2>1, <2>3, PassWithinStay
  <2>5. ~Overlap(issued[j].stay, issued[k].stay)
    BY <2>2 DEF SInv, RoomsShared
  <2>6. /\ Window[issued[j].stay] \in [check_in: Nat, check_out: Nat]
        /\ Window[issued[k].stay] \in [check_in: Nat, check_out: Nat]
    BY <2>2, LifecycleAssumption
  <2> QED  BY <2>1, <2>4, <2>5, <2>6 DEF Overlap
<1> QED  BY <1>1, SInvHolds, PTL

(* Whoever may control a room's devices holds that room, and no other stay *)
(* in it covers the moment, but at the end of their own (authorize).       *)
THEOREM OccupantControls == StayKeySpec => []ControlByOccupant
<1>1. SInv => ControlByOccupant
  <2> SUFFICES ASSUME SInv, NEW k \in Known, NEW room \in RoomId, NEW now \in Times,
                      MayControl(k, room, now)
               PROVE  /\ assigned[issued[k].stay] = room
                      /\ \A x \in StayId \ {issued[k].stay} : assigned[x] = room =>
                           \/ now < Window[x].check_in \/ now >= Window[x].check_out
                           \/ now = Window[issued[k].stay].check_out
    BY DEF ControlByOccupant
  <2>1. now \in Nat
    BY LifecycleAssumption DEF Times
  <2>2. /\ issued[k].stay \in StayId
        /\ Window[issued[k].stay].check_in <= now /\ now <= Window[issued[k].stay].check_out
    BY <2>1, PassWithinStay DEF MayControl
  <2>3. assigned[issued[k].stay] = room
    BY DEF MayControl, ActiveStay, ActiveAssignment
  <2>4. ASSUME NEW x \in StayId \ {issued[k].stay}, assigned[x] = room
        PROVE  \/ now < Window[x].check_in \/ now >= Window[x].check_out
               \/ now = Window[issued[k].stay].check_out
    <3>1. ~Overlap(x, issued[k].stay)
      BY <2>2, <2>3, <2>4, LifecycleAssumption DEF SInv, RoomsShared
    <3>2. /\ Window[issued[k].stay] \in [check_in: Nat, check_out: Nat]
          /\ Window[x] \in [check_in: Nat, check_out: Nat]
      BY <2>2, LifecycleAssumption
    <3> QED  BY <2>1, <2>2, <3>1, <3>2 DEF Overlap
  <2> QED  BY <2>3, <2>4
<1> QED  BY <1>1, SInvHolds, PTL

(* A guest who has checked in and has no active key has been refused one:  *)
(* no request that succeeds takes a key without giving one (refresh_key,   *)
(* change_room, issue_for_stay).                                           *)
THEOREM KeylessRefused == StayKeySpec => []KeylessOnlyAfterRefusal
<1>1. SInv => KeylessOnlyAfterRefusal
  BY DEF SInv, Keyed, Quiet, KeylessOnlyAfterRefusal
<1> QED  BY <1>1, SInvHolds, PTL

-----------------------------------------------------------------------------
(* The one-time passes that the authorizer's store stands for. *)
Answerable == {n \in Nonce : controls.pending[n] # Nonces!Absent}

(* begin_command sends a pass, though it may drop others on the way. *)
LEMMA BeginSends ==
  ASSUME SInv, NEW n \in Nonce, BeginCommand(n)
  PROVE  CommandPass!Send(n)
<1>0. controls \in Nonces!ChallengeStore /\ clock \in Nat
  BY DEF SInv, StayKeyTypeOK, TypeOK
<1>1. /\ controls' = Nonces!Issue(controls, n, clock) /\ n \notin asked
      /\ asked' = asked \cup {n} /\ applied' = applied
  BY DEF BeginCommand
<1>2. /\ controls'.pending[n] # Nonces!Absent
      /\ \A m \in Nonce \ {n} : controls'.pending[m] \in {controls.pending[m], Nonces!Absent}
  BY <1>0, <1>1, NonceEntries
<1>3. (Answerable' \ {n}) \in SUBSET Answerable /\ Answerable' = (Answerable' \ {n}) \cup {n}
  BY <1>2 DEF Answerable
<1> QED  BY <1>1, <1>3 DEF CommandPass!Send, Answerable

(* A command uses the pass it was authorized on. *)
LEMMA AuthorizeUses ==
  ASSUME SInv, NEW command, NEW k, NEW room, NEW n \in Nonce, NEW device,
         NEW now \in {clock} \cup Override, Authorize(command, k, room, n, device, now)
  PROVE  CommandPass!Use(n)
<1>0. controls \in Nonces!ChallengeStore /\ now \in Nat
  BY LifecycleAssumption DEF SInv, StayKeyTypeOK, TypeOK
<1>1. /\ controls' = Nonces!Consume(controls, n, now) /\ UNCHANGED asked
      /\ Nonces!Check(controls, n, now) = "ok" /\ applied' = [applied EXCEPT ![n] = @ + 1]
  BY DEF Authorize
<1>2. /\ controls'.pending[n] = Nonces!Absent
      /\ \A m \in Nonce \ {n} : controls'.pending[m] = controls.pending[m]
  <2>1. /\ Nonces!Consume(controls, n, now).pending[n] = Nonces!Absent
        /\ \A m \in Nonce \ {n} :
             Nonces!Consume(controls, n, now).pending[m] = controls.pending[m]
    BY <1>0, NonceEntries
  <2> QED  BY <1>1, <2>1
<1>3. n \in Answerable
  BY <1>1 DEF Answerable, Nonces!Check
<1>4. Answerable' = Answerable \ {n}
  BY <1>2 DEF Answerable
<1> QED  BY <1>1, <1>3, <1>4 DEF CommandPass!Use, Answerable

(* The authorizer's challenges are one-time passes, whatever the lifecycle *)
(* of keys, stays and rooms does between the sending and the use: for a    *)
(* service that answers one request at a time (begin_command, authorize).  *)
THEOREM CommandPassImplemented == StayKeySpec => ImplementsCommandPass
<1>1. StayKeyInit => CommandPass!Init
  BY DEF StayKeyInit, CommandPass!Init, Nonces!NewStore
<1>2. SInv /\ [StayKeyNext]_all => [CommandPass!Next]_<<asked, Answerable, applied>>
  <2> SUFFICES ASSUME SInv, [StayKeyNext]_all
               PROVE  CommandPass!Next \/ UNCHANGED <<asked, Answerable, applied>>
    OBVIOUS
  <2>1. ASSUME NEW n \in Nonce, BeginCommand(n) PROVE CommandPass!Next
    BY <2>1, BeginSends DEF CommandPass!Next
  <2>2. ASSUME NEW command \in Command, NEW k \in KeyId, NEW room \in RoomId, NEW n \in Nonce,
               NEW device \in Device, NEW now \in {clock} \cup Override,
               Authorize(command, k, room, n, device, now)
        PROVE  CommandPass!Next
    BY <2>2, AuthorizeUses DEF CommandPass!Next
  <2>3. CASE UNCHANGED <<controls, asked, applied>>
    BY <2>3 DEF Answerable
  <2> QED  BY <2>1, <2>2, <2>3
           DEF StayKeyNext, Wait, HandleRequest, HandlerStep, HandlerMoves, HandlerCannotMove,
               HandlerIssues, HandlerAddsKey, SyncLock, LockChallenge, LockUnlock, Raise, all,
               front
<1>3. SInv /\ [StayKeyNext]_all =>
        [CommandPass!Next]_<<asked, {n \in Nonce : controls.pending[n] # Nonces!Absent},
                             applied>>
  BY <1>2 DEF Answerable
<1> QED  BY <1>1, <1>3, SInvHolds, PTL DEF StayKeySpec, ImplementsCommandPass, CommandPass!Spec
=============================================================================
